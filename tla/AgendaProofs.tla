---------------------------- MODULE AgendaProofs ----------------------------
(***************************************************************************)
(* Proofs about Agenda, for any number of reservations, events, units,     *)
(* hours and requests in course: scheduled events follow their             *)
(* reservation, automatic ones are at the hours in force, and markings by  *)
(* hand do not meet in a unit.                                             *)
(*                                                                         *)
(* Each rests on one lock.  The hours a step read are still in force when  *)
(* it commits (SabeHora); what a marking cites stands as it was checked,   *)
(* because its reservation cannot move without the lock the marking has of *)
(* the reservation or of the event (SabeVinculo); and the units it will    *)
(* occupy are still free, because whoever would take them queues behind it *)
(* (SabeUnidades).                                                         *)
(***************************************************************************)
EXTENDS Agenda, TLAPS

-----------------------------------------------------------------------------
(* Types.                                                                  *)

Estados == {"hold", "confirmed", "checked_in", "checked_out", "cancelled", "expired"}
Reserva == [estado : Estados, unidade : Unidades, realocada : BOOLEAN, entrou : BOOLEAN]
Evento == [estado : {"ausente", "agendado", "concluido", "cancelado"},
           reserva : Estadias \cup {Nenhum}, unidade : Unidades \cup {Nenhum},
           dia : Nat, hora : Horarios \cup {Nenhum}, semente : BOOLEAN]
Travas == {"evento", "reserva", "unidade", "horario"}
            \X (Eventos \cup Estadias \cup Unidades \cup {Nenhum})
            \X {"exclusiva", "compartilhada"}
Ops == DaReserva \cup {"nenhuma", "criar", "editar", "configurar", "preencher"}
Etapas == {"livre", "vinculo", "unidades", "gravar", "horario", "eventos", "fila",
           "automaticos", "semear"}
Pedido == [op : Ops, etapa : Etapas, reserva : Estadias \cup {Nenhum},
           evento : Eventos \cup {Nenhum}, unidade : Unidades \cup {Nenhum}, alvo : Evento,
           ocupa : SUBSET Unidades, hora : Horarios \cup {Nenhum},
           lista : SUBSET (Estadias \X Estados), dia : Nat, travas : SUBSET Travas]

TypeOK ==
    /\ hoje \in Nat /\ horario \in Horarios
    /\ reserva \in [Estadias -> Reserva]
    /\ evento \in [Eventos -> Evento]
    /\ pedido \in [Pedidos -> Pedido]

-----------------------------------------------------------------------------
(* The inductive invariant.                                                *)

\* Two requests never hold locks that exclude each other.
Exclusao ==
    \A p, q \in Pedidos : p # q =>
        \A a \in pedido[p].travas : \A b \in pedido[q].travas : ~Choca(a, b)

\* The unit of the reservation was exchanged.
Realocada(r) == r # Nenhum /\ reserva[r].realocada

\* The hours a step read are the hours in force, until it commits.
SabeHora(r) ==
    /\ r.dia <= hoje
    /\ r.etapa \in {"eventos", "fila", "semear"} =>
          <<"horario", Nenhum, "compartilhada">> \in r.travas /\ r.hora = horario
    /\ r.etapa = "automaticos" =>
          <<"horario", Nenhum, "exclusiva">> \in r.travas /\ r.hora \in Horarios

\* A step of a reservation has its row, and a reassignment that queues for the unit
\* of destination has every event of it.
SabeReserva(r) ==
    /\ r.etapa \in {"horario", "eventos", "fila"} => r.op \in DaReserva
    /\ r.op \in DaReserva =>
          r.reserva \in Estadias /\ <<"reserva", r.reserva, "exclusiva">> \in r.travas
    /\ r.op = "realocar" => r.unidade \in Unidades
    /\ r.etapa = "fila" =>
          r.op = "realocar" /\ TravarEventos(r.reserva) \subseteq r.travas

\* Who edits has the event's row, still scheduled; of an automatic event only the
\* day and the hour change, and the hour becomes somebody's choice.
SabeEvento(r) ==
    /\ r.etapa \in {"vinculo", "unidades", "gravar"} =>
          r.op \in {"criar", "editar"} /\ Agendado(r.alvo)
    /\ r.etapa = "vinculo" => r.op = "editar" /\ r.evento \in Manuais /\ r.alvo.reserva # Nenhum
    /\ r.op = "criar" => r.evento = Nenhum
    /\ r.op = "editar" =>
          /\ r.evento \in Eventos /\ <<"evento", r.evento, "exclusiva">> \in r.travas
          /\ Agendado(evento[r.evento]) /\ r.alvo.semente = evento[r.evento].semente
          /\ r.evento \in Automaticos =>
                /\ r.alvo.reserva = r.evento[1]
                /\ r.alvo.unidade = Nenhum /\ r.alvo.hora = Nenhum

\* What the marking cites stands: the reservation is locked and open, or the event
\* was already its and is locked.
SabeVinculo(r) ==
    r.etapa \in {"unidades", "gravar"} /\ r.alvo.reserva # Nenhum =>
        /\ r.alvo.unidade \in {Nenhum, reserva[r.alvo.reserva].unidade}
        /\ \/ /\ <<"reserva", r.alvo.reserva, "compartilhada">> \in r.travas
              /\ reserva[r.alvo.reserva].estado \in EstadosQueAceitamVinculo
           \/ r.op = "editar" /\ r.alvo.reserva = evento[r.evento].reserva

\* The units the marking will occupy are those it queues for, unless its reservation
\* was exchanged; once it has them, no other marking of the day is there, unless a
\* reassignment brought it.
SabeUnidades(r) ==
    /\ r.etapa \in {"unidades", "gravar"} =>
          Candidato(r.alvo) \subseteq r.ocupa \/ Realocada(r.alvo.reserva)
    /\ r.etapa = "gravar" /\ r.evento \notin Automaticos =>
          /\ TravarUnidades(r.ocupa) \subseteq r.travas
          /\ \A y \in UnitConflicts(r.evento, r.alvo, r.ocupa) : Realocada(evento[y].reserva)

Sabe(r) == SabeHora(r) /\ SabeReserva(r) /\ SabeEvento(r) /\ SabeVinculo(r) /\ SabeUnidades(r)
TodosSabem == \A p \in Pedidos : Sabe(pedido[p])

\* An automatic event is of its reservation and has no unit of its own.
AutomaticosSeus ==
    \A x \in Automaticos :
        /\ evento[x].estado # "ausente" => evento[x].reserva = x[1]
        /\ evento[x].unidade = Nenhum

QuemEstaEntrou == \A r \in Estadias : reserva[r].estado = "checked_in" => reserva[r].entrou

IInv ==
    /\ TypeOK /\ Exclusao /\ TodosSabem
    /\ AutomaticosSeus /\ QuemEstaEntrou
    /\ EventoSegueReserva /\ AutomaticoNoHorario /\ MarcacoesNaoSeCruzam

-----------------------------------------------------------------------------
(* What the rules of domain/agenda leave of an event.                      *)

LEMMA LivreTipado ==
    /\ Livre \in Pedido /\ Livre.op = "nenhuma" /\ Livre.etapa = "livre" /\ Livre.dia = 0
    /\ Livre.travas = {}
<1>1. EventoAusente \in Evento
    BY DEF EventoAusente, Evento
<1> QED
    BY <1>1 DEF Livre, Pedido, Ops, Etapas

LEMMA AusenteTipado ==
    /\ EventoAusente \in Evento /\ EventoAusente.estado = "ausente"
    /\ EventoAusente.unidade = Nenhum /\ EventoAusente.hora = Nenhum
BY DEF EventoAusente, Evento

\* `f' is what a step leaves of the event `e': closed, or as it was but for the hour
\* and, if automatic, the day that goes with it.
Restou(x, e, f, h) ==
    /\ f \in Evento
    /\ e.estado = "ausente" => f.estado = "ausente"
    /\ x \in Automaticos => f.reserva = e.reserva /\ (e.unidade = Nenhum => f.unidade = Nenhum)
    /\ f.estado # "ausente" => e.estado # "ausente" /\ f.reserva \in {Nenhum, e.reserva}
    /\ Agendado(f) =>
          /\ Agendado(e) /\ f.reserva = e.reserva /\ f.semente = e.semente
          /\ f.unidade = e.unidade
          /\ x \in Manuais => f.dia = e.dia
          /\ f.hora = h \/ (f.hora = e.hora /\ f.dia = e.dia)

LEMMA RestouTudo == ASSUME NEW x \in Eventos, NEW e \in Evento, NEW h PROVE Restou(x, e, e, h)
BY DEF Restou, Agendado

LEMMA RestouFechado ==
    ASSUME NEW x \in Eventos, NEW e \in Evento, Agendado(e), NEW h,
           NEW estado \in {"concluido", "cancelado"}
    PROVE  Restou(x, e, Fechar(x, e, estado), h)
BY AgendaAssumption DEF Restou, Fechar, Agendado, Evento, Automaticos

LEMMA RestouNaHora ==
    ASSUME NEW x \in Automaticos, NEW e \in Evento, Agendado(e), NEW h \in Horarios, NEW dia \in Nat
    PROVE  Restou(x, e, AutoWindow(e, dia, h), h) /\ Agendado(AutoWindow(e, dia, h))
BY AgendaAssumption DEF Restou, AutoWindow, Agendado, Evento, Automaticos

\* Moved to another window and then closed.
LEMMA RestouDoRestante ==
    ASSUME NEW x \in Eventos, NEW e, NEW f, NEW g, NEW h,
           Restou(x, e, f, h), Restou(x, f, g, h)
    PROVE  Restou(x, e, g, h)
BY DEF Restou, Agendado, Evento

LEMMA RestouDaEntrada ==
    ASSUME NEW x \in Eventos, NEW e \in Evento, NEW h
    PROVE  Restou(x, e, OnCheckIn(x, e), h)
BY RestouTudo, RestouFechado DEF OnCheckIn

LEMMA RestouDaLimpeza ==
    ASSUME NEW x \in Automaticos, NEW e \in Evento, Agendado(e), NEW h \in Horarios, NEW dia \in Nat
    PROVE  Restou(x, e, TrazerLimpeza(e, dia, h), h)
BY RestouTudo, RestouNaHora DEF TrazerLimpeza, Eventos

LEMMA RestouDaSaida ==
    ASSUME NEW x \in Eventos, NEW e \in Evento, NEW h \in Horarios, NEW dia \in Nat
    PROVE  Restou(x, e, OnCheckOut(x, e, dia, h), h)
<1> DEFINE cedo == dia < Periodo[e.reserva].ate
           w == AutoWindow(e, dia, h)
           f == IF cedo THEN w ELSE e
<1>1. CASE x \in Manuais \/ ~Agendado(e)
    BY <1>1, RestouTudo DEF OnCheckOut
<1>2. CASE x \in Automaticos /\ Agendado(e)
    <2>1. Restou(x, e, w, h) /\ Agendado(w)
        BY <1>2, RestouNaHora
    <2> HIDE DEF w
    <2>2. Restou(x, e, f, h) /\ Agendado(f)
        BY <1>2, <2>1, RestouTudo
    <2> HIDE DEF f
    <2>3. Restou(x, e, Fechar(x, f, "concluido"), h)
        <3>1. Restou(x, f, Fechar(x, f, "concluido"), h)
            BY <2>2, RestouFechado DEF Restou
        <3> QED
            BY <2>2, <3>1, RestouDoRestante
    <2>4. Restou(x, e, TrazerLimpeza(e, dia, h), h)
        BY <1>2, RestouDaLimpeza
    <2>5. OnCheckOut(x, e, dia, h) = CASE x[2] = "checkout" -> Fechar(x, f, "concluido")
                                      [] x[2] = "limpeza" /\ cedo -> TrazerLimpeza(e, dia, h)
                                      [] OTHER -> e
        BY <1>2, AgendaAssumption DEF OnCheckOut, Automaticos, f, w
    <2> HIDE DEF cedo
    <2> QED
        BY <1>2, <2>3, <2>4, <2>5, RestouTudo
<1> QED
    BY <1>1, <1>2 DEF Eventos

LEMMA RestouDoCancelamento ==
    ASSUME NEW x \in Eventos, NEW e \in Evento, NEW h \in Horarios, NEW dia \in Nat,
           NEW hospedado \in BOOLEAN
    PROVE  LET f == OnCancel(x, e, hospedado, dia, h) IN
           /\ Restou(x, e, f, h)
           /\ Agendado(f) => hospedado /\ (x \in Manuais \/ x[2] = "limpeza")
<1> DEFINE f == OnCancel(x, e, hospedado, dia, h)
           g == Fechar(x, e, "cancelado")
           l == TrazerLimpeza(e, dia, h)
<1>1. CASE ~Agendado(e)
    BY <1>1, RestouTudo DEF OnCancel
<1>2. CASE Agendado(e)
    <2>1. Restou(x, e, g, h) /\ ~Agendado(g)
        BY <1>2, RestouFechado DEF Fechar, Agendado, Evento
    <2>2. x \notin Manuais => Restou(x, e, l, h)
        BY <1>2, RestouDaLimpeza DEF Eventos
    <2>3. \/ f = e /\ x \in Manuais /\ hospedado
          \/ f = l /\ x \notin Manuais /\ hospedado /\ x[2] = "limpeza"
          \/ f = g
        BY <1>2 DEF OnCancel
    <2> HIDE DEF f, g, l
    <2> QED
        BY <1>2, <2>1, <2>2, <2>3, RestouTudo DEF f
<1> QED
    BY <1>1, <1>2

LEMMA RestouDoHorario ==
    ASSUME NEW x \in Eventos, NEW e \in Evento, NEW antiga, NEW nova \in Horarios, NEW dia
    PROVE  LET f == Retime(x, e, antiga, nova, dia) IN
           /\ Restou(x, e, f, nova)
           /\ Agendado(f) => f.hora # antiga \/ f.hora = nova \/ ~(x \in Automaticos /\ f.dia >= dia)
<1>1. CASE x \notin Manuais /\ Agendado(e) /\ e.dia >= dia /\ e.hora = antiga
    <2>1. Retime(x, e, antiga, nova, dia) = AutoWindow(e, e.dia, nova)
        BY <1>1 DEF Retime
    <2>2. e.dia \in Nat /\ x \in Automaticos
        BY <1>1 DEF Evento, Eventos
    <2>3. AutoWindow(e, e.dia, nova).hora = nova
        BY DEF AutoWindow, Evento
    <2> QED
        BY <1>1, <2>1, <2>2, <2>3, RestouNaHora
<1>2. CASE ~(x \notin Manuais /\ Agendado(e) /\ e.dia >= dia /\ e.hora = antiga)
    <2>1. Retime(x, e, antiga, nova, dia) = e
        BY <1>2 DEF Retime
    <2> QED
        BY <1>2, <2>1, RestouTudo, AgendaAssumption DEF Automaticos
<1> QED
    BY <1>1, <1>2

-----------------------------------------------------------------------------
(* Requests.                                                               *)

LEMMA LivreSabe == ASSUME TypeOK PROVE Sabe(Livre)
BY LivreTipado DEF Sabe, SabeHora, SabeReserva, SabeEvento, SabeVinculo, SabeUnidades,
   DaReserva, TypeOK

\* Locks granted to p, added to those it has, exclude nobody's.
LEMMA TravasDe ==
    ASSUME IInv, NEW p \in Pedidos, NEW travas, Concedidas(p, travas)
    PROVE  Concedidas(p, pedido[p].travas \cup travas)
BY DEF IInv, Exclusao, Concedidas

LEMMA SempreExclusao ==
    ASSUME IInv, NEW p \in Pedidos, NEW n \in Pedido, Concedidas(p, n.travas),
           pedido' = [pedido EXCEPT ![p] = n]
    PROVE  Exclusao'
<1> SUFFICES ASSUME NEW a \in Pedidos, NEW b \in Pedidos, a # b,
                    NEW s \in pedido'[a].travas, NEW t \in pedido'[b].travas
             PROVE  ~Choca(s, t)
    BY DEF Exclusao, Choca
<1>1. CASE a # p /\ b # p
    BY <1>1 DEF Exclusao, IInv, TypeOK
<1>2. CASE a = p \/ b = p
    BY <1>2 DEF Concedidas, Choca, IInv, TypeOK
<1> QED
    BY <1>1, <1>2

\* A statement that only moves its own request.
LEMMA SoAndou ==
    ASSUME IInv, NEW p \in Pedidos, NEW n \in Pedido, Sabe(n), Concedidas(p, n.travas),
           pedido' = [pedido EXCEPT ![p] = n], SoPedido
    PROVE  IInv'
<1> USE DEF SoPedido
<1>1. TypeOK'
    BY DEF IInv, TypeOK
<1>2. Exclusao'
    BY SempreExclusao
<1>3. TodosSabem'
    <2> SUFFICES ASSUME NEW q \in Pedidos PROVE Sabe(pedido[q])'
        BY DEF TodosSabem
    <2>1. PICK r \in Pedido : r = pedido'[q] /\ Sabe(r)
        BY DEF IInv, TypeOK, TodosSabem
    <2>2. /\ SabeHora(r)' /\ SabeReserva(r)' /\ SabeEvento(r)' /\ SabeVinculo(r)'
        BY <2>1 DEF Sabe, SabeHora, SabeReserva, SabeEvento, SabeVinculo, TravarEventos,
           EventosDaReserva
    <2>3. SabeUnidades(r)'
        BY <2>1 DEF Sabe, SabeUnidades, UnitConflicts, Candidato, UnidadesDaReserva, Realocada
    <2> QED
        BY <2>1, <2>2, <2>3 DEF Sabe
<1>4. AutomaticosSeus' /\ QuemEstaEntrou'
    BY DEF IInv, AutomaticosSeus, QuemEstaEntrou
<1>5. EventoSegueReserva'
    BY DEF IInv, EventoSegueReserva, Agendado
<1>6. AutomaticoNoHorario'
    BY DEF IInv, AutomaticoNoHorario, Agendado
<1>7. MarcacoesNaoSeCruzam'
    BY DEF IInv, MarcacoesNaoSeCruzam, Agendado, Candidato, UnidadesDaReserva
<1> QED
    BY <1>1, <1>2, <1>3, <1>4, <1>5, <1>6, <1>7 DEF IInv

\* What a request that goes on becomes, with the locks it got.
LEMMA Seguiu ==
    ASSUME IInv, NEW p \in Pedidos, NEW travas \in SUBSET Travas, NEW n \in Pedido,
           n.travas = pedido[p].travas, Seguir(p, travas, n), SoPedido,
           Sabe([n EXCEPT !.travas = n.travas \cup travas])
    PROVE  IInv'
<1> DEFINE m == [n EXCEPT !.travas = n.travas \cup travas]
<1>1. m \in Pedido /\ m.travas = n.travas \cup travas
    BY DEF Pedido
<1>2. pedido' = [pedido EXCEPT ![p] = m] /\ Concedidas(p, travas)
    BY DEF Seguir
<1>3. Concedidas(p, m.travas)
    BY <1>1, <1>2, TravasDe
<1> HIDE DEF m
<1> QED
    BY <1>1, <1>2, <1>3, SoAndou DEF m

LEMMA Desistiu ==
    ASSUME IInv, NEW p \in Pedidos, NEW travas, Terminar(p, travas), SoPedido
    PROVE  IInv'
<1>1. Concedidas(p, Livre.travas)
    BY LivreTipado DEF Concedidas
<1> QED
    BY <1>1, LivreTipado, LivreSabe, SoAndou DEF Terminar, IInv

\* The hours and the reservations a request locked, the events it edits, and the
\* markings it looked at, are as it left them while others write.
LEMMA OutroSabe ==
    ASSUME IInv, TypeOK', NEW r \in Pedido, Sabe(r), hoje <= hoje',
           <<"horario", Nenhum, "compartilhada">> \in r.travas => horario' = horario,
           \A s \in Estadias :
               /\ <<"reserva", s, "compartilhada">> \in r.travas => reserva'[s] = reserva[s]
               /\ reserva[s].realocada => reserva'[s].realocada
               /\ reserva'[s].unidade = reserva[s].unidade \/ reserva'[s].realocada
               /\ <<"reserva", s, "exclusiva">> \in r.travas =>
                     EventosDaReserva(s)' \subseteq EventosDaReserva(s),
           \A x \in Eventos :
               <<"evento", x, "exclusiva">> \in r.travas /\ Agendado(evento[x]) =>
                   /\ evento'[x] = evento[x]
                   /\ evento[x].reserva # Nenhum =>
                         reserva'[evento[x].reserva].unidade = reserva[evento[x].reserva].unidade,
           r.etapa = "gravar" /\ r.evento \notin Automaticos =>
               \A y \in UnitConflicts(r.evento, r.alvo, r.ocupa)' :
                   \/ Realocada(evento[y].reserva)'
                   \/ /\ y \in UnitConflicts(r.evento, r.alvo, r.ocupa)
                      /\ evento'[y].reserva = evento[y].reserva
    PROVE  Sabe(r)'
<1>1. SabeHora(r)'
    BY DEF Sabe, SabeHora, IInv, TypeOK, Pedido
<1>2. SabeReserva(r)'
    BY DEF Sabe, SabeReserva, TravarEventos
<1>3. SabeEvento(r)'
    BY DEF Sabe, SabeEvento
<1>4. SabeVinculo(r)'
    <2> SUFFICES ASSUME r.etapa \in {"unidades", "gravar"}, r.alvo.reserva # Nenhum
                 PROVE  /\ r.alvo.unidade \in {Nenhum, reserva'[r.alvo.reserva].unidade}
                        /\ \/ /\ <<"reserva", r.alvo.reserva, "compartilhada">> \in r.travas
                              /\ reserva'[r.alvo.reserva].estado \in EstadosQueAceitamVinculo
                           \/ r.op = "editar" /\ r.alvo.reserva = evento'[r.evento].reserva
        BY DEF SabeVinculo
    <2>1. r.alvo.reserva \in Estadias
        BY DEF Pedido, Evento
    <2>2. CASE /\ <<"reserva", r.alvo.reserva, "compartilhada">> \in r.travas
               /\ reserva[r.alvo.reserva].estado \in EstadosQueAceitamVinculo
        BY <2>1, <2>2 DEF Sabe, SabeVinculo
    <2>3. CASE r.op = "editar" /\ r.alvo.reserva = evento[r.evento].reserva
        BY <2>1, <2>3 DEF Sabe, SabeVinculo, SabeEvento
    <2> QED
        BY <2>2, <2>3 DEF Sabe, SabeVinculo
<1>5. SabeUnidades(r)'
    <2>1. r.alvo \in Evento
        BY DEF Pedido
    <2>2. /\ Realocada(r.alvo.reserva) => Realocada(r.alvo.reserva)'
          /\ \A y \in Eventos : Realocada(evento[y].reserva) /\ evento'[y].reserva = evento[y].reserva
                                    => Realocada(evento[y].reserva)'
        BY <2>1 DEF Realocada, IInv, TypeOK, Evento
    <2>3. Candidato(r.alvo)' = Candidato(r.alvo) \/ Realocada(r.alvo.reserva)'
        BY <2>1 DEF Candidato, UnidadesDaReserva, Realocada, Evento
    <2>4. ASSUME r.etapa = "gravar", r.evento \notin Automaticos,
                 NEW y \in UnitConflicts(r.evento, r.alvo, r.ocupa)'
          PROVE  Realocada(evento[y].reserva)'
        <3>1. y \in Eventos
            BY <2>4 DEF UnitConflicts, Eventos
        <3> QED
            BY <2>2, <2>4, <3>1 DEF Sabe, SabeUnidades
    <2>5. r.etapa = "gravar" /\ r.evento \notin Automaticos => TravarUnidades(r.ocupa) \subseteq r.travas
        BY DEF Sabe, SabeUnidades
    <2>6. r.etapa \in {"unidades", "gravar"} =>
             Candidato(r.alvo)' \subseteq r.ocupa \/ Realocada(r.alvo.reserva)'
        BY <2>2, <2>3 DEF Sabe, SabeUnidades
    <2> QED
        BY <2>4, <2>5, <2>6 DEF SabeUnidades, TravarUnidades
<1> QED
    BY <1>1, <1>2, <1>3, <1>4, <1>5 DEF Sabe

-----------------------------------------------------------------------------
(* Statements that read and lock.                                          *)

LEMMA TravasTipadas ==
    /\ \A r \in Estadias : EstadoDaReserva(r) \in SUBSET Travas /\ Trava("reserva", r) \in SUBSET Travas
    /\ \A x \in Eventos : Trava("evento", x) \in SUBSET Travas
    /\ \A us \in SUBSET Unidades : TravarUnidades(us) \in SUBSET Travas
    /\ \A op : Configuracao(op) \in SUBSET Travas
    /\ \A r : TravarEventos(r) \in SUBSET Travas
BY DEF EstadoDaReserva, Trava, TravarUnidades, Configuracao, TravarEventos, EventosDaReserva, Travas

LEMMA CandidatoTipado == ASSUME TypeOK, NEW e \in Evento PROVE Candidato(e) \in SUBSET Unidades
BY DEF TypeOK, Evento, Reserva, Candidato, UnidadesDaReserva

\* The next statement queues for the units the event would occupy.
LEMMA NasUnidades ==
    ASSUME TypeOK, NEW r \in Pedido
    PROVE  LET n == IrParaUnidades(r) IN
           /\ n \in Pedido /\ n.op = r.op /\ n.etapa = "unidades" /\ n.evento = r.evento
           /\ n.alvo = r.alvo /\ n.ocupa = Candidato(r.alvo) /\ n.dia = r.dia
           /\ n.travas = r.travas /\ n.reserva = r.reserva /\ n.unidade = r.unidade
<1> DEFINE us == Candidato(r.alvo)
<1>1. us \in SUBSET Unidades
    BY CandidatoTipado DEF Pedido
<1>2. IrParaUnidades(r) = [r EXCEPT !.etapa = "unidades", !.ocupa = us]
    BY DEF IrParaUnidades
<1> HIDE DEF us
<1> QED
    BY <1>1, <1>2 DEF Pedido, Etapas, us

LEMMA MantemCriar ==
    ASSUME IInv, NEW p \in Pedidos, Criar(p)
    PROVE  IInv'
<1>1. PICK s \in Estadias \cup {Nenhum}, u \in Unidades \cup {Nenhum}, d \in DiasMarcados :
          LET e == Marcar(EventoAusente, s, u, d)
          IN  /\ ConferirVinculos(e)
              /\ Seguir(p, IF s = Nenhum THEN {} ELSE EstadoDaReserva(s),
                     IrParaUnidades([Livre EXCEPT !.op = "criar", !.alvo = e]))
    BY DEF Criar
<1> DEFINE e == Marcar(EventoAusente, s, u, d)
           travas == IF s = Nenhum THEN {} ELSE EstadoDaReserva(s)
           r == [Livre EXCEPT !.op = "criar", !.alvo = e]
           n == IrParaUnidades(r)
           m == [n EXCEPT !.travas = n.travas \cup travas]
<1>2. ConferirVinculos(e) /\ Seguir(p, travas, n) /\ pedido[p] = Livre /\ SoPedido /\ TypeOK
    BY <1>1 DEF Criar, IInv
<1>3. travas \in SUBSET Travas
    BY TravasTipadas
<1>4. /\ e \in Evento /\ Agendado(e) /\ e.reserva = s /\ e.unidade = u
    <2>1. d \in Nat
        BY AgendaAssumption
    <2> QED
        BY <2>1, AusenteTipado DEF Evento, Agendado, Marcar
<1> HIDE DEF e
<1>5. /\ r \in Pedido /\ r.op = "criar" /\ r.alvo = e /\ r.evento = Nenhum /\ r.dia = 0
      /\ r.travas = {}
    BY <1>4, LivreTipado DEF Pedido, Ops, Livre
<1> HIDE DEF r
<1>6. /\ n \in Pedido /\ n.op = "criar" /\ n.etapa = "unidades" /\ n.evento = Nenhum
      /\ n.alvo = e /\ n.ocupa = Candidato(e) /\ n.dia = 0 /\ n.travas = pedido[p].travas
    BY <1>2, <1>5, NasUnidades, LivreTipado
<1> HIDE DEF n
<1>7. /\ m.op = "criar" /\ m.etapa = "unidades" /\ m.evento = Nenhum
      /\ m.alvo = e /\ m.ocupa = Candidato(e) /\ m.dia = 0 /\ travas \subseteq m.travas
    BY <1>6 DEF Pedido
<1> HIDE DEF m
<1>8. Sabe(m)
    <2>1. SabeHora(m) /\ SabeReserva(m) /\ SabeEvento(m) /\ SabeUnidades(m)
        BY <1>2, <1>4, <1>7 DEF SabeHora, SabeReserva, SabeEvento, SabeUnidades, DaReserva, TypeOK
    <2>2. SabeVinculo(m)
        BY <1>2, <1>4, <1>7 DEF SabeVinculo, ConferirVinculos, EstadoDaReserva
    <2> QED
        BY <2>1, <2>2 DEF Sabe
<1> HIDE DEF travas
<1> QED
    BY <1>2, <1>3, <1>6, <1>8, Seguiu DEF m

\* An edit keeps what is not its to change.
LEMMA EditavelTipado ==
    ASSUME IInv, NEW x \in Eventos, Agendado(evento[x]), NEW alvo \in Editavel(x)
    PROVE  /\ alvo \in Evento /\ Agendado(alvo) /\ alvo.semente = evento[x].semente
           /\ x \in Automaticos => /\ alvo.reserva = x[1] /\ alvo.reserva = evento[x].reserva
                                   /\ alvo.unidade = Nenhum /\ alvo.hora = Nenhum
<1> DEFINE e == evento[x]
<1>1. e \in Evento /\ Agendado(e)
    BY DEF IInv, TypeOK
<1>2. CASE x \in Manuais
    <2>1. PICK r \in Estadias \cup {Nenhum}, u \in Unidades \cup {Nenhum}, d \in DiasMarcados :
              alvo = Marcar(e, r, u, d)
        BY <1>2 DEF Editavel
    <2>2. d \in Nat
        BY AgendaAssumption
    <2> HIDE DEF e
    <2>3. alvo \in Evento /\ Agendado(alvo) /\ alvo.semente = e.semente
        BY <1>1, <2>1, <2>2 DEF Evento, Marcar, Agendado
    <2> QED
        BY <1>2, <2>3, AgendaAssumption DEF Automaticos, e
<1>3. CASE x \notin Manuais
    <2> DEFINE dias == IF x[2] = "limpeza"
                       THEN {n \in Dias : LET s == evento[<<x[1], "checkout">>]
                                          IN  s.estado = "cancelado" \/ n >= s.dia}
                       ELSE {e.dia}
    <2>1. \E d \in dias : alvo = Reagendar(e, d)
        BY <1>3 DEF Editavel
    <2>2. dias \subseteq Nat
        BY <1>1, AgendaAssumption DEF Dias, Evento
    <2> HIDE DEF dias
    <2>3. PICK d \in Nat : alvo = Reagendar(e, d)
        BY <2>1, <2>2
    <2>4. e.reserva = x[1] /\ e.unidade = Nenhum
        BY <1>1, <1>3 DEF IInv, AutomaticosSeus, Agendado, Eventos
    <2> HIDE DEF e
    <2>5. /\ alvo \in Evento /\ alvo.estado = e.estado /\ alvo.semente = e.semente
          /\ alvo.reserva = e.reserva /\ alvo.unidade = e.unidade /\ alvo.hora = Nenhum
        BY <1>1, <2>3 DEF Evento, Reagendar
    <2> QED
        BY <1>1, <2>4, <2>5 DEF Agendado, e
<1> QED
    BY <1>2, <1>3

LEMMA MantemEditar ==
    ASSUME IInv, NEW p \in Pedidos, NEW x \in Eventos, Editar(p, x)
    PROVE  IInv'
<1>1. PICK alvo \in Editavel(x) :
          LET novo == [Livre EXCEPT !.op = "editar", !.evento = x, !.alvo = alvo]
              religa == alvo.reserva \notin {Nenhum, evento[x].reserva}
          IN  /\ \/ religa
                 \/ alvo.reserva = Nenhum
                 \/ alvo.unidade \in {Nenhum, evento[x].unidade} \cup UnidadesDaReserva(alvo.reserva)
              /\ Seguir(p, Trava("evento", x),
                     IF religa THEN [novo EXCEPT !.etapa = "vinculo"] ELSE IrParaUnidades(novo))
    BY DEF Editar
<1> DEFINE novo == [Livre EXCEPT !.op = "editar", !.evento = x, !.alvo = alvo]
           religa == alvo.reserva \notin {Nenhum, evento[x].reserva}
<1>2. pedido[p] = Livre /\ Agendado(evento[x]) /\ SoPedido /\ TypeOK
    BY DEF Editar, IInv
<1>3. /\ alvo \in Evento /\ Agendado(alvo) /\ alvo.semente = evento[x].semente
      /\ x \in Automaticos => /\ alvo.reserva = x[1] /\ alvo.reserva = evento[x].reserva
                              /\ alvo.unidade = Nenhum /\ alvo.hora = Nenhum
    BY <1>2, EditavelTipado
<1>4. /\ novo \in Pedido /\ novo.op = "editar" /\ novo.evento = x /\ novo.alvo = alvo
      /\ novo.dia = 0 /\ novo.travas = {}
    BY <1>3, LivreTipado DEF Pedido, Ops
<1>5. Trava("evento", x) \in SUBSET Travas
    BY TravasTipadas
<1>6. CASE religa
    <2> DEFINE n == [novo EXCEPT !.etapa = "vinculo"]
               m == [n EXCEPT !.travas = n.travas \cup Trava("evento", x)]
    <2>1. Seguir(p, Trava("evento", x), n)
        BY <1>1, <1>6
    <2> HIDE DEF novo
    <2>2. /\ n \in Pedido /\ n.op = "editar" /\ n.evento = x /\ n.alvo = alvo /\ n.dia = 0
          /\ n.etapa = "vinculo" /\ n.travas = pedido[p].travas
        BY <1>2, <1>4, LivreTipado DEF Pedido, Etapas
    <2> HIDE DEF n
    <2>3. /\ m.op = "editar" /\ m.evento = x /\ m.alvo = alvo /\ m.dia = 0
          /\ m.etapa = "vinculo" /\ Trava("evento", x) \subseteq m.travas
        BY <2>2 DEF Pedido
    <2> HIDE DEF m
    <2>4. x \in Manuais /\ alvo.reserva # Nenhum
        BY <1>3, <1>6 DEF Eventos
    <2>5. SabeHora(m) /\ SabeReserva(m) /\ SabeVinculo(m) /\ SabeUnidades(m)
        BY <1>2, <2>3 DEF SabeHora, SabeReserva, SabeVinculo, SabeUnidades, DaReserva, TypeOK
    <2>6. SabeEvento(m)
        BY <1>2, <1>3, <2>3, <2>4 DEF SabeEvento, Trava
    <2> QED
        BY <1>2, <1>5, <2>1, <2>2, <2>5, <2>6, Seguiu DEF Sabe, m
<1>7. CASE ~religa
    <2> DEFINE n == IrParaUnidades(novo)
               m == [n EXCEPT !.travas = n.travas \cup Trava("evento", x)]
    <2>1. Seguir(p, Trava("evento", x), n)
        BY <1>1, <1>7
    <2>0. /\ alvo.reserva = Nenhum \/ alvo.reserva = evento[x].reserva
          /\ \/ alvo.reserva = Nenhum
             \/ alvo.unidade \in {Nenhum, evento[x].unidade} \cup UnidadesDaReserva(alvo.reserva)
        BY <1>1, <1>7
    <2> HIDE DEF novo
    <2>2. /\ n \in Pedido /\ n.op = "editar" /\ n.evento = x /\ n.alvo = alvo /\ n.dia = 0
          /\ n.etapa = "unidades" /\ n.ocupa = Candidato(alvo) /\ n.travas = pedido[p].travas
        BY <1>2, <1>4, NasUnidades, LivreTipado
    <2> HIDE DEF n
    <2>3. /\ m.op = "editar" /\ m.evento = x /\ m.alvo = alvo /\ m.dia = 0
          /\ m.etapa = "unidades" /\ m.ocupa = Candidato(alvo)
          /\ Trava("evento", x) \subseteq m.travas
        BY <2>2 DEF Pedido
    <2> HIDE DEF m
    <2>5. SabeHora(m) /\ SabeReserva(m) /\ SabeUnidades(m)
        BY <1>2, <2>3 DEF SabeHora, SabeReserva, SabeUnidades, DaReserva, TypeOK
    <2>6. SabeEvento(m)
        BY <1>2, <1>3, <2>3 DEF SabeEvento, Trava
    <2>7. SabeVinculo(m)
        <3>1. evento[x].reserva # Nenhum =>
                 evento[x].unidade \in {Nenhum, reserva[evento[x].reserva].unidade}
            BY <1>2 DEF IInv, EventoSegueReserva
        <3> QED
            BY <2>0, <2>3, <3>1 DEF SabeVinculo, UnidadesDaReserva
    <2> QED
        BY <1>2, <1>5, <2>1, <2>2, <2>5, <2>6, <2>7, Seguiu DEF Sabe, m
<1> QED
    BY <1>6, <1>7

\* After the wait the reservation the event is linked to is read again.
LEMMA MantemVincular ==
    ASSUME IInv, NEW p \in Pedidos, Vincular(p)
    PROVE  IInv'
<1>1. PICK r \in Pedido : r = pedido[p] /\ r.etapa = "vinculo" /\ Sabe(r)
    BY DEF Vincular, IInv, TypeOK, TodosSabem
<1> DEFINE travas == EstadoDaReserva(r.alvo.reserva)
<1>2. SoPedido /\ TypeOK
    BY DEF Vincular, IInv
<1>3. CASE ConferirVinculos(r.alvo)
    <2> DEFINE n == IrParaUnidades(r)
               m == [n EXCEPT !.travas = n.travas \cup travas]
    <2>1. Seguir(p, travas, n)
        BY <1>1, <1>3 DEF Vincular
    <2>2. /\ n \in Pedido /\ n.op = r.op /\ n.etapa = "unidades" /\ n.evento = r.evento
          /\ n.alvo = r.alvo /\ n.ocupa = Candidato(r.alvo) /\ n.dia = r.dia
          /\ n.travas = r.travas
        BY <1>2, NasUnidades
    <2> HIDE DEF n
    <2>3. /\ m.op = r.op /\ m.etapa = "unidades" /\ m.evento = r.evento /\ m.dia = r.dia
          /\ m.alvo = r.alvo /\ m.ocupa = Candidato(r.alvo)
          /\ m.travas = r.travas \cup travas
        BY <2>2 DEF Pedido
    <2> HIDE DEF m
    <2>4. r.alvo.reserva \in Estadias /\ r.alvo.reserva # Nenhum /\ r.op = "editar"
        BY <1>1 DEF Sabe, SabeEvento, Pedido, Evento
    <2>5. travas \in SUBSET Travas
        BY <2>4, TravasTipadas
    <2>6. SabeHora(m) /\ SabeReserva(m) /\ SabeUnidades(m)
        BY <1>1, <2>3, <2>4 DEF Sabe, SabeHora, SabeReserva, SabeUnidades, DaReserva
    <2>7. SabeEvento(m)
        BY <1>1, <2>3, <2>4 DEF Sabe, SabeEvento
    <2>8. SabeVinculo(m)
        BY <1>3, <2>3, <2>4 DEF SabeVinculo, ConferirVinculos, EstadoDaReserva
    <2> HIDE DEF travas
    <2> QED
        BY <1>1, <1>2, <2>1, <2>2, <2>5, <2>6, <2>7, <2>8, Seguiu DEF Sabe, m
<1>4. CASE ~ConferirVinculos(r.alvo)
    BY <1>1, <1>2, <1>4, Desistiu DEF Vincular
<1> QED
    BY <1>3, <1>4

\* In the queue of the units nobody else marks there.
LEMMA MantemConferirUnidade ==
    ASSUME IInv, NEW p \in Pedidos, ConferirUnidade(p)
    PROVE  IInv'
<1>1. PICK r \in Pedido : r = pedido[p] /\ r.etapa = "unidades" /\ Sabe(r)
    BY DEF ConferirUnidade, IInv, TypeOK, TodosSabem
<1> DEFINE travas == TravarUnidades(r.ocupa)
           n == [r EXCEPT !.etapa = "gravar"]
           m == [n EXCEPT !.travas = n.travas \cup travas]
<1>2. SoPedido
    BY DEF ConferirUnidade
<1>3. CASE r.evento \notin Automaticos /\ UnitConflicts(r.evento, r.alvo, r.ocupa) # {}
    BY <1>1, <1>2, <1>3, Desistiu DEF ConferirUnidade
<1>4. CASE ~(r.evento \notin Automaticos /\ UnitConflicts(r.evento, r.alvo, r.ocupa) # {})
    <2>1. Seguir(p, travas, n)
        BY <1>1, <1>4 DEF ConferirUnidade
    <2>2. /\ n \in Pedido /\ n.op = r.op /\ n.etapa = "gravar" /\ n.evento = r.evento
          /\ n.alvo = r.alvo /\ n.ocupa = r.ocupa /\ n.dia = r.dia /\ n.travas = r.travas
        BY DEF Pedido, Etapas
    <2> HIDE DEF n
    <2>3. /\ m.op = r.op /\ m.etapa = "gravar" /\ m.evento = r.evento /\ m.dia = r.dia
          /\ m.alvo = r.alvo /\ m.ocupa = r.ocupa /\ m.travas = r.travas \cup travas
        BY <2>2 DEF Pedido
    <2> HIDE DEF m
    <2>5. travas \in SUBSET Travas /\ r.op \in {"criar", "editar"}
        BY <1>1, TravasTipadas DEF Pedido, Sabe, SabeEvento
    <2>6. SabeHora(m) /\ SabeReserva(m)
        BY <1>1, <2>3, <2>5 DEF Sabe, SabeHora, SabeReserva, DaReserva
    <2>7. SabeEvento(m) /\ SabeVinculo(m)
        BY <1>1, <2>3, <2>5 DEF Sabe, SabeEvento, SabeVinculo
    <2>8. SabeUnidades(m)
        BY <1>1, <1>4, <2>3 DEF Sabe, SabeUnidades
    <2> HIDE DEF travas
    <2> QED
        BY <1>1, <1>2, <2>1, <2>2, <2>5, <2>6, <2>7, <2>8, Seguiu DEF Sabe, m
<1> QED
    BY <1>3, <1>4

LEMMA MantemTravarReserva ==
    ASSUME IInv, NEW p \in Pedidos, NEW dia \in DiaDoPedido, NEW s \in Estadias,
           NEW op \in DaReserva, TravarReserva(p, dia, s, op)
    PROVE  IInv'
<1>1. PICK u \in Unidades \cup {Nenhum} :
          /\ op = "realocar" => u \in Unidades
          /\ Seguir(p, Trava("reserva", s),
                [Livre EXCEPT !.op = op, !.etapa = "horario", !.dia = dia,
                              !.reserva = s, !.unidade = u])
    BY DEF TravarReserva
<1> DEFINE n == [Livre EXCEPT !.op = op, !.etapa = "horario", !.dia = dia,
                              !.reserva = s, !.unidade = u]
           m == [n EXCEPT !.travas = n.travas \cup Trava("reserva", s)]
<1>2. pedido[p] = Livre /\ SoPedido /\ Seguir(p, Trava("reserva", s), n)
    BY <1>1 DEF TravarReserva
<1>3. Trava("reserva", s) \in SUBSET Travas
    BY TravasTipadas
<1>4. dia \in Nat /\ dia <= hoje
    BY DEF DiaDoPedido, IInv, TypeOK
<1>5. /\ n \in Pedido /\ n.op = op /\ n.etapa = "horario" /\ n.dia = dia /\ n.reserva = s
      /\ n.unidade = u /\ n.travas = pedido[p].travas
    BY <1>2, <1>4, LivreTipado DEF Pedido, Ops, Etapas
<1> HIDE DEF n
<1>6. /\ m.op = op /\ m.etapa = "horario" /\ m.dia = dia /\ m.reserva = s /\ m.unidade = u
      /\ Trava("reserva", s) \subseteq m.travas
    BY <1>5 DEF Pedido
<1> HIDE DEF m
<1>7. Sabe(m)
    BY <1>1, <1>4, <1>6 DEF Sabe, SabeHora, SabeReserva, SabeEvento, SabeVinculo, SabeUnidades,
       DaReserva, Trava
<1> QED
    BY <1>2, <1>3, <1>5, <1>7, Seguiu DEF m

\* The hours are read under the lock that keeps them.
LEMMA MantemPreparar ==
    ASSUME IInv, NEW p \in Pedidos, Preparar(p)
    PROVE  IInv'
<1>1. PICK r \in Pedido : r = pedido[p] /\ r.etapa = "horario" /\ Sabe(r)
    BY DEF Preparar, IInv, TypeOK, TodosSabem
<1>2. PICK h \in Horarios : h = horario
    BY DEF IInv, TypeOK
<1> DEFINE travas == Configuracao(r.op)
           n == [r EXCEPT !.etapa = "eventos", !.hora = h]
           m == [n EXCEPT !.travas = n.travas \cup travas]
<1>3. SoPedido /\ Seguir(p, travas, n)
    BY <1>1, <1>2 DEF Preparar
<1>4. r.op \in DaReserva /\ travas \in SUBSET Travas
    BY <1>1, TravasTipadas DEF Sabe, SabeReserva
<1>5. <<"horario", Nenhum, "compartilhada">> \in travas
    BY <1>4 DEF Configuracao, DaReserva
<1>6. /\ n \in Pedido /\ n.op = r.op /\ n.etapa = "eventos" /\ n.hora = h /\ n.dia = r.dia
      /\ n.reserva = r.reserva /\ n.unidade = r.unidade /\ n.travas = r.travas
    BY DEF Pedido, Etapas
<1> HIDE DEF n
<1>7. /\ m.op = r.op /\ m.etapa = "eventos" /\ m.hora = h /\ m.dia = r.dia
      /\ m.reserva = r.reserva /\ m.unidade = r.unidade /\ m.travas = r.travas \cup travas
    BY <1>6 DEF Pedido
<1> HIDE DEF m, travas
<1>8. SabeHora(m) /\ SabeReserva(m)
    BY <1>1, <1>2, <1>4, <1>5, <1>7 DEF Sabe, SabeHora, SabeReserva
<1>9. SabeEvento(m) /\ SabeVinculo(m) /\ SabeUnidades(m)
    BY <1>4, <1>7 DEF SabeEvento, SabeVinculo, SabeUnidades, DaReserva
<1> QED
    BY <1>1, <1>3, <1>4, <1>6, <1>8, <1>9, Seguiu DEF Sabe, m

\* The reassignment locks every event of the reservation.
LEMMA MantemTravarEventosDaRealocacao ==
    ASSUME IInv, NEW p \in Pedidos, TravarEventosDaRealocacao(p)
    PROVE  IInv'
<1>1. PICK r \in Pedido : r = pedido[p] /\ r.etapa = "eventos" /\ r.op = "realocar" /\ Sabe(r)
    BY DEF TravarEventosDaRealocacao, IInv, TypeOK, TodosSabem
<1> DEFINE us == {r.unidade}
           travas == TravarEventos(r.reserva)
           n == [r EXCEPT !.etapa = "fila", !.ocupa = us]
           m == [n EXCEPT !.travas = n.travas \cup travas]
<1>2. SoPedido /\ Seguir(p, travas, n)
    BY <1>1 DEF TravarEventosDaRealocacao
<1>3. us \in SUBSET Unidades /\ travas \in SUBSET Travas
    BY <1>1, TravasTipadas DEF Sabe, SabeReserva
<1> HIDE DEF us
<1>4. /\ n \in Pedido /\ n.op = r.op /\ n.etapa = "fila" /\ n.hora = r.hora /\ n.dia = r.dia
      /\ n.reserva = r.reserva /\ n.unidade = r.unidade /\ n.travas = r.travas
    BY <1>3 DEF Pedido, Etapas
<1> HIDE DEF n
<1>5. /\ m.op = r.op /\ m.etapa = "fila" /\ m.hora = r.hora /\ m.dia = r.dia
      /\ m.reserva = r.reserva /\ m.unidade = r.unidade /\ m.travas = r.travas \cup travas
    BY <1>4 DEF Pedido
<1> HIDE DEF m
<1>6. SabeHora(m) /\ SabeReserva(m)
    BY <1>1, <1>5 DEF Sabe, SabeHora, SabeReserva
<1>7. SabeEvento(m) /\ SabeVinculo(m) /\ SabeUnidades(m)
    BY <1>1, <1>5 DEF SabeEvento, SabeVinculo, SabeUnidades, DaReserva
<1> HIDE DEF travas
<1> QED
    BY <1>1, <1>2, <1>3, <1>4, <1>6, <1>7, Seguiu DEF Sabe, m

LEMMA MantemTravarConfiguracao ==
    ASSUME IInv, NEW p \in Pedidos, NEW dia \in DiaDoPedido, NEW h \in Horarios,
           TravarConfiguracao(p, dia, h)
    PROVE  IInv'
<1> DEFINE n == [Livre EXCEPT !.op = "configurar", !.etapa = "automaticos", !.dia = dia, !.hora = h]
           m == [n EXCEPT !.travas = n.travas \cup Configuracao("configurar")]
<1>1. pedido[p] = Livre /\ SoPedido /\ Seguir(p, Configuracao("configurar"), n)
    BY DEF TravarConfiguracao
<1>2. dia \in Nat /\ dia <= hoje /\ Configuracao("configurar") \in SUBSET Travas
    BY TravasTipadas DEF DiaDoPedido, IInv, TypeOK
<1>3. /\ n \in Pedido /\ n.op = "configurar" /\ n.etapa = "automaticos" /\ n.dia = dia
      /\ n.hora = h /\ n.travas = pedido[p].travas
    BY <1>1, <1>2, LivreTipado DEF Pedido, Ops, Etapas
<1> HIDE DEF n
<1>4. /\ m.op = "configurar" /\ m.etapa = "automaticos" /\ m.dia = dia /\ m.hora = h
      /\ <<"horario", Nenhum, "exclusiva">> \in m.travas
    BY <1>3 DEF Pedido, Configuracao
<1> HIDE DEF m
<1>5. Sabe(m)
    BY <1>2, <1>4 DEF Sabe, SabeHora, SabeReserva, SabeEvento, SabeVinculo, SabeUnidades, DaReserva
<1> QED
    BY <1>1, <1>2, <1>3, <1>5, Seguiu DEF m

LEMMA MantemReservasParaPreencher ==
    ASSUME IInv, NEW p \in Pedidos, NEW dia \in DiaDoPedido, ReservasParaPreencher(p, dia)
    PROVE  IInv'
<1>1. PICK h \in Horarios : h = horario
    BY DEF IInv, TypeOK
<1> DEFINE lista == {<<s, reserva[s].estado>> :
                       s \in {t \in Estadias : /\ reserva[t].estado \in {"confirmed", "checked_in"}
                                              /\ Periodo[t].ate >= dia}}
           travas == Configuracao("preencher")
           n == [Livre EXCEPT !.op = "preencher", !.etapa = "semear", !.dia = dia, !.hora = h,
                              !.lista = lista]
           m == [n EXCEPT !.travas = n.travas \cup travas]
<1>2. pedido[p] = Livre /\ SoPedido /\ Seguir(p, travas, n)
    BY <1>1 DEF ReservasParaPreencher
<1>3. /\ dia \in Nat /\ dia <= hoje /\ travas \in SUBSET Travas
      /\ lista \in SUBSET (Estadias \X Estados)
    BY TravasTipadas DEF DiaDoPedido, IInv, TypeOK, Reserva
<1> HIDE DEF lista
<1>4. /\ n \in Pedido /\ n.op = "preencher" /\ n.etapa = "semear" /\ n.dia = dia
      /\ n.hora = h /\ n.travas = pedido[p].travas
    BY <1>2, <1>3, LivreTipado DEF Pedido, Ops, Etapas
<1> HIDE DEF n
<1>5. /\ m.op = "preencher" /\ m.etapa = "semear" /\ m.dia = dia /\ m.hora = h
      /\ <<"horario", Nenhum, "compartilhada">> \in m.travas
    BY <1>4 DEF Pedido, Configuracao
<1> HIDE DEF m
<1>6. Sabe(m)
    BY <1>1, <1>3, <1>5 DEF Sabe, SabeHora, SabeReserva, SabeEvento, SabeVinculo, SabeUnidades,
       DaReserva
<1> QED
    BY <1>2, <1>3, <1>4, <1>6, Seguiu DEF m

LEMMA MantemCair ==
    ASSUME IInv, NEW p \in Pedidos, Cair(p)
    PROVE  IInv'
BY Desistiu DEF Cair

-----------------------------------------------------------------------------
(* What a transaction that commits leaves of the others.                   *)

\* What p was granted exclusively nobody else has, and what it was granted shared
\* nobody else has exclusively.
LEMMA SoMinha ==
    ASSUME IInv, NEW p \in Pedidos, NEW q \in Pedidos, p # q, NEW travas,
           Concedidas(p, travas), NEW t, NEW x
    PROVE  /\ <<t, x, "exclusiva">> \in pedido[p].travas \cup travas =>
                 /\ <<t, x, "exclusiva">> \notin pedido[q].travas
                 /\ <<t, x, "compartilhada">> \notin pedido[q].travas
           /\ <<t, x, "compartilhada">> \in pedido[p].travas \cup travas =>
                 <<t, x, "exclusiva">> \notin pedido[q].travas
<1>1. Concedidas(p, pedido[p].travas \cup travas)
    BY TravasDe
<1> QED
    BY <1>1 DEF Concedidas, Choca

LEMMA Terminou ==
    ASSUME IInv, TypeOK', NEW p \in Pedidos, pedido' = [pedido EXCEPT ![p] = Livre],
           \A r \in Pedido : (\E q \in Pedidos \ {p} : r = pedido[q]) => Sabe(r)'
    PROVE  Exclusao' /\ TodosSabem'
<1>1. Exclusao'
    <2>1. Concedidas(p, Livre.travas)
        BY LivreTipado DEF Concedidas
    <2> QED
        BY <2>1, LivreTipado, SempreExclusao
<1>2. TodosSabem'
    <2> SUFFICES ASSUME NEW q \in Pedidos PROVE Sabe(pedido[q])'
        BY DEF TodosSabem
    <2>1. CASE q = p
        <3>1. pedido'[q] = Livre
            BY <2>1 DEF IInv, TypeOK
        <3> QED
            BY <3>1, LivreTipado DEF Sabe, SabeHora, SabeReserva, SabeEvento, SabeVinculo,
               SabeUnidades, DaReserva, TypeOK
    <2>2. CASE q # p
        <3>1. PICK r \in Pedido : r = pedido[q] /\ r = pedido'[q]
            BY <2>2 DEF IInv, TypeOK
        <3>2. Sabe(r)'
            BY <2>2, <3>1
        <3> QED
            BY <3>1, <3>2
    <2> QED
        BY <2>1, <2>2
<1> QED
    BY <1>1, <1>2

\* Events that were closed, or moved with the hours, by who had them.
LEMMA RestouParaOsOutros ==
    ASSUME IInv, TypeOK', NEW p \in Pedidos, pedido' = [pedido EXCEPT ![p] = Livre],
           hoje' = hoje,
           \A x \in Eventos : Restou(x, evento[x], evento'[x], horario'),
           \A s \in Estadias : /\ reserva'[s].unidade = reserva[s].unidade
                               /\ reserva'[s].realocada = reserva[s].realocada,
           \A q \in Pedidos \ {p} :
               /\ <<"horario", Nenhum, "compartilhada">> \in pedido[q].travas => horario' = horario
               /\ \A s \in Estadias : <<"reserva", s, "compartilhada">> \in pedido[q].travas =>
                     reserva'[s] = reserva[s]
               /\ \A x \in Eventos : <<"evento", x, "exclusiva">> \in pedido[q].travas =>
                     evento'[x] = evento[x]
    PROVE  Exclusao' /\ TodosSabem' /\ AutomaticosSeus' /\ MarcacoesNaoSeCruzam'
<1>1. \A x \in Eventos : evento[x] \in Evento /\ evento'[x] \in Evento
    BY DEF IInv, TypeOK
<1>2. \A y \in Manuais : y \in Eventos
    BY DEF Eventos
<1>3. ASSUME NEW y \in Manuais, Agendado(evento'[y])
      PROVE  /\ Agendado(evento[y]) /\ evento'[y].dia = evento[y].dia
             /\ evento'[y].reserva = evento[y].reserva /\ evento'[y].unidade = evento[y].unidade
             /\ Candidato(evento[y])' = Candidato(evento[y])
    <2>1. /\ Agendado(evento[y]) /\ evento'[y].dia = evento[y].dia
          /\ evento'[y].reserva = evento[y].reserva /\ evento'[y].unidade = evento[y].unidade
        BY <1>2, <1>3 DEF Restou
    <2>2. evento[y].reserva # Nenhum => evento[y].reserva \in Estadias
        BY <1>1, <1>2 DEF Evento
    <2> QED
        BY <2>1, <2>2 DEF Candidato, UnidadesDaReserva
<1>4. ASSUME NEW r \in Pedido, NEW q \in Pedidos \ {p}, r = pedido[q] PROVE Sabe(r)'
    <2>1. Sabe(r)
        BY <1>4 DEF IInv, TodosSabem
    <2>2. hoje <= hoje'
        BY DEF IInv, TypeOK
    <2>3. \A s \in Estadias : EventosDaReserva(s)' \subseteq EventosDaReserva(s)
        BY AgendaAssumption DEF EventosDaReserva, Restou
    <2>4. r.etapa = "gravar" /\ r.evento \notin Automaticos =>
             \A y \in UnitConflicts(r.evento, r.alvo, r.ocupa)' :
                /\ y \in UnitConflicts(r.evento, r.alvo, r.ocupa)
                /\ evento'[y].reserva = evento[y].reserva
        BY <1>3 DEF UnitConflicts
    <2>5. \A x \in Eventos : evento[x].reserva # Nenhum => evento[x].reserva \in Estadias
        BY <1>1 DEF Evento
    <2> QED
        BY <1>4, <2>1, <2>2, <2>3, <2>4, <2>5, OutroSabe
<1>5. Exclusao' /\ TodosSabem'
    BY <1>4, Terminou
<1>6. AutomaticosSeus'
    BY DEF IInv, AutomaticosSeus, Restou, Eventos
<1>7. MarcacoesNaoSeCruzam'
    <2> SUFFICES ASSUME NEW x \in Manuais, NEW y \in Manuais, x # y,
                        Agendado(evento'[x]), Agendado(evento'[y]), evento'[x].dia = evento'[y].dia,
                        Candidato(evento[x])' \cap Candidato(evento[y])' # {}
                 PROVE  \E r \in {evento'[x].reserva, evento'[y].reserva} \ {Nenhum} :
                            reserva'[r].realocada
        BY DEF MarcacoesNaoSeCruzam, Agendado
    <2>1. PICK r \in {evento[x].reserva, evento[y].reserva} \ {Nenhum} : reserva[r].realocada
        BY <1>3 DEF IInv, MarcacoesNaoSeCruzam
    <2>2. r \in Estadias
        BY <1>1, <1>2, <2>1 DEF Evento
    <2> QED
        BY <1>3, <2>1, <2>2
<1> QED
    BY <1>5, <1>6, <1>7

\* Of a reservation cancelled in this step, only what stays after a guest.
LEMMA RestouSegue ==
    ASSUME IInv, TypeOK', \A x \in Eventos : Restou(x, evento[x], evento'[x], horario'),
           \A s \in Estadias : /\ reserva'[s].unidade = reserva[s].unidade
                               /\ reserva[s].entrou => reserva'[s].entrou,
           \A x \in Eventos : LET s == evento[x].reserva IN
               Agendado(evento'[x]) /\ s # Nenhum /\ reserva'[s].estado = "cancelled" =>
                   \/ reserva[s].estado = "cancelled"
                   \/ reserva'[s].entrou /\ (x \in Manuais \/ x = <<s, "limpeza">>)
    PROVE  EventoSegueReserva'
<1> SUFFICES ASSUME NEW x \in Eventos, Agendado(evento'[x]), evento'[x].reserva # Nenhum
             PROVE  /\ evento'[x].unidade \in {Nenhum, reserva'[evento'[x].reserva].unidade}
                    /\ reserva'[evento'[x].reserva].estado = "cancelled" =>
                         \/ evento'[x].semente
                         \/ /\ reserva'[evento'[x].reserva].entrou
                            /\ x \in Manuais \/ x = <<evento'[x].reserva, "limpeza">>
    BY DEF EventoSegueReserva, Agendado
<1>1. PICK s \in Estadias : s = evento[x].reserva /\ s = evento'[x].reserva
    BY DEF Restou, IInv, TypeOK, Evento
<1>2. /\ Agendado(evento[x]) /\ evento'[x].semente = evento[x].semente
      /\ evento'[x].unidade = evento[x].unidade
    BY DEF Restou
<1>3. /\ evento[x].unidade \in {Nenhum, reserva[s].unidade}
      /\ reserva[s].estado = "cancelled" =>
            \/ evento[x].semente
            \/ reserva[s].entrou /\ (x \in Manuais \/ x = <<s, "limpeza">>)
    BY <1>1, <1>2, AgendaAssumption DEF IInv, EventoSegueReserva
<1> QED
    BY <1>1, <1>2, <1>3

LEMMA RestouNoHorario ==
    ASSUME IInv, \A x \in Eventos : Restou(x, evento[x], evento'[x], horario'),
           hoje' = hoje, horario' = horario
    PROVE  AutomaticoNoHorario'
BY DEF IInv, AutomaticoNoHorario, Restou, Agendado, Eventos

LEMMA MantemTransitar ==
    ASSUME IInv, NEW p \in Pedidos, NEW dia, NEW x \in Eventos,
           NEW acao \in {"concluir", "desmarcar"}, Transitar(p, dia, x, acao)
    PROVE  IInv'
<1> DEFINE f == Fechar(x, evento[x], IF acao = "concluir" THEN "concluido" ELSE "cancelado")
<1>1. /\ pedido' = [pedido EXCEPT ![p] = Livre] /\ Concedidas(p, Trava("evento", x))
      /\ evento' = [evento EXCEPT ![x] = f]
      /\ UNCHANGED <<hoje, horario, reserva>> /\ Agendado(evento[x])
    BY DEF Transitar, Terminar, Accepts
<1>2. Restou(x, evento[x], f, horario)
    BY <1>1, RestouFechado DEF IInv, TypeOK
<1> HIDE DEF f
<1>3. \A y \in Eventos : Restou(y, evento[y], evento'[y], horario')
    BY <1>1, <1>2, RestouTudo DEF IInv, TypeOK
<1>4. TypeOK'
    BY <1>1, <1>2, LivreTipado DEF IInv, TypeOK, Restou
<1>5. \A q \in Pedidos \ {p} : \A y \in Eventos :
         <<"evento", y, "exclusiva">> \in pedido[q].travas => evento'[y] = evento[y]
    <2>1. \A q \in Pedidos \ {p} : <<"evento", x, "exclusiva">> \notin pedido[q].travas
        BY <1>1, SoMinha DEF Trava
    <2> QED
        BY <1>1, <2>1 DEF IInv, TypeOK
<1>6. Exclusao' /\ TodosSabem' /\ AutomaticosSeus' /\ MarcacoesNaoSeCruzam'
    BY <1>1, <1>3, <1>4, <1>5, RestouParaOsOutros
<1>7. EventoSegueReserva' /\ AutomaticoNoHorario'
    BY <1>1, <1>3, <1>4, RestouSegue, RestouNoHorario
<1>8. QuemEstaEntrou'
    BY <1>1 DEF IInv, QuemEstaEntrou
<1> QED
    BY <1>4, <1>6, <1>7, <1>8 DEF IInv

\* Who changes the hours takes along every event that was at the old ones.
LEMMA MantemGravarConfiguracao ==
    ASSUME IInv, NEW p \in Pedidos, GravarConfiguracao(p)
    PROVE  IInv'
<1>1. PICK r \in Pedido : r = pedido[p] /\ r.etapa = "automaticos" /\ Sabe(r)
    BY DEF GravarConfiguracao, IInv, TypeOK, TodosSabem
<1> DEFINE xs == AutomaticosAgendadosDesde(r.dia)
           travas == {<<"evento", x, "exclusiva">> : x \in xs}
<1>2. /\ Concedidas(p, travas) /\ pedido' = [pedido EXCEPT ![p] = Livre] /\ horario' = r.hora
      /\ evento' = [x \in Eventos |-> IF x \in xs
                           THEN Retime(x, evento[x], horario, r.hora, r.dia) ELSE evento[x]]
      /\ UNCHANGED <<hoje, reserva>>
    BY <1>1 DEF GravarConfiguracao, Terminar
<1>3. r.hora \in Horarios /\ <<"horario", Nenhum, "exclusiva">> \in pedido[p].travas /\ r.dia <= hoje
    BY <1>1 DEF Sabe, SabeHora
<1>4. \A x \in Eventos : evento[x] \in Evento
    BY DEF IInv, TypeOK
<1>5. \A x \in Eventos : x \notin xs => evento'[x] = evento[x]
    BY <1>2
<1>6. ASSUME NEW x \in Eventos PROVE Restou(x, evento[x], evento'[x], horario')
    BY <1>2, <1>3, <1>4, RestouTudo, RestouDoHorario
<1>7. TypeOK'
    BY <1>2, <1>3, <1>6, LivreTipado DEF IInv, TypeOK, Restou
<1>8. \A q \in Pedidos \ {p} :
         /\ <<"horario", Nenhum, "compartilhada">> \notin pedido[q].travas
         /\ \A y \in Eventos : <<"evento", y, "exclusiva">> \in pedido[q].travas =>
               evento'[y] = evento[y]
    <2>1. \A q \in Pedidos \ {p} : \A y \in xs : <<"evento", y, "exclusiva">> \notin pedido[q].travas
        BY <1>2, SoMinha
    <2>2. \A q \in Pedidos \ {p} : <<"horario", Nenhum, "compartilhada">> \notin pedido[q].travas
        BY <1>2, <1>3, SoMinha
    <2> HIDE DEF xs
    <2> QED
        BY <1>5, <2>1, <2>2
<1>9. Exclusao' /\ TodosSabem' /\ AutomaticosSeus' /\ MarcacoesNaoSeCruzam'
    BY <1>2, <1>6, <1>7, <1>8, RestouParaOsOutros
<1>10. EventoSegueReserva'
    BY <1>2, <1>6, <1>7, RestouSegue
<1>11. AutomaticoNoHorario'
    <2> SUFFICES ASSUME NEW x \in Automaticos, Agendado(evento'[x]), evento'[x].dia >= hoje
                 PROVE  evento'[x].hora \in {Nenhum, horario'}
        BY <1>2 DEF AutomaticoNoHorario, Agendado
    <2>1. x \in Eventos
        BY DEF Eventos
    <2>2. evento'[x].hora = horario' \/ (evento'[x].hora = evento[x].hora /\ evento'[x].dia = evento[x].dia)
        BY <1>6, <2>1 DEF Restou
    <2>3. CASE evento'[x].hora = evento[x].hora /\ evento'[x].dia = evento[x].dia
        <3>1. Agendado(evento[x]) /\ evento[x].dia >= hoje /\ evento[x].dia >= r.dia
            BY <1>3, <1>4, <1>6, <2>1, <2>3 DEF Restou, Evento, Pedido, IInv, TypeOK
        <3>2. x \in xs /\ evento[x].hora \in {Nenhum, horario}
            BY <3>1 DEF AutomaticosAgendadosDesde, IInv, AutomaticoNoHorario
        <3>3. evento'[x] = Retime(x, evento[x], horario, r.hora, r.dia)
            BY <1>2, <2>1, <3>2
        <3>4. evento'[x].hora # horario \/ evento'[x].hora = r.hora \/ ~(evento'[x].dia >= r.dia)
            BY <1>3, <1>4, <2>1, <3>3, RestouDoHorario
        <3> QED
            BY <1>2, <2>3, <3>1, <3>2, <3>4
    <2> QED
        BY <2>2, <2>3
<1>12. QuemEstaEntrou'
    BY <1>2 DEF IInv, QuemEstaEntrou
<1> QED
    BY <1>7, <1>9, <1>10, <1>11, <1>12 DEF IInv

-----------------------------------------------------------------------------
(* A marking is written.                                                   *)

\* The marking written, as it was checked: of its reservation, in units it has.
LEMMA MarcacaoConferida ==
    ASSUME IInv, NEW r \in Pedido, Sabe(r), r.etapa = "gravar",
           NEW x \in Eventos, r.op = "editar" => x = r.evento,
           r.op # "editar" => x \in Manuais /\ evento[x].estado = "ausente"
    PROVE  /\ r.alvo \in Evento /\ Agendado(r.alvo)
           /\ x \in Automaticos => /\ r.alvo.reserva = x[1]
                                   /\ r.alvo.unidade = Nenhum /\ r.alvo.hora = Nenhum
           /\ x \in Manuais => r.evento \notin Automaticos
           /\ \A y \in Manuais : y # x => y # r.evento
           /\ Agendado(evento[x]) => <<"evento", x, "exclusiva">> \in r.travas
           /\ r.alvo.reserva # Nenhum =>
                 /\ \/ <<"reserva", r.alvo.reserva, "compartilhada">> \in r.travas
                    \/ x \in EventosDaReserva(r.alvo.reserva)
                 /\ r.alvo.unidade \in {Nenhum, reserva[r.alvo.reserva].unidade}
                 /\ reserva[r.alvo.reserva].estado = "cancelled" =>
                      \/ r.alvo.semente
                      \/ /\ reserva[r.alvo.reserva].entrou
                         /\ x \in Manuais \/ x = <<r.alvo.reserva, "limpeza">>
<1>1. r.alvo \in Evento /\ Agendado(r.alvo) /\ r.op \in {"criar", "editar"}
    BY DEF Sabe, SabeEvento, Pedido
<1>2. CASE r.op = "editar"
    <2>1. /\ x = r.evento /\ <<"evento", x, "exclusiva">> \in r.travas
          /\ Agendado(evento[x]) /\ r.alvo.semente = evento[x].semente
          /\ x \in Automaticos => /\ r.alvo.reserva = x[1]
                                  /\ r.alvo.unidade = Nenhum /\ r.alvo.hora = Nenhum
        BY <1>2 DEF Sabe, SabeEvento
    <2>2. x \in Manuais => x \notin Automaticos
        BY AgendaAssumption DEF Automaticos
    <2>3. ASSUME r.alvo.reserva # Nenhum
          PROVE  /\ \/ <<"reserva", r.alvo.reserva, "compartilhada">> \in r.travas
                    \/ x \in EventosDaReserva(r.alvo.reserva)
                 /\ r.alvo.unidade \in {Nenhum, reserva[r.alvo.reserva].unidade}
                 /\ reserva[r.alvo.reserva].estado = "cancelled" =>
                      \/ r.alvo.semente
                      \/ /\ reserva[r.alvo.reserva].entrou
                         /\ x \in Manuais \/ x = <<r.alvo.reserva, "limpeza">>
        <3>1. r.alvo.unidade \in {Nenhum, reserva[r.alvo.reserva].unidade}
            BY <2>3 DEF Sabe, SabeVinculo
        <3>2. CASE /\ <<"reserva", r.alvo.reserva, "compartilhada">> \in r.travas
                   /\ reserva[r.alvo.reserva].estado \in EstadosQueAceitamVinculo
            BY <3>1, <3>2 DEF EstadosQueAceitamVinculo
        <3>3. CASE r.alvo.reserva = evento[x].reserva
            <4>1. x \in EventosDaReserva(r.alvo.reserva)
                BY <2>1, <3>3 DEF EventosDaReserva, Agendado
            <4>2. reserva[r.alvo.reserva].estado = "cancelled" =>
                      \/ r.alvo.semente
                      \/ /\ reserva[r.alvo.reserva].entrou
                         /\ x \in Manuais \/ x = <<r.alvo.reserva, "limpeza">>
                BY <2>1, <2>3, <3>3 DEF IInv, EventoSegueReserva
            <4> QED
                BY <3>1, <4>1, <4>2
        <3> QED
            BY <2>1, <2>3, <3>2, <3>3 DEF Sabe, SabeVinculo
    <2> QED
        BY <1>1, <2>1, <2>2, <2>3
<1>3. CASE r.op = "criar"
    <2>1. x \in Manuais /\ x \notin Automaticos /\ ~Agendado(evento[x])
        BY <1>3, AgendaAssumption DEF Automaticos, Agendado
    <2>2. r.evento = Nenhum
        BY <1>3 DEF Sabe, SabeEvento
    <2>3. Nenhum \notin Automaticos /\ Nenhum \notin Manuais
        BY AgendaAssumption DEF Automaticos
    <2>4. r.alvo.reserva # Nenhum =>
              /\ <<"reserva", r.alvo.reserva, "compartilhada">> \in r.travas
              /\ r.alvo.unidade \in {Nenhum, reserva[r.alvo.reserva].unidade}
              /\ reserva[r.alvo.reserva].estado # "cancelled"
        BY <1>3 DEF Sabe, SabeVinculo, EstadosQueAceitamVinculo
    <2> QED
        BY <1>1, <2>1, <2>2, <2>3, <2>4
<1> QED
    BY <1>1, <1>2, <1>3

LEMMA MantemGravar ==
    ASSUME IInv, NEW p \in Pedidos, Gravar(p)
    PROVE  IInv'
<1>1. PICK r \in Pedido : r = pedido[p] /\ r.etapa = "gravar" /\ Sabe(r)
    BY DEF Gravar, IInv, TypeOK, TodosSabem
<1>2. PICK x \in Eventos :
          /\ r.op = "editar" => x = r.evento
          /\ r.op # "editar" => x \in Manuais /\ evento[x].estado = "ausente"
          /\ evento' = evento \/ evento' = [evento EXCEPT ![x] = r.alvo]
    <2>1. PICK x \in IF r.op = "editar" THEN {r.evento}
                     ELSE {y \in Manuais : evento[y].estado = "ausente"} :
              evento' = evento \/ evento' = [evento EXCEPT ![x] = r.alvo]
        BY <1>1 DEF Gravar
    <2>2. r.op = "editar" => r.evento \in Eventos
        BY <1>1 DEF Sabe, SabeEvento
    <2> QED
        BY <2>1, <2>2 DEF Eventos
<1>3. /\ Terminar(p, {}) /\ pedido' = [pedido EXCEPT ![p] = Livre]
      /\ UNCHANGED <<hoje, horario, reserva>>
    BY DEF Gravar, Terminar
<1>4. CASE evento' = evento
    BY <1>3, <1>4, Desistiu DEF SoPedido
<1>5. CASE evento' = [evento EXCEPT ![x] = r.alvo]
    <2> DEFINE a == r.alvo
    <2>1. /\ a \in Evento /\ Agendado(a)
          /\ x \in Automaticos => a.reserva = x[1] /\ a.unidade = Nenhum /\ a.hora = Nenhum
          /\ x \in Manuais => r.evento \notin Automaticos
          /\ \A y \in Manuais : y # x => y # r.evento
          /\ Agendado(evento[x]) => <<"evento", x, "exclusiva">> \in r.travas
          /\ a.reserva # Nenhum =>
                /\ \/ <<"reserva", a.reserva, "compartilhada">> \in r.travas
                   \/ x \in EventosDaReserva(a.reserva)
                /\ a.unidade \in {Nenhum, reserva[a.reserva].unidade}
                /\ reserva[a.reserva].estado = "cancelled" =>
                      \/ a.semente
                      \/ reserva[a.reserva].entrou /\ (x \in Manuais \/ x = <<a.reserva, "limpeza">>)
        BY <1>1, <1>2, MarcacaoConferida
    <2>2. /\ evento'[x] = a /\ \A y \in Eventos \ {x} : evento'[y] = evento[y]
          /\ evento' \in [Eventos -> Evento]
        BY <1>5, <2>1 DEF IInv, TypeOK
    <2>3. TypeOK'
        BY <1>3, <2>2, LivreTipado DEF IInv, TypeOK
    <2>4. \A q \in Pedidos \ {p} : \A t, z :
             /\ <<t, z, "exclusiva">> \in r.travas => <<t, z, "exclusiva">> \notin pedido[q].travas
             /\ <<t, z, "compartilhada">> \in r.travas => <<t, z, "exclusiva">> \notin pedido[q].travas
        <3>1. Concedidas(p, {})
            BY DEF Concedidas
        <3> QED
            BY <1>1, <3>1, SoMinha
    <2>5. \A e \in Evento : Candidato(e)' = Candidato(e)
        BY <1>3 DEF Candidato, UnidadesDaReserva
    <2>6. x \in Manuais =>
             /\ Candidato(a) \subseteq r.ocupa \/ Realocada(a.reserva)
             /\ TravarUnidades(r.ocupa) \subseteq r.travas
             /\ \A y \in UnitConflicts(r.evento, a, r.ocupa) : Realocada(evento[y].reserva)
        BY <1>1, <2>1 DEF Sabe, SabeUnidades
    <2>7. \A y \in Manuais : y \in Eventos /\ evento[y] \in Evento
        BY DEF Eventos, IInv, TypeOK
    <2> HIDE DEF a
    <2>8. ASSUME NEW s \in Pedido, NEW q \in Pedidos \ {p}, s = pedido[q] PROVE Sabe(s)'
        <3>1. Sabe(s) /\ hoje <= hoje'
            BY <1>3, <2>8 DEF IInv, TodosSabem, TypeOK
        <3>2. ASSUME NEW e \in Estadias, <<"reserva", e, "exclusiva">> \in s.travas
              PROVE  EventosDaReserva(e)' \subseteq EventosDaReserva(e)
            <4>1. a.reserva = e => x \in EventosDaReserva(e)
                BY <2>1, <2>4, <2>8, <3>2, AgendaAssumption
            <4> QED
                BY <2>2, <4>1 DEF EventosDaReserva
        <3>3. ASSUME NEW y \in Eventos, <<"evento", y, "exclusiva">> \in s.travas, Agendado(evento[y])
              PROVE  evento'[y] = evento[y]
            BY <2>1, <2>2, <2>4, <2>8, <3>3
        <3>4. ASSUME s.etapa = "gravar", s.evento \notin Automaticos,
                     NEW y \in UnitConflicts(s.evento, s.alvo, s.ocupa)'
              PROVE  \/ Realocada(evento[y].reserva)'
                     \/ /\ y \in UnitConflicts(s.evento, s.alvo, s.ocupa)
                        /\ evento'[y].reserva = evento[y].reserva
            <4>1. CASE y # x
                <5>1. y \in Manuais /\ evento'[y] = evento[y]
                    BY <2>2, <2>7, <4>1 DEF UnitConflicts
                <5> QED
                    BY <2>5, <2>7, <5>1 DEF UnitConflicts
            <4>2. CASE y = x
                <5>1. x \in Manuais /\ Candidato(a) \cap s.ocupa # {}
                    BY <2>1, <2>2, <2>5, <4>2 DEF UnitConflicts
                <5>2. TravarUnidades(s.ocupa) \subseteq s.travas
                    BY <3>1, <3>4 DEF Sabe, SabeUnidades
                <5>3. r.ocupa \cap s.ocupa = {}
                    BY <2>4, <2>6, <2>8, <5>1, <5>2 DEF TravarUnidades
                <5>4. Realocada(a.reserva)
                    BY <2>6, <5>1, <5>3
                <5> QED
                    BY <1>3, <2>2, <4>2, <5>4 DEF Realocada
            <4> QED
                BY <4>1, <4>2
        <3> QED
            BY <1>3, <2>3, <3>1, <3>2, <3>3, <3>4, OutroSabe
    <2>9. Exclusao' /\ TodosSabem'
        BY <1>3, <2>3, <2>8, Terminou
    <2>10. AutomaticosSeus' /\ QuemEstaEntrou'
        BY <1>3, <2>1, <2>2 DEF IInv, AutomaticosSeus, QuemEstaEntrou, Eventos
    <2>11. EventoSegueReserva'
        <3> SUFFICES ASSUME NEW y \in Eventos, Agendado(evento'[y]), evento'[y].reserva # Nenhum
                     PROVE  /\ evento'[y].unidade \in {Nenhum, reserva[evento'[y].reserva].unidade}
                            /\ reserva[evento'[y].reserva].estado = "cancelled" =>
                                 \/ evento'[y].semente
                                 \/ /\ reserva[evento'[y].reserva].entrou
                                    /\ y \in Manuais \/ y = <<evento'[y].reserva, "limpeza">>
            BY <1>3 DEF EventoSegueReserva, Agendado
        <3>1. CASE y = x
            BY <2>1, <2>2, <3>1
        <3>2. CASE y # x
            BY <2>2, <3>2 DEF IInv, EventoSegueReserva
        <3> QED
            BY <3>1, <3>2
    <2>12. AutomaticoNoHorario'
        BY <1>3, <2>1, <2>2 DEF IInv, AutomaticoNoHorario, Agendado, Eventos
    <2>13. MarcacoesNaoSeCruzam'
        <3>1. ASSUME NEW y \in Manuais, x \in Manuais, y # x, Agendado(evento[y]),
                     evento[y].dia = a.dia, Candidato(a) \cap Candidato(evento[y]) # {}
              PROVE  Realocada(a.reserva) \/ Realocada(evento[y].reserva)
            BY <2>1, <2>6, <3>1 DEF UnitConflicts
        <3> SUFFICES ASSUME NEW y \in Manuais, NEW z \in Manuais, y # z,
                            Agendado(evento'[y]), Agendado(evento'[z]), evento'[y].dia = evento'[z].dia,
                            Candidato(evento[y])' \cap Candidato(evento[z])' # {}
                     PROVE  \E s \in {evento'[y].reserva, evento'[z].reserva} \ {Nenhum} :
                                reserva'[s].realocada
            BY DEF MarcacoesNaoSeCruzam, Agendado
        <3>2. /\ Candidato(evento[y])' = Candidato(evento'[y])
              /\ Candidato(evento[z])' = Candidato(evento'[z])
            BY <1>3 DEF Candidato, UnidadesDaReserva
        <3>3. CASE y # x /\ z # x
            BY <1>3, <2>2, <2>7, <3>2, <3>3 DEF IInv, MarcacoesNaoSeCruzam
        <3>4. CASE y = x
            <4>1. evento'[y] = a /\ evento'[z] = evento[z]
                BY <2>2, <2>7, <3>4
            <4>2. Realocada(a.reserva) \/ Realocada(evento[z].reserva)
                BY <3>1, <3>2, <3>4, <4>1
            <4> QED
                BY <1>3, <4>1, <4>2 DEF Realocada
        <3>5. CASE z = x
            <4>1. evento'[z] = a /\ evento'[y] = evento[y]
                BY <2>2, <2>7, <3>5
            <4>2. Realocada(a.reserva) \/ Realocada(evento[y].reserva)
                BY <3>1, <3>2, <3>5, <4>1
            <4> QED
                BY <1>3, <4>1, <4>2 DEF Realocada
        <3> QED
            BY <3>3, <3>4, <3>5
    <2> QED
        BY <2>3, <2>9, <2>10, <2>11, <2>12, <2>13 DEF IInv
<1> QED
    BY <1>2, <1>4, <1>5

-----------------------------------------------------------------------------
(* The steps of a reservation.                                             *)

\* A request in course, with what it knows.
LEMMA Decidindo ==
    ASSUME IInv, NEW p \in Pedidos, Passo(p)
    PROVE  \E r \in Pedido :
              /\ r = pedido[p] /\ Sabe(r) /\ r.reserva \in Estadias
              /\ <<"reserva", r.reserva, "exclusiva">> \in r.travas
              /\ r.etapa \in {"eventos", "fila"} /\ r.hora = horario /\ r.hora \in Horarios
              /\ r.dia \in Nat /\ pedido' = [pedido EXCEPT ![p] = Livre]
              /\ r.op \in {"entrada", "saida", "cancelar"} => Concedidas(p, TravarEventos(r.reserva))
<1>1. PICK r \in Pedido : r = pedido[p] /\ Sabe(r)
    BY DEF IInv, TypeOK, TodosSabem
<1>2. r.etapa \in {"eventos", "fila"} /\ pedido' = [pedido EXCEPT ![p] = Livre]
    BY <1>1 DEF Passo, Terminar
<1>3. r.op \in DaReserva /\ r.hora = horario
    BY <1>1, <1>2 DEF Sabe, SabeReserva, SabeHora
<1>4. r.reserva \in Estadias /\ <<"reserva", r.reserva, "exclusiva">> \in r.travas
    BY <1>1, <1>3 DEF Sabe, SabeReserva
<1>5. r.op \in {"entrada", "saida", "cancelar"} => Concedidas(p, TravarEventos(r.reserva))
    BY <1>1 DEF Passo, Terminar, Sabe, SabeReserva
<1> QED
    BY <1>1, <1>2, <1>3, <1>4, <1>5 DEF Pedido, IInv, TypeOK

\* A step that decides on every event of the reservation: of a cancelled one only
\* what stays after a guest.
LEMMA Decidiu ==
    ASSUME IInv, NEW p \in Pedidos, NEW s \in Estadias,
           <<"reserva", s, "exclusiva">> \in pedido[p].travas, Concedidas(p, TravarEventos(s)),
           pedido' = [pedido EXCEPT ![p] = Livre], UNCHANGED <<hoje, horario>>,
           reserva' \in [Estadias -> Reserva],
           \A t \in Estadias \ {s} : reserva'[t] = reserva[t],
           reserva'[s].unidade = reserva[s].unidade, reserva'[s].realocada = reserva[s].realocada,
           reserva[s].entrou => reserva'[s].entrou,
           reserva'[s].estado = "checked_in" => reserva'[s].entrou,
           NEW d,
           evento' = [x \in Eventos |-> IF x \in EventosDaReserva(s) THEN d[x] ELSE evento[x]],
           \A x \in EventosDaReserva(s) :
               /\ Restou(x, evento[x], d[x], horario)
               /\ Agendado(d[x]) /\ reserva'[s].estado = "cancelled" =>
                     reserva'[s].entrou /\ (x \in Manuais \/ x = <<s, "limpeza">>)
    PROVE  IInv'
<1>1. \A x \in Eventos :
         /\ x \in EventosDaReserva(s) => evento'[x] = d[x]
         /\ x \notin EventosDaReserva(s) => evento'[x] = evento[x]
    OBVIOUS
<1>2. \A x \in Eventos : evento[x] \in Evento
    BY DEF IInv, TypeOK
<1>3. ASSUME NEW x \in Eventos PROVE Restou(x, evento[x], evento'[x], horario')
    <2>1. CASE x \in EventosDaReserva(s)
        BY <1>1, <2>1
    <2>2. CASE x \notin EventosDaReserva(s)
        BY <1>1, <1>2, <2>2, RestouTudo
    <2> QED
        BY <2>1, <2>2
<1>4. TypeOK'
    <2>1. \A x \in Eventos : evento'[x] \in Evento
        BY <1>3 DEF Restou
    <2>2. evento' \in [Eventos -> Evento]
        BY <2>1
    <2> QED
        BY <2>2, LivreTipado DEF IInv, TypeOK
<1>5. \A t \in Estadias : /\ reserva'[t].unidade = reserva[t].unidade
                          /\ reserva'[t].realocada = reserva[t].realocada
                          /\ reserva[t].entrou => reserva'[t].entrou
    OBVIOUS
<1>6. \A q \in Pedidos \ {p} :
         /\ \A t \in Estadias : <<"reserva", t, "compartilhada">> \in pedido[q].travas =>
               reserva'[t] = reserva[t]
         /\ \A x \in Eventos : <<"evento", x, "exclusiva">> \in pedido[q].travas =>
               evento'[x] = evento[x]
    <2>1. \A q \in Pedidos \ {p} : <<"reserva", s, "compartilhada">> \notin pedido[q].travas
        BY SoMinha
    <2>2. \A q \in Pedidos \ {p} : \A x \in EventosDaReserva(s) :
             <<"evento", x, "exclusiva">> \notin pedido[q].travas
        <3> SUFFICES ASSUME NEW q \in Pedidos \ {p}, NEW x \in EventosDaReserva(s)
                     PROVE  <<"evento", x, "exclusiva">> \notin pedido[q].travas
            OBVIOUS
        <3>1. <<"evento", x, "exclusiva">> \in TravarEventos(s)
            BY DEF TravarEventos
        <3> QED
            BY <3>1, SoMinha
    <2> QED
        BY <1>1, <2>1, <2>2
<1>7. Exclusao' /\ TodosSabem' /\ AutomaticosSeus' /\ MarcacoesNaoSeCruzam'
    BY <1>3, <1>4, <1>5, <1>6, RestouParaOsOutros
<1>8. ASSUME NEW x \in Eventos, Agendado(evento'[x]), evento[x].reserva # Nenhum,
             reserva'[evento[x].reserva].estado = "cancelled"
      PROVE  \/ reserva[evento[x].reserva].estado = "cancelled"
             \/ /\ reserva'[evento[x].reserva].entrou
                /\ x \in Manuais \/ x = <<evento[x].reserva, "limpeza">>
    <2>1. evento[x].reserva \in Estadias
        BY <1>2, <1>8 DEF Evento
    <2>2. CASE evento[x].reserva # s
        BY <1>8, <2>1, <2>2
    <2>3. CASE evento[x].reserva = s
        <3>1. x \in EventosDaReserva(s)
            BY <1>3, <1>8, <2>3 DEF EventosDaReserva, Restou, Agendado
        <3> QED
            BY <1>1, <1>8, <2>3, <3>1
    <2> QED
        BY <2>2, <2>3
<1>9. EventoSegueReserva'
    BY <1>3, <1>4, <1>5, <1>8, RestouSegue
<1>10. AutomaticoNoHorario'
    BY <1>3, RestouNoHorario
<1>11. QuemEstaEntrou'
    BY DEF IInv, QuemEstaEntrou
<1> QED
    BY <1>4, <1>7, <1>9, <1>10, <1>11 DEF IInv

LEMMA MantemCancelar ==
    ASSUME IInv, NEW p \in Pedidos, Passo(p), pedido[p].op = "cancelar"
    PROVE  IInv'
<1>1. PICK r \in Pedido :
          /\ r = pedido[p] /\ Sabe(r) /\ r.reserva \in Estadias
          /\ <<"reserva", r.reserva, "exclusiva">> \in r.travas
          /\ r.etapa \in {"eventos", "fila"} /\ r.hora = horario /\ r.hora \in Horarios
          /\ r.dia \in Nat /\ pedido' = [pedido EXCEPT ![p] = Livre]
          /\ r.op \in {"entrada", "saida", "cancelar"} => Concedidas(p, TravarEventos(r.reserva))
    BY Decidindo
<1> DEFINE s == r.reserva
           hospedado == reserva[s].estado = "checked_in"
           d == [x \in EventosDaReserva(s) |-> OnCancel(x, evento[x], hospedado, r.dia, r.hora)]
<1>2. AoCancelar(r) /\ UNCHANGED <<hoje, horario>>
    BY <1>1 DEF Passo
<1>3. /\ reserva' = [reserva EXCEPT ![s].estado = "cancelled"]
      /\ evento' = [x \in Eventos |-> IF x \in EventosDaReserva(s) THEN d[x] ELSE evento[x]]
    BY <1>2 DEF AoCancelar, Aplicar
<1>4. /\ reserva' \in [Estadias -> Reserva] /\ \A t \in Estadias \ {s} : reserva'[t] = reserva[t]
      /\ reserva'[s].unidade = reserva[s].unidade /\ reserva'[s].realocada = reserva[s].realocada
      /\ reserva'[s].entrou = reserva[s].entrou /\ reserva'[s].estado = "cancelled"
    BY <1>1, <1>3 DEF IInv, TypeOK, Reserva, Estados
<1>5. hospedado => reserva[s].entrou
    BY <1>1 DEF IInv, QuemEstaEntrou
<1>6. ASSUME NEW x \in EventosDaReserva(s)
      PROVE  /\ Restou(x, evento[x], d[x], horario)
             /\ Agendado(d[x]) => reserva[s].entrou /\ (x \in Manuais \/ x = <<s, "limpeza">>)
    <2>1. x \in Eventos /\ evento[x] \in Evento /\ evento[x].reserva = s /\ evento[x].estado # "ausente"
        BY DEF EventosDaReserva, IInv, TypeOK
    <2>2. d[x] = OnCancel(x, evento[x], hospedado, r.dia, r.hora)
        OBVIOUS
    <2>3. hospedado \in BOOLEAN
        OBVIOUS
    <2>4. x \in Manuais \/ (x \in Automaticos /\ x[1] = s)
        BY <2>1 DEF Eventos, IInv, AutomaticosSeus
    <2>5. x \in Automaticos /\ x[1] = s /\ x[2] = "limpeza" => x = <<s, "limpeza">>
        BY DEF Automaticos
    <2> HIDE DEF d, hospedado, s
    <2>6. /\ Restou(x, evento[x], d[x], horario)
          /\ Agendado(d[x]) => hospedado /\ (x \in Manuais \/ x[2] = "limpeza")
        BY <1>1, <2>1, <2>2, <2>3, RestouDoCancelamento
    <2> QED
        BY <1>5, <2>4, <2>5, <2>6
<1> HIDE DEF d, hospedado
<1>7. /\ reserva[s].entrou => reserva'[s].entrou
      /\ reserva'[s].estado = "checked_in" => reserva'[s].entrou
    BY <1>4
<1>8. \A x \in EventosDaReserva(s) :
         /\ Restou(x, evento[x], d[x], horario)
         /\ Agendado(d[x]) /\ reserva'[s].estado = "cancelled" =>
               reserva'[s].entrou /\ (x \in Manuais \/ x = <<s, "limpeza">>)
    BY <1>4, <1>6
<1>9. Concedidas(p, TravarEventos(s))
    BY <1>1
<1> QED
    BY <1>1, <1>2, <1>3, <1>4, <1>7, <1>8, <1>9, Decidiu

LEMMA MantemEntrada ==
    ASSUME IInv, NEW p \in Pedidos, Passo(p), pedido[p].op = "entrada"
    PROVE  IInv'
<1>1. PICK r \in Pedido :
          /\ r = pedido[p] /\ Sabe(r) /\ r.reserva \in Estadias
          /\ <<"reserva", r.reserva, "exclusiva">> \in r.travas
          /\ r.etapa \in {"eventos", "fila"} /\ r.hora = horario /\ r.hora \in Horarios
          /\ r.dia \in Nat /\ pedido' = [pedido EXCEPT ![p] = Livre]
          /\ r.op \in {"entrada", "saida", "cancelar"} => Concedidas(p, TravarEventos(r.reserva))
    BY Decidindo
<1> DEFINE s == r.reserva
           d == [x \in EventosDaReserva(s) |-> OnCheckIn(x, evento[x])]
<1>2. AoRegistrarEntrada(r) /\ UNCHANGED <<hoje, horario>>
    BY <1>1 DEF Passo
<1>3. /\ reserva' = [reserva EXCEPT ![s].estado = "checked_in", ![s].entrou = TRUE]
      /\ evento' = [x \in Eventos |-> IF x \in EventosDaReserva(s) THEN d[x] ELSE evento[x]]
    BY <1>2 DEF AoRegistrarEntrada, Aplicar
<1>4. /\ reserva' \in [Estadias -> Reserva] /\ \A t \in Estadias \ {s} : reserva'[t] = reserva[t]
      /\ reserva'[s].unidade = reserva[s].unidade /\ reserva'[s].realocada = reserva[s].realocada
      /\ reserva'[s].entrou /\ reserva'[s].estado = "checked_in"
    BY <1>1, <1>3 DEF IInv, TypeOK, Reserva, Estados
<1>5. \A x \in EventosDaReserva(s) : Restou(x, evento[x], d[x], horario)
    BY RestouDaEntrada DEF EventosDaReserva, IInv, TypeOK
<1>6. Concedidas(p, TravarEventos(s))
    BY <1>1
<1> HIDE DEF d
<1>7. /\ reserva[s].entrou => reserva'[s].entrou
      /\ reserva'[s].estado = "checked_in" => reserva'[s].entrou
    BY <1>4
<1>8. \A x \in EventosDaReserva(s) :
         /\ Restou(x, evento[x], d[x], horario)
         /\ Agendado(d[x]) /\ reserva'[s].estado = "cancelled" =>
               reserva'[s].entrou /\ (x \in Manuais \/ x = <<s, "limpeza">>)
    BY <1>4, <1>5
<1> QED
    BY <1>1, <1>2, <1>3, <1>4, <1>6, <1>7, <1>8, Decidiu

LEMMA MantemSaida ==
    ASSUME IInv, NEW p \in Pedidos, Passo(p), pedido[p].op = "saida"
    PROVE  IInv'
<1>1. PICK r \in Pedido :
          /\ r = pedido[p] /\ Sabe(r) /\ r.reserva \in Estadias
          /\ <<"reserva", r.reserva, "exclusiva">> \in r.travas
          /\ r.etapa \in {"eventos", "fila"} /\ r.hora = horario /\ r.hora \in Horarios
          /\ r.dia \in Nat /\ pedido' = [pedido EXCEPT ![p] = Livre]
          /\ r.op \in {"entrada", "saida", "cancelar"} => Concedidas(p, TravarEventos(r.reserva))
    BY Decidindo
<1> DEFINE s == r.reserva
           d == [x \in EventosDaReserva(s) |-> OnCheckOut(x, evento[x], r.dia, r.hora)]
<1>2. AoRegistrarSaida(r) /\ UNCHANGED <<hoje, horario>>
    BY <1>1 DEF Passo
<1>3. /\ reserva' = [reserva EXCEPT ![s].estado = "checked_out"]
      /\ evento' = [x \in Eventos |-> IF x \in EventosDaReserva(s) THEN d[x] ELSE evento[x]]
    BY <1>2 DEF AoRegistrarSaida, Aplicar
<1>4. /\ reserva' \in [Estadias -> Reserva] /\ \A t \in Estadias \ {s} : reserva'[t] = reserva[t]
      /\ reserva'[s].unidade = reserva[s].unidade /\ reserva'[s].realocada = reserva[s].realocada
      /\ reserva'[s].entrou = reserva[s].entrou /\ reserva'[s].estado = "checked_out"
    BY <1>1, <1>3 DEF IInv, TypeOK, Reserva, Estados
<1>5. \A x \in EventosDaReserva(s) : Restou(x, evento[x], d[x], horario)
    BY <1>1, RestouDaSaida DEF EventosDaReserva, IInv, TypeOK
<1>6. Concedidas(p, TravarEventos(s))
    BY <1>1
<1> HIDE DEF d
<1> QED
    BY <1>1, <1>2, <1>3, <1>4, <1>5, <1>6, Decidiu

\* The reassignment takes along what was marked in the unit the guest leaves; what it
\* brings to the other unit is exempt from the others' conflicts.
LEMMA MantemRealocar ==
    ASSUME IInv, NEW p \in Pedidos, Passo(p), pedido[p].op = "realocar"
    PROVE  IInv'
<1>1. PICK r \in Pedido :
          /\ r = pedido[p] /\ Sabe(r) /\ r.reserva \in Estadias
          /\ <<"reserva", r.reserva, "exclusiva">> \in r.travas
          /\ r.etapa \in {"eventos", "fila"} /\ r.hora = horario /\ r.hora \in Horarios
          /\ r.dia \in Nat /\ pedido' = [pedido EXCEPT ![p] = Livre]
          /\ r.op \in {"entrada", "saida", "cancelar"} => Concedidas(p, TravarEventos(r.reserva))
    BY Decidindo
<1> DEFINE s == r.reserva
           de == reserva[s].unidade
           para == r.unidade
<1>2. AoRealocar(r) /\ UNCHANGED <<hoje, horario>>
    BY <1>1 DEF Passo
<1>3. de \in Unidades /\ para \in Unidades
    BY <1>1 DEF Sabe, SabeReserva, IInv, TypeOK, Reserva
<1>4. /\ reserva' \in [Estadias -> Reserva] /\ \A t \in Estadias \ {s} : reserva'[t] = reserva[t]
      /\ reserva'[s].unidade = para /\ reserva'[s].realocada
      /\ reserva'[s].entrou = reserva[s].entrou /\ reserva'[s].estado = reserva[s].estado
    <2>1. reserva' = [reserva EXCEPT ![s].unidade = para, ![s].realocada = TRUE]
        BY <1>2 DEF AoRealocar
    <2> QED
        BY <1>1, <1>3, <2>1 DEF IInv, TypeOK, Reserva
<1>5. \A x \in Eventos : evento[x] \in Evento
    BY DEF IInv, TypeOK
<1>6. \A x \in Eventos :
         /\ evento'[x] \in Evento
         /\ \/ evento'[x] = evento[x] /\ ~(x \in EventosDaReserva(s) /\ MovesOnReassign(x, evento[x], de))
            \/ /\ x \in EventosDaReserva(s) /\ MovesOnReassign(x, evento[x], de)
               /\ Agendado(evento'[x]) /\ evento'[x].reserva = s /\ evento'[x].unidade \in {Nenhum, para}
               /\ evento'[x].semente = evento[x].semente
    <2> DEFINE junto(x) == [evento[x] EXCEPT !.unidade = para]
               so(x) == [evento[x] EXCEPT !.unidade = Nenhum]
               d == [x \in EventosDaReserva(s) |->
                       IF ~MovesOnReassign(x, evento[x], de) THEN evento[x]
                       ELSE IF Disputa(x, junto(x)) THEN so(x) ELSE junto(x)]
    <2>1. evento' = [x \in Eventos |-> IF x \in EventosDaReserva(s) THEN d[x] ELSE evento[x]]
        BY <1>2 DEF AoRealocar, Aplicar
    <2> SUFFICES ASSUME NEW x \in Eventos
                 PROVE  /\ evento'[x] \in Evento
                        /\ \/ /\ evento'[x] = evento[x]
                              /\ ~(x \in EventosDaReserva(s) /\ MovesOnReassign(x, evento[x], de))
                           \/ /\ x \in EventosDaReserva(s) /\ MovesOnReassign(x, evento[x], de)
                              /\ Agendado(evento'[x]) /\ evento'[x].reserva = s
                              /\ evento'[x].unidade \in {Nenhum, para}
                              /\ evento'[x].semente = evento[x].semente
        OBVIOUS
    <2>2. CASE x \notin EventosDaReserva(s)
        BY <1>5, <2>1, <2>2
    <2>3. CASE x \in EventosDaReserva(s) /\ ~MovesOnReassign(x, evento[x], de)
        BY <1>5, <2>1, <2>3
    <2>4. CASE x \in EventosDaReserva(s) /\ MovesOnReassign(x, evento[x], de)
        <3>1. PICK e \in Evento : e = evento[x] /\ Agendado(e) /\ e.reserva = s
            BY <1>5, <2>4 DEF MovesOnReassign, EventosDaReserva
        <3>2. evento'[x] = [e EXCEPT !.unidade = Nenhum] \/ evento'[x] = [e EXCEPT !.unidade = para]
            BY <2>1, <2>4, <3>1
        <3>3. \A u \in {Nenhum, para} : LET f == [e EXCEPT !.unidade = u] IN
                 /\ f \in Evento /\ Agendado(f) /\ f.reserva = s /\ f.unidade = u
                 /\ f.semente = e.semente
            BY <1>3, <3>1 DEF Evento, Agendado
        <3> QED
            BY <2>4, <3>1, <3>2, <3>3
    <2> QED
        BY <2>2, <2>3, <2>4
<1>7. TypeOK'
    <2>1. evento' \in [Eventos -> Evento]
        <3>1. \A x \in Eventos : evento'[x] \in Evento
            BY <1>6
        <3>2. evento' = [x \in Eventos |-> evento'[x]]
            BY <1>2 DEF AoRealocar, Aplicar
        <3> QED
            BY <3>1, <3>2
    <2> QED
        BY <1>1, <1>2, <1>4, <2>1, LivreTipado DEF IInv, TypeOK
\* Nobody else has an event of the reservation, if one moves; nor the reservation.
<1>8. ASSUME NEW q \in Pedidos \ {p}
      PROVE  /\ <<"reserva", s, "compartilhada">> \notin pedido[q].travas
             /\ \A x \in EventosDaReserva(s) : <<"evento", x, "exclusiva">> \notin pedido[q].travas
    <2>1. Concedidas(p, {})
        BY DEF Concedidas
    <2>2. <<"reserva", s, "compartilhada">> \notin pedido[q].travas
        BY <1>1, <2>1, SoMinha
    <2>3. ASSUME NEW x \in EventosDaReserva(s)
          PROVE  <<"evento", x, "exclusiva">> \notin pedido[q].travas
        <3>1. <<"evento", x, "exclusiva">> \in TravarEventos(s)
            BY DEF TravarEventos
        <3>2. CASE r.etapa = "fila"
            <4>1. TravarEventos(s) \subseteq pedido[p].travas
                BY <1>1, <3>2 DEF Sabe, SabeReserva
            <4> QED
                BY <2>1, <3>1, <4>1, SoMinha
        <3>3. CASE r.etapa # "fila"
            <4>1. Concedidas(p, TravarEventos(s))
                BY <1>1, <3>3 DEF Passo, Terminar
            <4> QED
                BY <3>1, <4>1, SoMinha
        <3> QED
            BY <3>2, <3>3
    <2> QED
        BY <2>2, <2>3
<1>9. \A x \in Eventos : evento[x].reserva # s => evento'[x] = evento[x]
    BY <1>6 DEF EventosDaReserva
<1>10. \A x \in Eventos : evento'[x].reserva = evento[x].reserva
    BY <1>6 DEF EventosDaReserva
<1>11. \A x \in Eventos : evento[x].reserva # s => Candidato(evento[x])' = Candidato(evento[x])
    <2> SUFFICES ASSUME NEW x \in Eventos, evento[x].reserva # s
                 PROVE  Candidato(evento[x])' = Candidato(evento[x])
        OBVIOUS
    <2>1. evento'[x] = evento[x]
        BY <1>9
    <2>2. evento[x].reserva # Nenhum => evento[x].reserva \in Estadias
        BY <1>5 DEF Evento
    <2> QED
        BY <1>4, <2>1, <2>2 DEF Candidato, UnidadesDaReserva
<1>12. s # Nenhum
    BY <1>1, AgendaAssumption
<1>13. ASSUME NEW n \in Pedido, NEW q \in Pedidos \ {p}, n = pedido[q] PROVE Sabe(n)'
    <2>1. Sabe(n) /\ hoje <= hoje' /\ horario' = horario
        BY <1>2, <1>13 DEF IInv, TodosSabem, TypeOK
    <2>2. \A t \in Estadias :
             /\ <<"reserva", t, "compartilhada">> \in n.travas => reserva'[t] = reserva[t]
             /\ reserva[t].realocada => reserva'[t].realocada
             /\ reserva'[t].unidade = reserva[t].unidade \/ reserva'[t].realocada
        BY <1>4, <1>8, <1>13
    <2>3. \A t \in Estadias : EventosDaReserva(t)' \subseteq EventosDaReserva(t)
        BY <1>6, <1>10 DEF EventosDaReserva
    <2>4. \A x \in Eventos :
             <<"evento", x, "exclusiva">> \in n.travas /\ Agendado(evento[x]) =>
                 /\ evento'[x] = evento[x]
                 /\ evento[x].reserva # Nenhum =>
                       reserva'[evento[x].reserva].unidade = reserva[evento[x].reserva].unidade
        <3> SUFFICES ASSUME NEW x \in Eventos, <<"evento", x, "exclusiva">> \in n.travas,
                            Agendado(evento[x])
                     PROVE  /\ evento'[x] = evento[x]
                            /\ evento[x].reserva # Nenhum =>
                                  reserva'[evento[x].reserva].unidade = reserva[evento[x].reserva].unidade
            OBVIOUS
        <3>1. x \notin EventosDaReserva(s)
            BY <1>8, <1>13
        <3>2. evento[x].reserva # s
            BY <3>1 DEF EventosDaReserva, Agendado
        <3> QED
            BY <1>4, <1>5, <1>9, <3>2 DEF Evento
    <2>5. ASSUME NEW y \in UnitConflicts(n.evento, n.alvo, n.ocupa)'
          PROVE  \/ Realocada(evento[y].reserva)'
                 \/ /\ y \in UnitConflicts(n.evento, n.alvo, n.ocupa)
                    /\ evento'[y].reserva = evento[y].reserva
        <3>1. y \in Eventos /\ y \in Manuais
            BY DEF UnitConflicts, Eventos
        <3>2. CASE evento[y].reserva = s
            BY <1>4, <1>10, <1>12, <3>1, <3>2 DEF Realocada
        <3>3. CASE evento[y].reserva # s
            BY <1>9, <1>11, <3>1, <3>3 DEF UnitConflicts
        <3> QED
            BY <3>2, <3>3
    <2> QED
        BY <1>7, <2>1, <2>2, <2>3, <2>4, <2>5, OutroSabe
<1>14. Exclusao' /\ TodosSabem'
    BY <1>1, <1>7, <1>13, Terminou
<1>15. \A x \in Automaticos : x \in Eventos /\ x \notin Manuais
    BY AgendaAssumption DEF Eventos, Automaticos
<1>16. \A x \in Automaticos : evento'[x] = evento[x]
    BY <1>6, <1>15 DEF MovesOnReassign
<1>17. AutomaticosSeus' /\ QuemEstaEntrou'
    BY <1>4, <1>16 DEF IInv, AutomaticosSeus, QuemEstaEntrou
<1>18. AutomaticoNoHorario'
    BY <1>2, <1>16 DEF IInv, AutomaticoNoHorario, Agendado
<1>19. EventoSegueReserva'
    <2> SUFFICES ASSUME NEW x \in Eventos, Agendado(evento'[x]), evento'[x].reserva # Nenhum
                 PROVE  /\ evento'[x].unidade \in {Nenhum, reserva'[evento'[x].reserva].unidade}
                        /\ reserva'[evento'[x].reserva].estado = "cancelled" =>
                             \/ evento'[x].semente
                             \/ /\ reserva'[evento'[x].reserva].entrou
                                /\ x \in Manuais \/ x = <<evento'[x].reserva, "limpeza">>
        BY DEF EventoSegueReserva, Agendado
    <2>1. Agendado(evento[x]) /\ evento'[x].semente = evento[x].semente
        BY <1>6 DEF MovesOnReassign
    <2>2. PICK t \in Estadias : t = evento[x].reserva /\ t = evento'[x].reserva
        BY <1>5, <1>10 DEF Evento
    <2>3. /\ evento[x].unidade \in {Nenhum, reserva[t].unidade}
          /\ reserva[t].estado = "cancelled" =>
                \/ evento[x].semente
                \/ reserva[t].entrou /\ (x \in Manuais \/ x = <<t, "limpeza">>)
        BY <2>1, <2>2, AgendaAssumption DEF IInv, EventoSegueReserva
    <2>4. reserva'[t].estado = reserva[t].estado /\ reserva'[t].entrou = reserva[t].entrou
        BY <1>4
    <2>5. evento'[x].unidade \in {Nenhum, reserva'[t].unidade}
        <3>1. CASE t # s
            BY <1>4, <1>9, <2>2, <2>3, <3>1
        <3>2. CASE /\ t = s /\ evento'[x] = evento[x]
                   /\ ~(x \in EventosDaReserva(s) /\ MovesOnReassign(x, evento[x], de))
            <4>1. x \in EventosDaReserva(s)
                BY <2>1, <2>2, <3>2 DEF EventosDaReserva, Agendado
            <4>2. x \in Manuais => evento[x].unidade = Nenhum
                BY <2>1, <2>3, <3>2, <4>1 DEF MovesOnReassign
            <4>3. x \notin Manuais => evento[x].unidade = Nenhum
                BY DEF Eventos, IInv, AutomaticosSeus
            <4> QED
                BY <3>2, <4>2, <4>3
        <3>3. CASE t = s /\ evento'[x].unidade \in {Nenhum, para}
            BY <1>4, <3>3
        <3> QED
            BY <1>6, <3>1, <3>2, <3>3
    <2> QED
        BY <2>1, <2>2, <2>3, <2>4, <2>5
<1>20. MarcacoesNaoSeCruzam'
    <2> SUFFICES ASSUME NEW x \in Manuais, NEW y \in Manuais, x # y,
                        Agendado(evento'[x]), Agendado(evento'[y]), evento'[x].dia = evento'[y].dia,
                        Candidato(evento[x])' \cap Candidato(evento[y])' # {}
                 PROVE  \E t \in {evento'[x].reserva, evento'[y].reserva} \ {Nenhum} :
                            reserva'[t].realocada
        BY DEF MarcacoesNaoSeCruzam, Agendado
    <2>1. x \in Eventos /\ y \in Eventos
        BY DEF Eventos
    <2>2. CASE evento[x].reserva = s \/ evento[y].reserva = s
        BY <1>4, <1>10, <1>12, <2>1, <2>2
    <2>3. CASE evento[x].reserva # s /\ evento[y].reserva # s
        <3>1. /\ evento'[x] = evento[x] /\ evento'[y] = evento[y]
              /\ Candidato(evento[x]) \cap Candidato(evento[y]) # {}
            BY <1>9, <1>11, <2>1, <2>3
        <3>2. PICK t \in {evento[x].reserva, evento[y].reserva} \ {Nenhum} : reserva[t].realocada
            BY <3>1 DEF IInv, MarcacoesNaoSeCruzam
        <3>3. t \in Estadias /\ t # s
            BY <1>5, <2>1, <2>3, <3>2 DEF Evento
        <3> QED
            BY <1>4, <3>1, <3>2, <3>3
    <2> QED
        BY <2>2, <2>3
<1> QED
    BY <1>7, <1>14, <1>17, <1>18, <1>19, <1>20 DEF IInv

-----------------------------------------------------------------------------
(* Automatic events are born.                                              *)

\* `e' is born of the reservation `s', at the hours `h'.
NasceDe(e, s, h) ==
    /\ e \in Evento /\ e.estado # "ausente" /\ e.reserva = s
    /\ e.unidade = Nenhum /\ e.hora \in {Nenhum, h}

LEMMA Planejado ==
    ASSUME NEW s \in Estadias, NEW h \in Horarios, NEW t \in Tipos
    PROVE  NasceDe(Plan(s, h, FALSE)[t], s, h) /\ NasceDe(Plan(s, h, TRUE)[t], s, h)
<1> DEFINE novo == [EventoAusente EXCEPT !.estado = "agendado", !.reserva = s]
           chegada == AutoWindow(novo, Periodo[s].de, h)
           partida == AutoWindow(novo, Periodo[s].ate, h)
           feita == Fechar(<<s, t>>, chegada, "concluido")
<1>1. Periodo[s].de \in Nat /\ Periodo[s].ate \in Nat /\ <<s, t>> \notin Manuais
    BY AgendaAssumption
<1>2. novo \in Evento /\ novo.estado = "agendado" /\ novo.reserva = s /\ novo.unidade = Nenhum
    BY AusenteTipado DEF Evento
<1>3. {Plan(s, h, FALSE)[t], Plan(s, h, TRUE)[t]} \subseteq {chegada, partida, feita}
    BY DEF Plan
<1> HIDE DEF novo
<1>4. /\ chegada \in Evento /\ chegada.estado = "agendado" /\ chegada.reserva = s
      /\ chegada.unidade = Nenhum /\ chegada.hora = h
      /\ partida \in Evento /\ partida.estado = "agendado" /\ partida.reserva = s
      /\ partida.unidade = Nenhum /\ partida.hora = h
    BY <1>1, <1>2 DEF AutoWindow, Evento
<1> HIDE DEF chegada, partida
<1>5. /\ feita \in Evento /\ feita.estado = "concluido" /\ feita.reserva = s
      /\ feita.unidade = Nenhum /\ feita.hora = Nenhum
    BY <1>1, <1>4 DEF Fechar, Evento
<1> HIDE DEF feita
<1> QED
    BY <1>3, <1>4, <1>5 DEF NasceDe

\* `f' is an automatic event born of its reservation.
Nascido(x, f) ==
    /\ x \in Automaticos /\ evento[x].estado = "ausente"
    /\ NasceDe(f, x[1], horario)

\* Events born while nobody else steps on their reservation.
LEMMA Semeou ==
    ASSUME IInv, NEW p \in Pedidos, pedido' = [pedido EXCEPT ![p] = Livre],
           UNCHANGED <<hoje, horario>>, evento' = [x \in Eventos |-> evento'[x]],
           reserva' \in [Estadias -> Reserva],
           \A x \in Eventos : \/ evento'[x] = evento[x]
                              \/ /\ Nascido(x, evento'[x])
                                 /\ \A q \in Pedidos \ {p} :
                                       <<"reserva", x[1], "exclusiva">> \notin pedido[q].travas,
           \A s \in Estadias : /\ reserva'[s].unidade = reserva[s].unidade
                               /\ reserva'[s].realocada = reserva[s].realocada,
           \A q \in Pedidos \ {p} : \A s \in Estadias :
               <<"reserva", s, "compartilhada">> \in pedido[q].travas => reserva'[s] = reserva[s]
    PROVE  /\ TypeOK' /\ Exclusao' /\ TodosSabem'
           /\ AutomaticosSeus' /\ AutomaticoNoHorario' /\ MarcacoesNaoSeCruzam'
<1>1. \A x \in Eventos : evento[x] \in Evento /\ evento'[x] \in Evento
    BY DEF IInv, TypeOK, Nascido, NasceDe
<1>2. TypeOK'
    <2>1. evento' \in [Eventos -> Evento]
        BY <1>1
    <2> QED
        BY <2>1, LivreTipado DEF IInv, TypeOK
<1>3. \A y \in Manuais :
         /\ evento'[y] = evento[y] /\ y \in Eventos
         /\ Candidato(evento[y])' = Candidato(evento[y])
    <2> SUFFICES ASSUME NEW y \in Manuais
                 PROVE  /\ evento'[y] = evento[y] /\ y \in Eventos
                        /\ Candidato(evento[y])' = Candidato(evento[y])
        OBVIOUS
    <2>1. evento'[y] = evento[y] /\ y \in Eventos
        BY AgendaAssumption DEF Nascido, NasceDe, Automaticos, Eventos
    <2>2. evento[y].reserva # Nenhum => evento[y].reserva \in Estadias
        BY <1>1, <2>1 DEF Evento
    <2> QED
        BY <2>1, <2>2 DEF Candidato, UnidadesDaReserva
<1>4. ASSUME NEW n \in Pedido, NEW q \in Pedidos \ {p}, n = pedido[q] PROVE Sabe(n)'
    <2>1. Sabe(n) /\ hoje <= hoje'
        BY <1>4 DEF IInv, TodosSabem, TypeOK
    <2>2. \A s \in Estadias : <<"reserva", s, "exclusiva">> \in n.travas =>
             EventosDaReserva(s)' \subseteq EventosDaReserva(s)
        BY <1>4 DEF EventosDaReserva, Nascido, NasceDe
    <2>3. \A x \in Eventos : Agendado(evento[x]) =>
             /\ evento'[x] = evento[x]
             /\ evento[x].reserva # Nenhum =>
                   reserva'[evento[x].reserva].unidade = reserva[evento[x].reserva].unidade
        BY <1>1 DEF Nascido, NasceDe, Agendado, Evento
    <2>4. \A y \in UnitConflicts(n.evento, n.alvo, n.ocupa)' :
             /\ y \in UnitConflicts(n.evento, n.alvo, n.ocupa)
             /\ evento'[y].reserva = evento[y].reserva
        BY <1>3 DEF UnitConflicts
    <2> QED
        BY <1>2, <1>4, <2>1, <2>2, <2>3, <2>4, OutroSabe
<1>5. Exclusao' /\ TodosSabem'
    BY <1>2, <1>4, Terminou
<1>6. AutomaticosSeus' /\ AutomaticoNoHorario'
    BY DEF IInv, AutomaticosSeus, AutomaticoNoHorario, Agendado, Nascido, NasceDe, Eventos
<1>7. MarcacoesNaoSeCruzam'
    <2> SUFFICES ASSUME NEW x \in Manuais, NEW y \in Manuais, x # y,
                        Agendado(evento'[x]), Agendado(evento'[y]), evento'[x].dia = evento'[y].dia,
                        Candidato(evento[x])' \cap Candidato(evento[y])' # {}
                 PROVE  \E r \in {evento'[x].reserva, evento'[y].reserva} \ {Nenhum} :
                            reserva'[r].realocada
        BY DEF MarcacoesNaoSeCruzam, Agendado
    <2>1. /\ evento'[x] = evento[x] /\ evento'[y] = evento[y] /\ x \in Eventos /\ y \in Eventos
          /\ Agendado(evento[x]) /\ Agendado(evento[y]) /\ evento[x].dia = evento[y].dia
          /\ Candidato(evento[x]) \cap Candidato(evento[y]) # {}
        BY <1>3
    <2>2. PICK r \in {evento[x].reserva, evento[y].reserva} \ {Nenhum} : reserva[r].realocada
        BY <2>1 DEF IInv, MarcacoesNaoSeCruzam
    <2>3. r \in Estadias
        BY <1>1, <2>1, <2>2 DEF Evento
    <2> QED
        BY <2>1, <2>2, <2>3
<1> QED
    BY <1>2, <1>5, <1>6, <1>7

LEMMA MantemConfirmar ==
    ASSUME IInv, NEW p \in Pedidos, Passo(p), pedido[p].op = "confirmar"
    PROVE  IInv'
<1>1. PICK r \in Pedido :
          /\ r = pedido[p] /\ Sabe(r) /\ r.reserva \in Estadias
          /\ <<"reserva", r.reserva, "exclusiva">> \in r.travas
          /\ r.etapa \in {"eventos", "fila"} /\ r.hora = horario /\ r.hora \in Horarios
          /\ r.dia \in Nat /\ pedido' = [pedido EXCEPT ![p] = Livre]
          /\ r.op \in {"entrada", "saida", "cancelar"} => Concedidas(p, TravarEventos(r.reserva))
    BY Decidindo
<1> DEFINE s == r.reserva
           plano == Plan(s, r.hora, FALSE)
<1>2. AoConfirmar(r) /\ UNCHANGED <<hoje, horario>>
    BY <1>1 DEF Passo
<1>3. evento' = [x \in Eventos |-> IF x \in Automaticos /\ x[1] = s THEN plano[x[2]] ELSE evento[x]]
    BY <1>2 DEF AoConfirmar, InserirAutomaticos
<1>4. /\ reserva' \in [Estadias -> Reserva] /\ \A t \in Estadias \ {s} : reserva'[t] = reserva[t]
      /\ reserva'[s].unidade = reserva[s].unidade /\ reserva'[s].realocada = reserva[s].realocada
      /\ reserva'[s].entrou = reserva[s].entrou /\ reserva'[s].estado = "confirmed"
    <2>1. reserva' = [reserva EXCEPT ![s].estado = "confirmed"]
        BY <1>2 DEF AoConfirmar
    <2> QED
        BY <1>1, <2>1 DEF IInv, TypeOK, Reserva, Estados
<1>5. \A q \in Pedidos \ {p} : /\ <<"reserva", s, "compartilhada">> \notin pedido[q].travas
                               /\ <<"reserva", s, "exclusiva">> \notin pedido[q].travas
    <2>1. Concedidas(p, {})
        BY DEF Concedidas
    <2> QED
        BY <1>1, <2>1, SoMinha
<1>6. \A x \in Eventos : \/ evento'[x] = evento[x] /\ ~(x \in Automaticos /\ x[1] = s)
                         \/ Nascido(x, evento'[x]) /\ x[1] = s
    <2> SUFFICES ASSUME NEW x \in Eventos, x \in Automaticos, x[1] = s
                 PROVE  Nascido(x, evento'[x])
        BY <1>3
    <2>1. evento'[x] = plano[x[2]]
        BY <1>3
    <2>2. evento[x].estado = "ausente"
        BY <1>2 DEF AoConfirmar, EventosDaReserva, IInv, AutomaticosSeus
    <2>3. x[2] \in Tipos
        BY DEF Automaticos
    <2>4. NasceDe(plano[x[2]], s, r.hora)
        BY <1>1, <2>3, Planejado
    <2> HIDE DEF plano
    <2> QED
        BY <1>1, <2>1, <2>2, <2>4 DEF Nascido
<1>7. evento' = [x \in Eventos |-> evento'[x]]
    BY <1>3
<1> HIDE DEF plano
<1>8. /\ TypeOK' /\ Exclusao' /\ TodosSabem'
      /\ AutomaticosSeus' /\ AutomaticoNoHorario' /\ MarcacoesNaoSeCruzam'
    <2>1. \A x \in Eventos : \/ evento'[x] = evento[x]
                             \/ /\ Nascido(x, evento'[x])
                                /\ \A q \in Pedidos \ {p} :
                                      <<"reserva", x[1], "exclusiva">> \notin pedido[q].travas
        BY <1>5, <1>6
    <2>2. \A q \in Pedidos \ {p} : \A t \in Estadias :
             <<"reserva", t, "compartilhada">> \in pedido[q].travas => reserva'[t] = reserva[t]
        BY <1>4, <1>5
    <2>3. \A t \in Estadias : /\ reserva'[t].unidade = reserva[t].unidade
                              /\ reserva'[t].realocada = reserva[t].realocada
        BY <1>4
    <2> QED
        BY <1>1, <1>2, <1>4, <1>7, <2>1, <2>2, <2>3, Semeou
<1>9. EventoSegueReserva'
    <2> SUFFICES ASSUME NEW x \in Eventos, Agendado(evento'[x]), evento'[x].reserva # Nenhum
                 PROVE  /\ evento'[x].unidade \in {Nenhum, reserva'[evento'[x].reserva].unidade}
                        /\ reserva'[evento'[x].reserva].estado = "cancelled" =>
                             \/ evento'[x].semente
                             \/ /\ reserva'[evento'[x].reserva].entrou
                                /\ x \in Manuais \/ x = <<evento'[x].reserva, "limpeza">>
        BY DEF EventoSegueReserva, Agendado
    <2>1. CASE evento'[x] = evento[x]
        <3>1. evento[x].reserva \in Estadias
            BY <2>1 DEF IInv, TypeOK, Evento
        <3>2. CASE evento[x].reserva = s
            BY <1>4, <2>1, <3>2 DEF IInv, EventoSegueReserva
        <3>3. CASE evento[x].reserva # s
            BY <1>4, <2>1, <3>1, <3>3 DEF IInv, EventoSegueReserva
        <3> QED
            BY <3>2, <3>3
    <2>2. CASE Nascido(x, evento'[x]) /\ x[1] = s
        BY <1>4, <2>2 DEF Nascido, NasceDe
    <2> QED
        BY <1>6, <2>1, <2>2
<1>10. QuemEstaEntrou'
    BY <1>1, <1>4 DEF IInv, QuemEstaEntrou
<1> QED
    BY <1>8, <1>9, <1>10 DEF IInv

\* What the fill inserts carries `semente'.
LEMMA MantemPreencher ==
    ASSUME IInv, NEW p \in Pedidos, PreencherReservasConfirmadas(p)
    PROVE  IInv'
<1>1. PICK r \in Pedido : r = pedido[p] /\ r.etapa = "semear" /\ Sabe(r)
    BY DEF PreencherReservasConfirmadas, IInv, TypeOK, TodosSabem
<1> DEFINE travas == {<<"reserva", s[1], "compartilhada">> : s \in r.lista}
           falta(x) == /\ x \in Automaticos /\ evento[x].estado = "ausente"
                       /\ \E s \in r.lista : s[1] = x[1]
           dele(x) == CHOOSE s \in r.lista : s[1] = x[1]
           plano(x) == Plan(x[1], r.hora, dele(x)[2] = "checked_in")[x[2]]
           novo(x) == [plano(x) EXCEPT !.semente = TRUE]
<1>2. /\ Concedidas(p, travas) /\ pedido' = [pedido EXCEPT ![p] = Livre]
      /\ evento' = [x \in Eventos |-> IF falta(x) THEN novo(x) ELSE evento[x]]
      /\ UNCHANGED <<hoje, horario, reserva>>
    BY <1>1 DEF PreencherReservasConfirmadas, Terminar
<1>3. r.hora = horario /\ horario \in Horarios
    BY <1>1 DEF Sabe, SabeHora, IInv, TypeOK
<1>4. ASSUME NEW x \in Eventos, falta(x)
      PROVE  /\ Nascido(x, evento'[x]) /\ evento'[x].semente
             /\ \A q \in Pedidos \ {p} : <<"reserva", x[1], "exclusiva">> \notin pedido[q].travas
    <2>1. evento'[x] = novo(x)
        BY <1>2, <1>4
    <2>2. /\ x[1] \in Estadias /\ x[2] \in Tipos
          /\ plano(x) \in {Plan(x[1], r.hora, FALSE)[x[2]], Plan(x[1], r.hora, TRUE)[x[2]]}
        <3>1. CASE dele(x)[2] = "checked_in"
            BY <1>4, <3>1 DEF Automaticos, Plan
        <3>2. CASE dele(x)[2] # "checked_in"
            BY <1>4, <3>2 DEF Automaticos, Plan
        <3> QED
            BY <3>1, <3>2
    <2>3. NasceDe(plano(x), x[1], r.hora)
        BY <1>3, <2>2, Planejado
    <2>4. <<"reserva", x[1], "compartilhada">> \in travas
        BY <1>4
    <2>5. \A q \in Pedidos \ {p} : <<"reserva", x[1], "exclusiva">> \notin pedido[q].travas
        BY <1>2, <2>4, SoMinha
    <2> HIDE DEF plano
    <2>6. NasceDe(novo(x), x[1], horario) /\ novo(x).semente
        BY <1>3, <2>3 DEF NasceDe, Evento
    <2> HIDE DEF novo
    <2> QED
        BY <1>4, <2>1, <2>5, <2>6 DEF Nascido
<1>5. evento' = [x \in Eventos |-> evento'[x]]
    BY <1>2
<1>6. \A x \in Eventos : ~falta(x) => evento'[x] = evento[x]
    BY <1>2
<1> HIDE DEF falta, travas
<1>7. /\ TypeOK' /\ Exclusao' /\ TodosSabem'
      /\ AutomaticosSeus' /\ AutomaticoNoHorario' /\ MarcacoesNaoSeCruzam'
    <2>1. \A x \in Eventos : \/ evento'[x] = evento[x]
                             \/ /\ Nascido(x, evento'[x])
                                /\ \A q \in Pedidos \ {p} :
                                      <<"reserva", x[1], "exclusiva">> \notin pedido[q].travas
        BY <1>4, <1>6
    <2>2. reserva' \in [Estadias -> Reserva]
        BY <1>2 DEF IInv, TypeOK
    <2> QED
        BY <1>2, <1>5, <2>1, <2>2, Semeou
<1>8. EventoSegueReserva'
    <2> SUFFICES ASSUME NEW x \in Eventos, Agendado(evento'[x]), evento'[x].reserva # Nenhum
                 PROVE  /\ evento'[x].unidade \in {Nenhum, reserva[evento'[x].reserva].unidade}
                        /\ reserva[evento'[x].reserva].estado = "cancelled" =>
                             \/ evento'[x].semente
                             \/ /\ reserva[evento'[x].reserva].entrou
                                /\ x \in Manuais \/ x = <<evento'[x].reserva, "limpeza">>
        BY <1>2 DEF EventoSegueReserva, Agendado
    <2>1. CASE ~falta(x)
        BY <1>6, <2>1 DEF IInv, EventoSegueReserva
    <2>2. CASE falta(x)
        BY <1>4, <2>2 DEF Nascido, NasceDe
    <2> QED
        BY <2>1, <2>2
<1>9. QuemEstaEntrou'
    BY <1>2 DEF IInv, QuemEstaEntrou
<1> QED
    BY <1>7, <1>8, <1>9 DEF IInv

LEMMA MantemPasso == ASSUME IInv, NEW p \in Pedidos, Passo(p) PROVE IInv'
<1>1. pedido[p].op \in {"confirmar", "cancelar", "entrada", "saida", "realocar"}
    BY DEF Passo
<1> QED
    BY <1>1, MantemConfirmar, MantemCancelar, MantemEntrada, MantemSaida, MantemRealocar

-----------------------------------------------------------------------------
(* Steps of no request, and the theorems.                                  *)

LEMMA MantemExpirarLote == ASSUME IInv, NEW s \in Estadias, ExpirarLote(s) PROVE IInv'
<1>1. /\ UNCHANGED <<hoje, horario, evento, pedido>> /\ reserva[s].estado = "hold"
      /\ \A p \in Pedidos : \A t \in pedido[p].travas : <<t[1], t[2]>> # <<"reserva", s>>
    BY DEF ExpirarLote
<1>2. /\ reserva' \in [Estadias -> Reserva] /\ \A t \in Estadias \ {s} : reserva'[t] = reserva[t]
      /\ reserva'[s].unidade = reserva[s].unidade /\ reserva'[s].realocada = reserva[s].realocada
      /\ reserva'[s].entrou = reserva[s].entrou /\ reserva'[s].estado = "expired"
    <2>1. reserva' = [reserva EXCEPT ![s].estado = "expired"]
        BY DEF ExpirarLote
    <2> QED
        BY <2>1 DEF IInv, TypeOK, Reserva, Estados
<1>3. TypeOK'
    BY <1>1, <1>2 DEF IInv, TypeOK
<1>4. \A x \in Eventos : /\ evento[x] \in Evento
                         /\ evento[x].reserva # Nenhum => evento[x].reserva \in Estadias
    BY DEF IInv, TypeOK, Evento
<1>5. \A y \in Manuais : y \in Eventos /\ Candidato(evento[y])' = Candidato(evento[y])
    <2> SUFFICES ASSUME NEW y \in Manuais
                 PROVE  y \in Eventos /\ Candidato(evento[y])' = Candidato(evento[y])
        OBVIOUS
    <2>1. y \in Eventos
        BY DEF Eventos
    <2> QED
        BY <1>1, <1>2, <1>4, <2>1 DEF Candidato, UnidadesDaReserva
<1>6. ASSUME NEW p \in Pedidos, NEW n \in Pedido, n = pedido[p] PROVE Sabe(n)'
    <2>1. Sabe(n) /\ hoje <= hoje'
        BY <1>1, <1>6 DEF IInv, TodosSabem, TypeOK
    <2>2. <<"reserva", s, "compartilhada">> \notin n.travas
        BY <1>1, <1>6
    <2>3. \A t \in Estadias : EventosDaReserva(t)' = EventosDaReserva(t)
        BY <1>1 DEF EventosDaReserva
    <2>4. \A y \in UnitConflicts(n.evento, n.alvo, n.ocupa)' :
             /\ y \in UnitConflicts(n.evento, n.alvo, n.ocupa)
             /\ evento'[y].reserva = evento[y].reserva
        BY <1>1, <1>5 DEF UnitConflicts
    <2>5. \A t \in Estadias :
             /\ reserva'[t].unidade = reserva[t].unidade
             /\ reserva[t].realocada => reserva'[t].realocada
             /\ <<"reserva", t, "compartilhada">> \in n.travas => reserva'[t] = reserva[t]
        BY <1>2, <2>2
    <2> QED
        BY <1>1, <1>3, <1>4, <2>1, <2>3, <2>4, <2>5, OutroSabe
<1>7. TodosSabem'
    BY <1>1, <1>6 DEF IInv, TypeOK, TodosSabem
<1>8. Exclusao' /\ AutomaticosSeus' /\ AutomaticoNoHorario' /\ QuemEstaEntrou'
    BY <1>1, <1>2 DEF IInv, Exclusao, AutomaticosSeus, AutomaticoNoHorario, Agendado, QuemEstaEntrou
<1>9. EventoSegueReserva'
    <2> SUFFICES ASSUME NEW x \in Eventos, Agendado(evento[x]), evento[x].reserva # Nenhum
                 PROVE  /\ evento[x].unidade \in {Nenhum, reserva'[evento[x].reserva].unidade}
                        /\ reserva'[evento[x].reserva].estado = "cancelled" =>
                             \/ evento[x].semente
                             \/ /\ reserva'[evento[x].reserva].entrou
                                /\ x \in Manuais \/ x = <<evento[x].reserva, "limpeza">>
        BY <1>1 DEF EventoSegueReserva, Agendado
    <2>1. CASE evento[x].reserva = s
        BY <1>2, <2>1 DEF IInv, EventoSegueReserva
    <2>2. CASE evento[x].reserva # s
        BY <1>2, <1>4, <2>2 DEF IInv, EventoSegueReserva
    <2> QED
        BY <2>1, <2>2
<1>10. MarcacoesNaoSeCruzam'
    <2> SUFFICES ASSUME NEW x \in Manuais, NEW y \in Manuais, x # y,
                        Agendado(evento[x]), Agendado(evento[y]), evento[x].dia = evento[y].dia,
                        Candidato(evento[x])' \cap Candidato(evento[y])' # {}
                 PROVE  \E r \in {evento[x].reserva, evento[y].reserva} \ {Nenhum} :
                            reserva'[r].realocada
        BY <1>1 DEF MarcacoesNaoSeCruzam, Agendado
    <2>1. Candidato(evento[x]) \cap Candidato(evento[y]) # {} /\ x \in Eventos /\ y \in Eventos
        BY <1>5
    <2>2. PICK r \in {evento[x].reserva, evento[y].reserva} \ {Nenhum} : reserva[r].realocada
        BY <2>1 DEF IInv, MarcacoesNaoSeCruzam
    <2>3. r \in Estadias
        BY <1>4, <2>1, <2>2
    <2> QED
        BY <1>2, <2>2, <2>3
<1> QED
    BY <1>3, <1>7, <1>8, <1>9, <1>10 DEF IInv

LEMMA MantemAmanhecer == ASSUME IInv, Amanhecer PROVE IInv'
<1>1. hoje' = hoje + 1 /\ UNCHANGED <<horario, reserva, evento, pedido>> /\ hoje \in Nat
    BY DEF Amanhecer, IInv, TypeOK
<1>2. TypeOK' /\ Exclusao' /\ AutomaticosSeus' /\ QuemEstaEntrou' /\ EventoSegueReserva'
    BY <1>1 DEF IInv, TypeOK, Exclusao, AutomaticosSeus, QuemEstaEntrou, EventoSegueReserva, Agendado
<1>3. MarcacoesNaoSeCruzam'
    BY <1>1 DEF IInv, MarcacoesNaoSeCruzam, Agendado, Candidato, UnidadesDaReserva
<1>4. AutomaticoNoHorario'
    <2>1. \A x \in Automaticos : evento[x].dia \in Nat
        BY DEF IInv, TypeOK, Evento, Eventos
    <2> QED
        BY <1>1, <2>1 DEF IInv, AutomaticoNoHorario, Agendado
<1>5. TodosSabem'
    <2> SUFFICES ASSUME NEW p \in Pedidos PROVE Sabe(pedido[p])'
        BY DEF TodosSabem
    <2>1. PICK r \in Pedido : r = pedido[p] /\ r = pedido'[p] /\ Sabe(r)
        BY <1>1 DEF IInv, TypeOK, TodosSabem
    <2>2. SabeHora(r)'
        BY <1>1, <2>1 DEF Sabe, SabeHora, Pedido
    <2>3. /\ SabeReserva(r)' /\ SabeEvento(r)' /\ SabeVinculo(r)'
        BY <1>1, <2>1 DEF Sabe, SabeReserva, SabeEvento, SabeVinculo, TravarEventos, EventosDaReserva
    <2>4. SabeUnidades(r)'
        BY <1>1, <2>1 DEF Sabe, SabeUnidades, UnitConflicts, Candidato, UnidadesDaReserva, Realocada
    <2> QED
        BY <2>1, <2>2, <2>3, <2>4 DEF Sabe
<1> QED
    BY <1>2, <1>3, <1>4, <1>5 DEF IInv

LEMMA ComecaEmIInv == ASSUME Init PROVE IInv
<1>1. TypeOK
    BY AusenteTipado, LivreTipado DEF Init, TypeOK, Reserva, Estados
<1>2. \A p \in Pedidos : pedido[p] = Livre
    BY DEF Init
<1>3. \A x \in Eventos : evento[x] = EventoAusente
    BY DEF Init
<1>4. Exclusao
    BY <1>2, LivreTipado DEF Exclusao
<1>5. TodosSabem
    BY <1>1, <1>2, LivreSabe DEF TodosSabem
<1>6. AutomaticosSeus /\ AutomaticoNoHorario
    BY <1>3, AusenteTipado DEF AutomaticosSeus, AutomaticoNoHorario, Agendado, Eventos
<1>7. EventoSegueReserva
    BY <1>3, AusenteTipado DEF EventoSegueReserva, Agendado
<1>8. MarcacoesNaoSeCruzam
    BY <1>3, AusenteTipado DEF MarcacoesNaoSeCruzam, Agendado, Eventos
<1>9. QuemEstaEntrou
    BY DEF Init, QuemEstaEntrou
<1> QED
    BY <1>1, <1>4, <1>5, <1>6, <1>7, <1>8, <1>9 DEF IInv

LEMMA MantemIInv == ASSUME IInv, [Next]_vars PROVE IInv'
<1>1. CASE UNCHANGED vars
    <2>1. UNCHANGED <<hoje, horario, reserva, evento, pedido>>
        BY <1>1 DEF vars
    <2>2. CASE \E p \in Pedidos : TRUE
        <3>1. PICK p \in Pedidos : TRUE
            BY <2>2
        <3>2. PICK n \in Pedido : n = pedido[p] /\ Sabe(n)
            BY DEF IInv, TypeOK, TodosSabem
        <3>3. Concedidas(p, n.travas)
            BY <3>2 DEF IInv, Exclusao, Concedidas
        <3>4. pedido' = [pedido EXCEPT ![p] = n]
            BY <2>1, <3>2 DEF IInv, TypeOK
        <3> QED
            BY <2>1, <3>2, <3>3, <3>4, SoAndou DEF SoPedido
    <2>3. CASE ~\E p \in Pedidos : TRUE
        <3>1. TypeOK' /\ AutomaticosSeus' /\ QuemEstaEntrou' /\ EventoSegueReserva' /\ AutomaticoNoHorario'
            BY <2>1 DEF IInv, TypeOK, AutomaticosSeus, QuemEstaEntrou, EventoSegueReserva,
               AutomaticoNoHorario, Agendado
        <3>2. MarcacoesNaoSeCruzam'
            BY <2>1 DEF IInv, MarcacoesNaoSeCruzam, Agendado, Candidato, UnidadesDaReserva
        <3>3. Exclusao' /\ TodosSabem'
            BY <2>3 DEF Exclusao, TodosSabem
        <3> QED
            BY <3>1, <3>2, <3>3 DEF IInv
    <2> QED
        BY <2>2, <2>3
<1>2. ASSUME NEW s \in Estadias, ExpirarLote(s) PROVE IInv'
    BY <1>2, MantemExpirarLote
<1>3. CASE Amanhecer
    BY <1>3, MantemAmanhecer
<1>4. ASSUME NEW p \in Pedidos,
             \/ Criar(p) \/ Vincular(p) \/ ConferirUnidade(p) \/ Gravar(p) \/ Preparar(p)
             \/ TravarEventosDaRealocacao(p) \/ Passo(p) \/ GravarConfiguracao(p)
             \/ PreencherReservasConfirmadas(p) \/ Cair(p)
      PROVE  IInv'
    BY <1>4, MantemCriar, MantemVincular, MantemConferirUnidade, MantemGravar, MantemPreparar,
       MantemTravarEventosDaRealocacao, MantemPasso, MantemGravarConfiguracao, MantemPreencher,
       MantemCair
<1>5. ASSUME NEW p \in Pedidos, NEW x \in Eventos, Editar(p, x) PROVE IInv'
    BY <1>5, MantemEditar
<1>6. ASSUME NEW p \in Pedidos, NEW dia \in DiaDoPedido,
             \/ \E x \in Eventos, acao \in {"concluir", "desmarcar"} : Transitar(p, dia, x, acao)
             \/ \E r \in Estadias, op \in DaReserva : TravarReserva(p, dia, r, op)
             \/ \E h \in Horarios : TravarConfiguracao(p, dia, h)
             \/ ReservasParaPreencher(p, dia)
      PROVE  IInv'
    BY <1>6, MantemTransitar, MantemTravarReserva, MantemTravarConfiguracao,
       MantemReservasParaPreencher
<1> QED
    BY <1>1, <1>2, <1>3, <1>4, <1>5, <1>6 DEF Next

LEMMA SempreIInv == Spec => []IInv
BY ComecaEmIInv, MantemIInv, PTL DEF Spec

\* A scheduled event marked by hand is in the unit of its reservation, and nothing
\* stays scheduled for a reservation cancelled without a guest: no link is written
\* to a reservation that a step changed after it was checked (conferirVinculos,
\* AoCancelar, AoRealocar).
THEOREM EventoSempreSegue == Spec => []EventoSegueReserva
BY SempreIInv, PTL DEF IInv

\* No automatic event from today on is at hours that were replaced: every step of a
\* reservation commits under the lock of the hours it read, and who replaces them
\* takes along every event that was at the old ones (preparar, GravarConfiguracao).
THEOREM HorarioSempreOVigente == Spec => []AutomaticoNoHorario
BY SempreIInv, PTL DEF IInv

\* Two markings by hand do not meet in a unit unless a reassignment brought them
\* together, even where the constraint does not see one of them (TravarUnidades).
THEOREM MarcacoesNuncaSeCruzam == Spec => []MarcacoesNaoSeCruzam
BY SempreIInv, PTL DEF IInv
=============================================================================
