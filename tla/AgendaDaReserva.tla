-------------------------- MODULE AgendaDaReserva --------------------------
(***************************************************************************)
(* What each step of a reservation does to the three automatic events it   *)
(* keeps on the operational agenda: check-in, check-out and cleaning       *)
(* (domain/agenda/reservation.go).  The hooks are pure functions of the    *)
(* events, so they are operators here; Reservas calls them inside the      *)
(* reservation's own transaction, as reservas.AgendaDaReserva does.        *)
(*                                                                         *)
(* An agenda is a record: the status of each event and the day of the      *)
(* cleaning, the only window whose day another guest depends on.           *)
(***************************************************************************)
EXTENDS Integers

EstadoDoEvento == {"ausente", "agendado", "concluido", "cancelado"}

Agenda == [entrada    : EstadoDoEvento,
           saida      : EstadoDoEvento,
           limpeza    : EstadoDoEvento,
           diaLimpeza : Int]

SemAgenda == [entrada |-> "ausente", saida |-> "ausente",
              limpeza |-> "ausente", diaLimpeza |-> 0]

\* A confirmed stay plans the three events; cleaning is on the day of leaving.
Plan(estadia) == [entrada |-> "agendado", saida |-> "agendado",
                  limpeza |-> "agendado", diaLimpeza |-> estadia.ate]

SeAgendado(evento, novo) == IF evento = "agendado" THEN novo ELSE evento

\* The registered arrival completes a scheduled check-in; no window moves.
OnCheckIn(a) == [a EXCEPT !.entrada = SeAgendado(a.entrada, "concluido")]

\* A scheduled cleaning still planned for after `dia' is brought to `dia'.
TrazerLimpeza(a, dia) ==
    IF a.limpeza = "agendado" /\ a.diaLimpeza > dia
    THEN [a EXCEPT !.diaLimpeza = dia]
    ELSE a

\* The registered departure completes the check-out; leaving before the
\* contracted day brings the cleaning to the day the unit emptied.
OnCheckOut(a, dia, estadia) ==
    LET concluida == [a EXCEPT !.saida = SeAgendado(a.saida, "concluido")]
    IN  IF dia < estadia.ate THEN TrazerLimpeza(concluida, dia) ELSE concluida

\* Cancelling before arrival cancels what was scheduled; with the guest inside
\* the check-out is cancelled and the cleaning comes to today.
OnCancel(a, hospedado, hoje) ==
    LET semEntrada == [a EXCEPT !.entrada = SeAgendado(a.entrada, "cancelado"),
                                !.saida   = SeAgendado(a.saida, "cancelado")]
    IN  IF hospedado
        THEN TrazerLimpeza(semEntrada, hoje)
        ELSE [semEntrada EXCEPT !.limpeza = SeAgendado(a.limpeza, "cancelado")]
=============================================================================
