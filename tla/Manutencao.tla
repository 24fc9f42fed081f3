----------------------------- MODULE Manutencao -----------------------------
(***************************************************************************)
(* Maintenance orders of one unit, the calendar block an order may hold    *)
(* and the damage report it may come from (modules/manutencao,             *)
(* domain/maintenance, and the damage half of modules/bens).               *)
(*                                                                         *)
(* Every request is one READ COMMITTED transaction.  Its statements are    *)
(* the steps below; the row and advisory locks it holds are in `travas',   *)
(* its writes appear at once when it commits, and a constraint of the      *)
(* calendar that meets somebody's uncommitted row waits for that           *)
(* transaction.  `dia' is the day of now(), which PostgreSQL fixes when    *)
(* the transaction begins.  Sales and the manual blocks of /blocks are the *)
(* other writers of the unit's calendar (stay_blocks).                     *)
(***************************************************************************)
EXTENDS Integers, FiniteSets

CONSTANTS Ordens,         \* rows of maintenance_orders
          Avarias,        \* rows of inventory_issues
          Blocos,         \* rows of stay_blocks of the unit
          Pedidos,        \* requests in course at the same time
          Nenhum,         \* NULL
          UltimoDia,      \* bound: last day the clock reaches
          Janelas         \* bound: the periods people and sales ask for

\* What a row of the calendar may be.
Linhas == [estado : {"ausente", "confirmed", "cancelled"}, origem : {"order", "sale"},
           de : Nat, ate : Nat]

ASSUME ManutencaoAssumption ==
    /\ UltimoDia \in Nat
    /\ Janelas \subseteq {p \in [de : 0..UltimoDia, ate : 1..(UltimoDia + 1)] : p.de < p.ate}
    /\ Nenhum \notin Ordens \cup Avarias \cup Blocos \cup Pedidos \cup Janelas \cup Linhas

VARIABLES hoje, ordem, bloco, avaria, pedido

vars == <<hoje, ordem, bloco, avaria, pedido>>

Dias == 0..UltimoDia
Abertas  == {"aberta", "em_andamento"}
Fechadas == {"concluida", "cancelada"}
DeOrdem  == {"iniciar", "concluir", "cancelar", "bloquear", "soltar"}

OrdemAusente == [estado |-> "ausente", avaria |-> Nenhum, bloco |-> Nenhum]
BlocoAusente == [estado |-> "ausente", origem |-> "order",
                 de |-> 0, ate |-> 0]
Livre == [op |-> "nenhuma", etapa |-> "livre", ordem |-> Nenhum,
          avaria |-> Nenhum, bloco |-> Nenhum, periodo |-> Nenhum,
          dia |-> 0, travas |-> {}]

Init ==
    /\ hoje = 0
    /\ ordem  = [o \in Ordens  |-> OrdemAusente]
    /\ bloco  = [b \in Blocos  |-> BlocoAusente]
    /\ avaria = [a \in Avarias |-> "nenhum"]
    /\ pedido = [p \in Pedidos |-> Livre]

----------------------------------------------------------------------------
(* domain/maintenance: pure rules.                                         *)

Vivo(b) == b.estado = "confirmed"
Cruza(x, y) == x.de < y.ate /\ y.de < x.ate

\* The transition an action makes, or "recusada".
Next_(estado, acao) ==
    CASE acao = "iniciar"  /\ estado = "aberta"   -> "em_andamento"
      [] acao = "concluir" /\ estado \in Abertas  -> "concluida"
      [] acao = "cancelar" /\ estado \in Abertas  -> "cancelada"
      [] OTHER                                    -> "recusada"

\* Anything but the cost may change only while the order is not closed.
CheckEdit(estado) == estado \in Abertas

\* A cancelled row: nothing reads its dates any more.
Cancelado(b) == [b EXCEPT !.estado = "cancelled", !.de = 0, !.ate = 0]

\* What is left of a block that is given back on `dia': kept when it is over,
\* dropped when it has not begun, cut at `dia' when it is under way.
ReleaseOn(b, dia) ==
    CASE ~Vivo(b) \/ b.ate <= dia -> b
      [] Vivo(b) /\ b.ate > dia /\ b.de >= dia -> Cancelado(b)
      [] OTHER -> [b EXCEPT !.ate = dia]

\* What a request for period `p' means for the order's current block (Nenhum
\* when it never had one): create, change, nada, or recusada.
Replan(atual, p, dia) ==
    LET vivo == atual # Nenhum /\ Vivo(atual) /\ atual.ate > dia
    IN  CASE ~vivo -> IF p.de < dia THEN "recusada" ELSE "criar"
          [] vivo /\ atual.de < dia /\ (p.de # atual.de \/ p.ate < dia) -> "recusada"
          [] vivo /\ atual.de >= dia /\ p.de < dia -> "recusada"
          [] vivo /\ p.de = atual.de /\ p.ate = atual.ate -> "nada"
          [] OTHER -> "alterar"

----------------------------------------------------------------------------
(* Transactions, locks and what an uncommitted row makes others wait for.  *)

Outros(p) == Pedidos \ {p}
TravadoPor(r, p) == {q \in Outros(p) : r \in pedido[q].travas}

\* The calendar rows a transaction has written and not committed: periods its
\* old and new tuples cover.
PeriodosEmVoo(q) ==
    LET r == pedido[q]
        velho == IF r.bloco # Nenhum /\ Vivo(bloco[r.bloco])
                 THEN {bloco[r.bloco]} ELSE {}
    IN  CASE r.etapa = "excluir" -> velho \cup {r.periodo}
          [] r.etapa \in {"consertar", "comitar"}
                  /\ r.op \in {"concluir", "cancelar", "soltar"} -> velho
          [] OTHER -> {}

\* Transactions whose uncommitted rows the exclusion constraint must wait for.
EsperaExclusao(p, periodo) ==
    {q \in Outros(p) : \E x \in PeriodosEmVoo(q) : Cruza(x, periodo)}

\* The partial unique index waits for an uncommitted order of the same damage
\* report, being inserted or being closed.
EsperaIndice(p, a) ==
    {q \in Outros(p) :
        \/ pedido[q].op = "criar" /\ pedido[q].ordem # Nenhum
           /\ pedido[q].avaria = a
        \/ pedido[q].op \in DeOrdem
           /\ pedido[q].etapa = "comitar"
           /\ ordem[pedido[q].ordem].avaria = a}

\* Whom the next statement of the transaction waits for.
Espera(p) ==
    LET r == pedido[p] IN
    CASE r.etapa = "fila"    -> TravadoPor(<<"calendario", Nenhum>>, p)
      [] r.etapa = "ordem"   -> TravadoPor(<<"ordem", r.ordem>>, p)
      [] r.etapa = "inserir_ordem" ->
            IF r.avaria = Nenhum THEN {}
            ELSE EsperaIndice(p, r.avaria) \cup TravadoPor(<<"avaria", r.avaria>>, p)
      [] r.etapa = "excluir" -> EsperaExclusao(p, r.periodo)
      [] r.etapa = "consertar" /\ avaria[r.avaria] = "nenhum" ->
            TravadoPor(<<"avaria", r.avaria>>, p) \cup TravadoPor(<<"conserto", r.avaria>>, p)
      [] r.etapa = "avaria"  -> UNION {TravadoPor(<<t, r.avaria>>, p) :
                                       t \in {"avaria", "conserto", "chave"}}
      [] r.etapa = "restringir" ->
            UNION {TravadoPor(<<"ordem", o>>, p) :
                   o \in {x \in Ordens : ordem[x].avaria = r.avaria}}
      [] OTHER -> {}

Pronto(p, etapa) == pedido[p].etapa = etapa /\ Espera(p) = {}
Seguir(p, novo) == pedido' = [pedido EXCEPT ![p] = novo]
Terminar(p) == pedido' = [pedido EXCEPT ![p] = Livre]
SoPedido == UNCHANGED <<hoje, ordem, bloco, avaria>>

----------------------------------------------------------------------------
(* A request begins: now() is fixed, nothing is locked.                    *)

\* Who opens an order with a period queues for the unit's calendar before anything else.
PrimeiraEtapa(periodo) == IF periodo = Nenhum THEN "inserir_ordem" ELSE "fila"

Nova(op, etapa, o, a, periodo) ==
    [op |-> op, etapa |-> etapa, ordem |-> o, avaria |-> a, bloco |-> Nenhum,
     periodo |-> periodo, dia |-> hoje, travas |-> {}]

Comecar(p) ==
    /\ pedido[p] = Livre
    /\ \/ \E a \in Avarias \cup {Nenhum}, periodo \in Janelas \cup {Nenhum} :
             Seguir(p, Nova("criar", PrimeiraEtapa(periodo), Nenhum, a, periodo))
       \/ \E op \in DeOrdem, o \in {x \in Ordens : ordem[x].estado # "ausente"} :
             Seguir(p, Nova(op, "ordem", o, Nenhum, Nenhum))
       \/ \E op \in {"resolver", "apagar"}, a \in Avarias :
             Seguir(p, Nova(op, "avaria", Nenhum, a, Nenhum))
    /\ SoPedido

\* Who writes a period goes on to the order's row, or straight to the calendar.
DepoisDaFila(r) == IF r.op = "criar" THEN "inserir_ordem" ELSE "excluir"

\* Mutant: requests for the same unit's calendar do not queue.
SemFila(p) ==
    /\ Pronto(p, "fila")
    /\ Seguir(p, [pedido[p] EXCEPT !.etapa = DepoisDaFila(pedido[p])])
    /\ SoPedido

\* The unit's advisory lock: who writes periods queues here.
TravarCalendarioDaUnidade(p) ==
    /\ Pronto(p, "fila")
    /\ Seguir(p, [pedido[p] EXCEPT !.etapa = DepoisDaFila(pedido[p]),
                   !.travas = @ \cup {<<"calendario", Nenhum>>}])
    /\ SoPedido

----------------------------------------------------------------------------
(* Opening an order.                                                       *)

\* An open order for the damage report, or a report that is gone, refuses.
AvariaOcupada(a) ==
    /\ a # Nenhum
    /\ \/ avaria[a] = "ausente"
       \/ \E o \in Ordens : ordem[o].avaria = a /\ ordem[o].estado \in Abertas

\* INSERT ... ON CONFLICT DO NOTHING; the foreign key keeps the report in place.
\* The unit of a period is read without a lock: an inactive one refuses.
CriarOrdem(p) ==
    /\ Pronto(p, "inserir_ordem")
    /\ LET r == pedido[p] IN
       IF \/ AvariaOcupada(r.avaria)
          \/ r.periodo # Nenhum /\ Replan(Nenhum, r.periodo, r.dia) = "recusada"
       THEN Terminar(p)
       ELSE \E o \in Ordens :
              /\ ordem[o].estado = "ausente"
              /\ \A q \in Outros(p) : pedido[q].ordem # o
              /\ Seguir(p, [r EXCEPT !.ordem = o,
                   !.travas = @ \cup {<<"ordem", o>>}
                        \cup (IF r.avaria = Nenhum THEN {} ELSE {<<"chave", r.avaria>>}),
                   !.etapa = IF r.periodo = Nenhum THEN "comitar" ELSE "excluir"])
    /\ SoPedido

----------------------------------------------------------------------------
(* Acting on an order: its row is locked first and read then.              *)

BlocoDa(o) == IF ordem[o].bloco = Nenhum THEN Nenhum ELSE bloco[ordem[o].bloco]

\* Mutant: the state is the one seen before waiting for the row.
AceitaSemReler(op, o) == TRUE

\* Whether the locked order accepts the request.
Aceita(op, o) ==
    IF op \in {"bloquear", "soltar"} THEN CheckEdit(ordem[o].estado)
    ELSE Next_(ordem[o].estado, op) # "recusada"

\* The order's block, when giving it back on `dia' changes it.
BlocoASoltar(o, dia) ==
    IF BlocoDa(o) # Nenhum /\ ReleaseOn(BlocoDa(o), dia) # BlocoDa(o)
    THEN ordem[o].bloco ELSE Nenhum

\* The locked block decides between a new row, a new period and nothing.
Bloquear(p, preso) ==
    \E periodo \in Janelas :
        LET decisao == Replan(BlocoDa(preso.ordem), periodo, preso.dia) IN
        IF decisao \in {"recusada", "nada"} THEN Terminar(p)
        ELSE Seguir(p, [preso EXCEPT !.etapa = "fila", !.periodo = periodo,
                !.bloco = IF decisao = "criar" THEN Nenhum ELSE ordem[preso.ordem].bloco])

\* The calendar first, the damage report after it, then the commit.
Encerrar(p, preso) ==
    LET solto == [preso EXCEPT !.bloco = BlocoASoltar(preso.ordem, preso.dia)]
        a == ordem[preso.ordem].avaria
    IN  IF preso.op = "concluir" /\ a # Nenhum
        THEN Seguir(p, [solto EXCEPT !.etapa = "consertar", !.avaria = a])
        ELSE Seguir(p, [solto EXCEPT !.etapa = "comitar"])

TravarOrdem(p) ==
    /\ Pronto(p, "ordem")
    /\ LET r == pedido[p]
           preso == [r EXCEPT !.travas = @ \cup {<<"ordem", r.ordem>>}]
       IN  CASE ~Aceita(r.op, r.ordem) -> Terminar(p)
             [] Aceita(r.op, r.ordem) /\ r.op = "bloquear" -> Bloquear(p, preso)
             [] Aceita(r.op, r.ordem) /\ r.op = "iniciar" ->
                   Seguir(p, [preso EXCEPT !.etapa = "comitar"])
             [] OTHER -> Encerrar(p, preso)
    /\ SoPedido

\* UPDATE ... WHERE resolution IS NULL: waits for whoever holds the report's row,
\* and does not touch a report that already has an outcome.
ConsertarAvaria(p) ==
    /\ Pronto(p, "consertar")
    /\ LET r == pedido[p]
           tocada == IF avaria[r.avaria] = "nenhum" THEN {<<"conserto", r.avaria>>} ELSE {}
       IN  Seguir(p, [r EXCEPT !.etapa = "comitar", !.travas = @ \cup tocada])
    /\ SoPedido

----------------------------------------------------------------------------
(* The damage report in the hands of a person (modules/bens).              *)

TravarAvaria(p) ==
    /\ Pronto(p, "avaria")
    /\ LET r == pedido[p] IN
       IF avaria[r.avaria] = "ausente" THEN Terminar(p)
       ELSE Seguir(p, [r EXCEPT !.travas = @ \cup {<<"avaria", r.avaria>>},
                       !.etapa = IF r.op = "apagar" THEN "restringir" ELSE "comitar"])
    /\ SoPedido

\* ON DELETE RESTRICT: an order that cites the report, closed or not, keeps it.
ApagarAvaria(p) ==
    /\ Pronto(p, "restringir")
    /\ LET r == pedido[p] IN
       IF \E o \in Ordens : ordem[o].avaria = r.avaria
       THEN Terminar(p) ELSE Seguir(p, [r EXCEPT !.etapa = "comitar"])
    /\ SoPedido

----------------------------------------------------------------------------
(* Commit: all the writes of the transaction at once.                      *)

\* The outcome a person chose wins over the one the order implies.
Consertada(a) == IF avaria[a] = "nenhum" THEN "consertado" ELSE avaria[a]

\* A new stay_blocks row, which the order points to from now on.
NovoBloco(r, o) ==
    \E b \in Blocos :
        /\ bloco[b].estado = "ausente"
        /\ bloco' = [bloco EXCEPT ![b] = [estado |-> "confirmed", origem |-> "order",
                                  de |-> r.periodo.de, ate |-> r.periodo.ate]]
        /\ ordem' = [ordem EXCEPT ![r.ordem] = [o EXCEPT !.bloco = b]]

\* The order's block after it is given back.
Solto(r) == IF r.bloco = Nenhum THEN bloco
            ELSE [bloco EXCEPT ![r.bloco] = ReleaseOn(bloco[r.bloco], r.dia)]

CriarBloco(r) ==
    /\ LET nova == [OrdemAusente EXCEPT !.estado = "aberta", !.avaria = r.avaria]
       IN  IF r.op = "criar" THEN NovoBloco(r, nova)
           ELSE NovoBloco(r, ordem[r.ordem])
    /\ UNCHANGED avaria

MudarPeriodo(r) ==
    /\ bloco' = [bloco EXCEPT ![r.bloco].de = r.periodo.de, ![r.bloco].ate = r.periodo.ate]
    /\ UNCHANGED <<ordem, avaria>>

OcupadoPorOutro(r) ==
    \E b \in Blocos \ {r.bloco} : Vivo(bloco[b]) /\ Cruza(bloco[b], r.periodo)

\* stay_no_overlap: a committed live row in the way is a conflict of dates; so is
\* an inactive unit for a new row.  Otherwise the period is written.
ConferirExclusao(p) ==
    /\ Pronto(p, "excluir")
    /\ Terminar(p)
    /\ UNCHANGED hoje
    /\ LET r == pedido[p] IN
       \/ /\ r.bloco = Nenhum \/ OcupadoPorOutro(r)
          /\ UNCHANGED <<ordem, bloco, avaria>>
       \/ /\ ~OcupadoPorOutro(r)
          /\ IF r.bloco = Nenhum THEN CriarBloco(r) ELSE MudarPeriodo(r)

Comitar(p) ==
    /\ pedido[p].etapa = "comitar"
    /\ Terminar(p)
    /\ UNCHANGED hoje
    /\ LET r == pedido[p] IN
       \/ /\ r.op = "criar"
          /\ ordem' = [ordem EXCEPT ![r.ordem] =
                          [OrdemAusente EXCEPT !.estado = "aberta", !.avaria = r.avaria]]
          /\ UNCHANGED <<bloco, avaria>>
       \/ /\ r.op = "iniciar"
          /\ ordem' = [ordem EXCEPT ![r.ordem].estado = Next_(@, r.op)]
          /\ UNCHANGED <<bloco, avaria>>
       \/ /\ r.op \in {"concluir", "cancelar"}
          /\ ordem' = [ordem EXCEPT ![r.ordem].estado = Next_(@, r.op)]
          /\ bloco' = Solto(r)
          /\ avaria' = IF r.avaria = Nenhum THEN avaria
                       ELSE [avaria EXCEPT ![r.avaria] = Consertada(r.avaria)]
       \/ /\ r.op = "soltar" /\ bloco' = Solto(r) /\ UNCHANGED <<ordem, avaria>>
       \/ /\ r.op \in {"resolver", "apagar"}
          /\ \E d \in IF r.op = "apagar" THEN {"ausente"} ELSE {"nenhum", "pessoa"} :
                avaria' = [avaria EXCEPT ![r.avaria] = d]
          /\ UNCHANGED <<ordem, bloco>>

----------------------------------------------------------------------------
(* What ends a transaction without a commit.                               *)

\* A crash, a lost connection or lock_timeout (55P03) on a statement that waits:
\* everything is rolled back.  The retry of TxManager.Do begins again with a new
\* now(), so it is the same as another request (Comecar).
Cair(p) == pedido[p] # Livre /\ Terminar(p) /\ SoPedido

----------------------------------------------------------------------------
(* The rest of the house.                                                  *)

\* A sale takes free nights from today on.
Ocupar(periodo) ==
    /\ periodo.de >= hoje
    /\ \A q \in Pedidos : \A x \in PeriodosEmVoo(q) : ~Cruza(x, periodo)
    /\ \A b \in Blocos : Vivo(bloco[b]) => ~Cruza(bloco[b], periodo)
    /\ \E b \in Blocos :
         /\ bloco[b].estado = "ausente"
         /\ bloco' = [bloco EXCEPT ![b] = [estado |-> "confirmed", origem |-> "sale",
                                          de |-> periodo.de, ate |-> periodo.ate]]
    /\ UNCHANGED <<hoje, ordem, avaria, pedido>>

\* Mutant: DELETE /blocks does not ask whether the maintenance is over.
LiberavelAindaQueTerminada(b) ==
    /\ Vivo(bloco[b])
    /\ \A o \in Ordens : ordem[o].bloco # b

\* DELETE /blocks refuses an order's block and maintenance already over.
Liberavel(b) ==
    /\ Vivo(bloco[b])
    /\ \A o \in Ordens : ordem[o].bloco # b
    /\ bloco[b].origem # "sale" => bloco[b].ate > hoje

LiberarBloqueio(b) ==
    /\ Liberavel(b)
    /\ bloco' = [bloco EXCEPT ![b] = Cancelado(@)]
    /\ UNCHANGED <<hoje, ordem, avaria, pedido>>

Amanhecer ==
    /\ hoje < UltimoDia
    /\ hoje' = hoje + 1
    /\ UNCHANGED <<ordem, bloco, avaria, pedido>>

Next ==
    \/ \E p \in Pedidos :
         \/ Comecar(p) \/ TravarCalendarioDaUnidade(p)
         \/ CriarOrdem(p) \/ TravarOrdem(p) \/ ConferirExclusao(p)
         \/ ConsertarAvaria(p) \/ TravarAvaria(p)
         \/ ApagarAvaria(p) \/ Comitar(p) \/ Cair(p)
    \/ \E x \in Janelas : Ocupar(x)
    \/ \E b \in Blocos : LiberarBloqueio(b)
    \/ Amanhecer

Spec == Init /\ [][Next]_vars

----------------------------------------------------------------------------
(* Properties.                                                             *)

\* A closed order never holds a night of the calendar from today on: its block
\* is released, or ended by the day the order was closed, whoever was waiting for the order's row to
\* ask for another period (service.go, encerrar and Bloquear).
EncerradaNaoBloqueia ==
    \A o \in Ordens :
        ordem[o].estado \in Fechadas /\ ordem[o].bloco # Nenhum
        => LET b == bloco[ordem[o].bloco]
           IN  ~Vivo(b) \/ b.ate <= hoje

Noite(b, n) == Vivo(b) /\ b.de <= n /\ n < b.ate

\* A night already past, for the clock and for every transaction in course, is
\* neither given back nor blocked afterwards on a row that belonged to an order
\* (domain/maintenance/block.go, "noite que ja passou nao muda"): not by
\* closing, rescheduling, releasing, nor by DELETE /blocks on a row no order
\* points to any more.
PassadoIntocado ==
    [][\A b \in {x \in Blocos : bloco'[x] # bloco[x]}, n \in 0..(hoje - 1) :
          /\ bloco'[b].origem = "order"
          /\ \A p \in Pedidos : pedido[p] # Livre => n < pedido[p].dia
          => (Noite(bloco[b], n) <=> Noite(bloco'[b], n))]_vars

\* Two requests wait for each other only when one of them deletes a damage
\* report that the other's order cites: the requests that write the unit's
\* calendar queue, and whoever holds the queue waits for no order that waits
\* for it (repository.go, TravarCalendarioDaUnidade).
SoApagarSeCruza ==
    \A p \in Pedidos : \A q \in Espera(p) :
        p \in Espera(q) => "apagar" \in {pedido[p].op, pedido[q].op}
=============================================================================
