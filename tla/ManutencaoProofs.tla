-------------------------- MODULE ManutencaoProofs --------------------------
(***************************************************************************)
(* What the orders of a unit never do to its calendar, for any number of   *)
(* orders, damage reports, blocks, requests and days.                      *)
(*                                                                         *)
(* The inductive invariant has three layers.  Etapa and Travas say, of one *)
(* request by itself, what it has asked for and which locks it holds at    *)
(* each of its statements.  CalendarioDeUm and OrdemDeUm say that two of   *)
(* them never hold the unit's calendar, or the same order, together.  Leu  *)
(* says that what a request read under its locks is still true, and it is  *)
(* preserved because of the other two.                                     *)
(***************************************************************************)
EXTENDS Manutencao, TLAPS

Periodos == [de : Nat, ate : Nat]
Ops      == DeOrdem \cup {"nenhuma", "criar", "resolver", "apagar"}
Etapas   == {"livre", "fila", "inserir_ordem", "excluir", "ordem", "consertar",
             "avaria", "restringir", "comitar"}
Chaves   == {"calendario", "ordem", "conserto", "avaria", "chave"}
             \X (Ordens \cup Avarias \cup {Nenhum})
FichasDeOrdem == [estado : {"ausente"} \cup Abertas \cup Fechadas,
                  avaria : Avarias \cup {Nenhum}, bloco : Blocos \cup {Nenhum}]
Requisicoes == [op : Ops, etapa : Etapas, ordem : Ordens \cup {Nenhum},
                avaria : Avarias \cup {Nenhum}, bloco : Blocos \cup {Nenhum},
                periodo : Janelas \cup {Nenhum}, dia : Nat, travas : SUBSET Chaves]

TypeOK ==
    /\ hoje \in Nat
    /\ ordem \in [Ordens -> FichasDeOrdem]
    /\ bloco \in [Blocos -> Linhas]
    /\ avaria \in [Avarias -> {"nenhum", "pessoa", "consertado", "ausente"}]
    /\ pedido \in [Pedidos -> Requisicoes]

\* Where a request may be, by what it asks for.
Etapa(r) ==
    \/ r = Livre
    \/ /\ r.op = "criar" /\ r.bloco = Nenhum
       /\ \/ r.etapa = "fila" /\ r.periodo # Nenhum /\ r.ordem = Nenhum
          \/ r.etapa = "inserir_ordem" /\ r.ordem = Nenhum
          \/ /\ r.etapa = "excluir" /\ r.ordem # Nenhum
             /\ r.periodo # Nenhum /\ r.periodo.de >= r.dia
          \/ r.etapa = "comitar" /\ r.ordem # Nenhum
    \/ /\ r.op \in DeOrdem /\ r.ordem # Nenhum
       /\ \/ r.etapa = "ordem"
          \/ r.op = "bloquear" /\ r.etapa \in {"fila", "excluir"} /\ r.periodo # Nenhum
          \/ r.op = "concluir" /\ r.etapa = "consertar" /\ r.avaria # Nenhum
          \/ r.op # "bloquear" /\ r.etapa = "comitar"
    \/ /\ r.op \in {"resolver", "apagar"} /\ r.avaria # Nenhum /\ r.ordem = Nenhum
       /\ \/ r.etapa \in {"avaria", "comitar"}
          \/ r.op = "apagar" /\ r.etapa = "restringir"

\* Which locks it holds there.
Travas(r) ==
    /\ <<"calendario", Nenhum>> \in r.travas
         <=> r.etapa \in {"inserir_ordem", "excluir"} /\ r.periodo # Nenhum
    /\ \A o \in Ordens : <<"ordem", o>> \in r.travas <=> r.ordem = o /\ r.etapa # "ordem"
    /\ \A a \in Avarias :
         /\ <<"avaria", a>> \in r.travas
              => r.op \in {"resolver", "apagar"} /\ r.etapa \in {"restringir", "comitar"}
         /\ <<"conserto", a>> \in r.travas => r.etapa = "comitar"
         /\ <<"chave", a>> \in r.travas => r.op = "criar" /\ r.ordem # Nenhum

\* The queue of the unit's calendar has one request past it at a time.
CalendarioDeUm ==
    \A p, q \in Pedidos :
        /\ <<"calendario", Nenhum>> \in pedido[p].travas
        /\ <<"calendario", Nenhum>> \in pedido[q].travas
        => p = q

\* A locked order is of one request.
OrdemDeUm ==
    \A p, q \in Pedidos, o \in Ordens :
        <<"ordem", o>> \in pedido[p].travas /\ <<"ordem", o>> \in pedido[q].travas => p = q

\* What a request read about the order it holds is what the rows still say.
Leu(r) ==
    /\ r.dia <= hoje
    /\ r.op = "criar" /\ r.ordem # Nenhum => ordem[r.ordem].bloco = Nenhum
    /\ r.op \in DeOrdem /\ r.etapa # "ordem" => Aceita(r.op, r.ordem)
    /\ r.op \in {"concluir", "cancelar", "soltar"} /\ r.etapa # "ordem"
         => r.bloco = BlocoASoltar(r.ordem, r.dia)
    /\ r.op = "bloquear" /\ r.etapa # "ordem"
         => /\ Replan(BlocoDa(r.ordem), r.periodo, r.dia) \in {"criar", "alterar"}
            /\ r.bloco = IF Replan(BlocoDa(r.ordem), r.periodo, r.dia) = "criar"
                         THEN Nenhum ELSE ordem[r.ordem].bloco

\* An order points to a row of its own, written by an order, once it exists.
BlocoProprio ==
    /\ \A o \in Ordens : ordem[o].estado = "ausente" => ordem[o].bloco = Nenhum
    /\ \A o \in Ordens : ordem[o].bloco # Nenhum =>
          bloco[ordem[o].bloco].estado # "ausente" /\ bloco[ordem[o].bloco].origem = "order"
    /\ \A o, x \in Ordens : ordem[o].bloco = ordem[x].bloco /\ ordem[o].bloco # Nenhum => o = x

\* A row of an order that still blocks a night to come is the block of some order.
SemOrfao ==
    \A b \in Blocos : Vivo(bloco[b]) /\ bloco[b].origem = "order" /\ bloco[b].ate > hoje
        => \E o \in Ordens : ordem[o].bloco = b

Pedidas == \A p \in Pedidos : Etapa(pedido[p]) /\ Travas(pedido[p])
Lidas   == \A p \in Pedidos : Leu(pedido[p])

IInv ==
    /\ TypeOK /\ Pedidas /\ CalendarioDeUm /\ OrdemDeUm /\ Lidas
    /\ BlocoProprio /\ SemOrfao /\ EncerradaNaoBloqueia

----------------------------------------------------------------------------
(* Lemmas on one request and on the rows it reads.                         *)

\* A free request fits everywhere.
LEMMA LivreServe == TypeOK => Livre \in Requisicoes /\ Etapa(Livre) /\ Travas(Livre) /\ Leu(Livre)
<1>1. Livre \in Requisicoes
  BY DEF Livre, Requisicoes, Ops, Etapas
<1>2. Etapa(Livre)
  BY DEF Etapa
<1>3. Travas(Livre)
  BY ManutencaoAssumption DEF Travas, Livre, ManutencaoAssumption
<1>4. TypeOK => Leu(Livre)
  BY DEF Leu, Livre, TypeOK, DeOrdem
<1>5. QED
  BY <1>1, <1>2, <1>3, <1>4

\* What an order's row and block decide does not change while neither changes.
LEMMA LeuIgual ==
    ASSUME NEW r \in Requisicoes, Leu(r), hoje' >= hoje, TypeOK, hoje' \in Nat,
           r.ordem \in Ordens /\ (r.op = "criar" \/ r.etapa # "ordem") =>
              /\ ordem'[r.ordem] = ordem[r.ordem]
              /\ ordem[r.ordem].bloco # Nenhum =>
                    bloco'[ordem[r.ordem].bloco] = bloco[ordem[r.ordem].bloco],
           Etapa(r)
    PROVE  Leu(r)'
<1>1. r.dia <= hoje'
  BY DEF Leu, TypeOK, Requisicoes
<1>2. CASE r.op = "criar" \/ (r.op \in DeOrdem /\ r.etapa # "ordem" /\ r.ordem # Nenhum)
  <2>1. CASE r.ordem = Nenhum
    BY <1>1, <1>2, <2>1 DEF Leu, DeOrdem
  <2>2. CASE r.ordem # Nenhum
    <3>1. r.ordem \in Ordens /\ ordem'[r.ordem] = ordem[r.ordem]
      BY <2>2, <1>2 DEF Requisicoes
    <3>2. BlocoDa(r.ordem)' = BlocoDa(r.ordem)
      BY <3>1, <1>2 DEF BlocoDa
    <3>3. Aceita(r.op, r.ordem)' = Aceita(r.op, r.ordem)
      BY <3>1 DEF Aceita
    <3>4. BlocoASoltar(r.ordem, r.dia)' = BlocoASoltar(r.ordem, r.dia)
      BY <3>1, <3>2 DEF BlocoASoltar
    <3>5. QED
      BY <1>1, <3>1, <3>2, <3>3, <3>4 DEF Leu
  <2>3. QED
    BY <2>1, <2>2
<1>3. CASE ~(r.op = "criar" \/ (r.op \in DeOrdem /\ r.etapa # "ordem" /\ r.ordem # Nenhum))
  <2>1. r.op \notin DeOrdem \/ r.etapa = "ordem"
    BY <1>3 DEF Etapa, Livre, DeOrdem
  <2>2. QED
    BY <1>1, <1>3, <2>1 DEF Leu, DeOrdem
<1>4. QED
  BY <1>2, <1>3

\* A request moves on and no row changes.
LEMMA SeguirMantem ==
    ASSUME IInv, NEW p \in Pedidos, NEW r \in Requisicoes,
           pedido' = [pedido EXCEPT ![p] = r], SoPedido,
           Etapa(r), Travas(r), Leu(r),
           <<"calendario", Nenhum>> \in r.travas =>
              \A q \in Outros(p) : <<"calendario", Nenhum>> \notin pedido[q].travas,
           \A o \in Ordens : <<"ordem", o>> \in r.travas =>
              \A q \in Outros(p) : <<"ordem", o>> \notin pedido[q].travas
    PROVE  IInv'
<1>1. hoje' = hoje /\ ordem' = ordem /\ bloco' = bloco /\ avaria' = avaria
  BY DEF SoPedido
<1>2. /\ pedido' \in [Pedidos -> Requisicoes] /\ pedido'[p] = r
      /\ \A q \in Outros(p) : pedido'[q] = pedido[q]
  BY DEF IInv, TypeOK, Outros
<1>3. TypeOK'
  BY <1>1, <1>2 DEF IInv, TypeOK
<1>4. Pedidas'
  BY <1>1, <1>2 DEF IInv, Pedidas, Outros, Etapa, Travas
<1>5. CalendarioDeUm'
  BY <1>2 DEF IInv, CalendarioDeUm, Outros
<1>6. OrdemDeUm'
  BY <1>2 DEF IInv, OrdemDeUm, Outros
<1>7. Lidas'
  <2>1. ASSUME NEW q \in Pedidos PROVE Leu(pedido[q])' = Leu(pedido'[q])
    BY <1>1 DEF Leu, Aceita, BlocoDa, BlocoASoltar
  <2>2. QED
    BY <1>2, <2>1 DEF IInv, Lidas, Outros
<1>8. BlocoProprio' /\ SemOrfao' /\ EncerradaNaoBloqueia'
  BY <1>1 DEF IInv, BlocoProprio, SemOrfao, EncerradaNaoBloqueia
<1>9. QED
  BY <1>3, <1>4, <1>5, <1>6, <1>7, <1>8 DEF IInv

\* Nobody else holds what the statement was waiting for.
LEMMA Esperou ==
    ASSUME NEW p \in Pedidos, NEW t, TravadoPor(t, p) = {}
    PROVE  \A q \in Outros(p) : t \notin pedido[q].travas
BY DEF TravadoPor

\* The request it is: what the invariant says of it.
LEMMA DoPedido ==
    ASSUME IInv, NEW p \in Pedidos
    PROVE  /\ pedido[p] \in Requisicoes /\ Etapa(pedido[p]) /\ Travas(pedido[p]) /\ Leu(pedido[p])
           /\ <<"calendario", Nenhum>> \in pedido[p].travas =>
                 \A q \in Outros(p) : <<"calendario", Nenhum>> \notin pedido[q].travas
           /\ \A o \in Ordens : <<"ordem", o>> \in pedido[p].travas =>
                 \A q \in Outros(p) : <<"ordem", o>> \notin pedido[q].travas
BY DEF IInv, TypeOK, Pedidas, Lidas, CalendarioDeUm, OrdemDeUm, Outros

----------------------------------------------------------------------------
(* The statements that change no row.                                      *)

\* A request is born with nothing locked and nothing read.
LEMMA Nasce ==
    ASSUME IInv, NEW p \in Pedidos, SoPedido,
           NEW op \in Ops, NEW etapa \in Etapas, NEW o \in Ordens \cup {Nenhum},
           NEW a \in Avarias \cup {Nenhum}, NEW periodo \in Janelas \cup {Nenhum},
           Seguir(p, Nova(op, etapa, o, a, periodo)),
           \/ op = "criar" /\ o = Nenhum /\ etapa = PrimeiraEtapa(periodo)
           \/ op \in DeOrdem /\ etapa = "ordem" /\ o # Nenhum
           \/ op \in {"resolver", "apagar"} /\ etapa = "avaria" /\ o = Nenhum /\ a # Nenhum
    PROVE  IInv'
<1> DEFINE r == Nova(op, etapa, o, a, periodo)
<1>1. r = [op |-> op, etapa |-> etapa, ordem |-> o, avaria |-> a, bloco |-> Nenhum,
           periodo |-> periodo, dia |-> hoje, travas |-> {}]
  BY DEF Nova
<1>2. r \in Requisicoes
  BY <1>1 DEF Requisicoes, IInv, TypeOK
<1>3. Etapa(r)
  BY <1>1 DEF Etapa, PrimeiraEtapa
<1>4. Travas(r)
  BY <1>1, ManutencaoAssumption DEF Travas, ManutencaoAssumption, PrimeiraEtapa, DeOrdem
<1>5. Leu(r)
  BY <1>1 DEF Leu, DeOrdem, IInv, TypeOK
<1>6. r.travas = {} /\ pedido' = [pedido EXCEPT ![p] = r]
  BY <1>1 DEF Seguir
<1> HIDE DEF r
<1>7. QED
  BY <1>2, <1>3, <1>4, <1>5, <1>6, SeguirMantem

LEMMA PassoComecar ==
    ASSUME IInv, NEW p \in Pedidos, Comecar(p)
    PROVE  IInv'
<1>1. SoPedido
  BY DEF Comecar
<1>2. ASSUME NEW a \in Avarias \cup {Nenhum}, NEW periodo \in Janelas \cup {Nenhum},
             Seguir(p, Nova("criar", PrimeiraEtapa(periodo), Nenhum, a, periodo))
      PROVE  IInv'
  BY <1>1, <1>2, Nasce DEF PrimeiraEtapa, Ops, Etapas
<1>3. ASSUME NEW op \in DeOrdem, NEW o \in Ordens, Seguir(p, Nova(op, "ordem", o, Nenhum, Nenhum))
      PROVE  IInv'
  BY <1>1, <1>3, Nasce, ManutencaoAssumption DEF ManutencaoAssumption, Ops, Etapas
<1>4. ASSUME NEW op \in {"resolver", "apagar"}, NEW a \in Avarias,
             Seguir(p, Nova(op, "avaria", Nenhum, a, Nenhum))
      PROVE  IInv'
  BY <1>1, <1>4, Nasce, ManutencaoAssumption DEF ManutencaoAssumption, Ops, Etapas
<1>5. QED
  BY <1>2, <1>3, <1>4 DEF Comecar

LEMMA PassoFila ==
    ASSUME IInv, NEW p \in Pedidos, TravarCalendarioDaUnidade(p)
    PROVE  IInv'
<1> DEFINE v == pedido[p]
           r == [v EXCEPT !.etapa = DepoisDaFila(v), !.travas = @ \cup {<<"calendario", Nenhum>>}]
<1>1. v.etapa = "fila" /\ Espera(p) = {} /\ pedido' = [pedido EXCEPT ![p] = r] /\ SoPedido
  BY DEF TravarCalendarioDaUnidade, Pronto, Seguir
<1>2. \A q \in Outros(p) : <<"calendario", Nenhum>> \notin pedido[q].travas
  BY <1>1, Esperou DEF Espera
<1>3. /\ v \in Requisicoes /\ Etapa(v) /\ Travas(v) /\ Leu(v)
      /\ \A o \in Ordens : <<"ordem", o>> \in v.travas =>
            \A q \in Outros(p) : <<"ordem", o>> \notin pedido[q].travas
  BY DoPedido
<1> HIDE DEF v
<1> DEFINE u == [v EXCEPT !.etapa = DepoisDaFila(v)]
<1>11. u \in Requisicoes
  BY <1>3 DEF Requisicoes, Etapas, DepoisDaFila
<1>12. <<"calendario", Nenhum>> \in Chaves
  BY DEF Chaves
<1>4. /\ r.op = v.op /\ r.ordem = v.ordem /\ r.avaria = v.avaria /\ r.bloco = v.bloco
      /\ r.periodo = v.periodo /\ r.dia = v.dia
      /\ r.travas = v.travas \cup {<<"calendario", Nenhum>>} /\ r.etapa = DepoisDaFila(v)
      /\ r \in Requisicoes
  BY <1>3, <1>12, <1>11 DEF Requisicoes
<1> HIDE DEF r
<1>5. v.op \in {"criar", "bloquear"} /\ v.periodo # Nenhum
  BY <1>1, <1>3 DEF Etapa, Livre
<1>6. Etapa(r)
  BY <1>1, <1>3, <1>4, <1>5 DEF Etapa, Livre, DepoisDaFila, DeOrdem
<1>7. Travas(r)
  BY <1>1, <1>3, <1>4, <1>5 DEF Travas, DepoisDaFila, DeOrdem
<1>8. Leu(r)
  BY <1>1, <1>3, <1>4, <1>5 DEF Leu, DepoisDaFila, DeOrdem
<1>9. \A o \in Ordens : <<"ordem", o>> \in r.travas => <<"ordem", o>> \in v.travas
  BY <1>4
<1>10. QED
  BY <1>1, <1>2, <1>3, <1>4, <1>6, <1>7, <1>8, <1>9, SeguirMantem

LEMMA PassoCair ==
    ASSUME IInv, NEW p \in Pedidos, Cair(p)
    PROVE  IInv'
<1>1. Livre.travas = {}
  BY DEF Livre
<1>2. QED
  BY <1>1, LivreServe, SeguirMantem DEF Cair, Terminar, IInv

\* A request at the next stage, with more locks: its fields.
Andou(v, e, T) == [v EXCEPT !.etapa = e, !.travas = @ \cup T]

LEMMA Campos ==
    ASSUME NEW v \in Requisicoes, NEW e \in Etapas, NEW T \in SUBSET Chaves, NEW r, r = Andou(v, e, T)
    PROVE  /\ r \in Requisicoes
           /\ r.op = v.op /\ r.ordem = v.ordem /\ r.avaria = v.avaria /\ r.bloco = v.bloco
           /\ r.periodo = v.periodo /\ r.dia = v.dia /\ r.etapa = e
           /\ r.travas = v.travas \cup T
<1> DEFINE u == [v EXCEPT !.etapa = e]
<1>1. u \in Requisicoes /\ u.travas = v.travas
  BY DEF Requisicoes
<1>2. r = [u EXCEPT !.travas = v.travas \cup T]
  BY <1>1 DEF Andou
<1>3. /\ u.op = v.op /\ u.ordem = v.ordem /\ u.avaria = v.avaria /\ u.bloco = v.bloco
      /\ u.periodo = v.periodo /\ u.dia = v.dia /\ u.etapa = e
  BY DEF Requisicoes
<1> HIDE DEF u
<1>4. QED
  BY <1>1, <1>2, <1>3 DEF Requisicoes

\* The statement after which only the stage and the locks of a request change.
LEMMA Avanca ==
    ASSUME IInv, NEW p \in Pedidos, NEW e \in Etapas, NEW T \in SUBSET Chaves,
           SoPedido, NEW r \in Requisicoes,
           r = Andou(pedido[p], e, T),
           pedido' = [pedido EXCEPT ![p] = r],
           <<"calendario", Nenhum>> \notin T,
           \A o \in Ordens : <<"ordem", o>> \in T =>
               \A q \in Outros(p) : <<"ordem", o>> \notin pedido[q].travas,
           Etapa(r), Travas(r), Leu(r)
    PROVE  IInv'
<1> DEFINE v == pedido[p]
<1>1. /\ v \in Requisicoes
      /\ <<"calendario", Nenhum>> \in v.travas =>
            \A q \in Outros(p) : <<"calendario", Nenhum>> \notin pedido[q].travas
      /\ \A o \in Ordens : <<"ordem", o>> \in v.travas =>
            \A q \in Outros(p) : <<"ordem", o>> \notin pedido[q].travas
  BY DoPedido
<1> HIDE DEF v
<1>2. r.travas = v.travas \cup T
  BY <1>1, Campos DEF v
<1>3. QED
  BY <1>1, <1>2, SeguirMantem

LEMMA PassoAvaria ==
    ASSUME IInv, NEW p \in Pedidos, TravarAvaria(p)
    PROVE  IInv'
<1> DEFINE v == pedido[p]
           e == IF v.op = "apagar" THEN "restringir" ELSE "comitar"
           r == [v EXCEPT !.travas = @ \cup {<<"avaria", v.avaria>>}, !.etapa = e]
<1>1. v \in Requisicoes /\ Etapa(v) /\ Travas(v) /\ Leu(v) /\ v.etapa = "avaria" /\ SoPedido
  BY DoPedido DEF TravarAvaria, Pronto
<1>2. CASE pedido' = [pedido EXCEPT ![p] = Livre]
  BY <1>1, <1>2, LivreServe, SeguirMantem DEF IInv, Livre
<1>3. CASE pedido' = [pedido EXCEPT ![p] = r]
  <2> HIDE DEF v
  <2>1. r = Andou(v, e, {<<"avaria", v.avaria>>})
    BY DEF Andou
  <2>2. v.op \in {"resolver", "apagar"} /\ v.avaria \in Avarias /\ v.ordem = Nenhum
    BY <1>1 DEF Etapa, Livre, DeOrdem, Requisicoes
  <2>3. e \in Etapas /\ {<<"avaria", v.avaria>>} \in SUBSET Chaves
    BY <2>2 DEF Etapas, Chaves
  <2> HIDE DEF e, r
  <2>4. /\ r \in Requisicoes
        /\ r.op = v.op /\ r.ordem = v.ordem /\ r.avaria = v.avaria /\ r.bloco = v.bloco
        /\ r.periodo = v.periodo /\ r.dia = v.dia /\ r.etapa = e
        /\ r.travas = v.travas \cup {<<"avaria", v.avaria>>}
    BY <1>1, <2>1, <2>3, Campos
  <2>5. Etapa(r)
    BY <2>2, <2>4, <1>1, ManutencaoAssumption DEF Etapa, e, ManutencaoAssumption
  <2>6. Travas(r)
    BY <2>2, <2>4, <1>1, ManutencaoAssumption DEF Travas, e, ManutencaoAssumption
  <2>7. Leu(r)
    BY <2>2, <2>4, <1>1 DEF Leu, DeOrdem
  <2>8. QED
    BY <1>1, <1>3, <2>1, <2>3, <2>4, <2>5, <2>6, <2>7, Avanca DEF v
<1>4. QED
  BY <1>2, <1>3 DEF TravarAvaria, Seguir, Terminar

LEMMA PassoApagar ==
    ASSUME IInv, NEW p \in Pedidos, ApagarAvaria(p)
    PROVE  IInv'
<1> DEFINE v == pedido[p]
           r == [v EXCEPT !.etapa = "comitar"]
<1>1. v \in Requisicoes /\ Etapa(v) /\ Travas(v) /\ Leu(v) /\ v.etapa = "restringir" /\ SoPedido
  BY DoPedido DEF ApagarAvaria, Pronto
<1>2. CASE pedido' = [pedido EXCEPT ![p] = Livre]
  BY <1>1, <1>2, LivreServe, SeguirMantem DEF IInv, Livre
<1>3. CASE pedido' = [pedido EXCEPT ![p] = r]
  <2>1. /\ r \in Requisicoes
        /\ r.op = v.op /\ r.ordem = v.ordem /\ r.avaria = v.avaria /\ r.bloco = v.bloco
        /\ r.periodo = v.periodo /\ r.dia = v.dia /\ r.etapa = "comitar"
        /\ r.travas = v.travas
    BY <1>1 DEF Requisicoes, Etapas
  <2>2. \A o \in Ordens : <<"ordem", o>> \in v.travas =>
            \A q \in Outros(p) : <<"ordem", o>> \notin pedido[q].travas
    BY DoPedido
  <2> HIDE DEF v, r
  <2>3. v.op = "apagar" /\ v.avaria # Nenhum /\ v.ordem = Nenhum
    BY <1>1 DEF Etapa, Livre, DeOrdem
  <2>4. Etapa(r)
    BY <2>1, <2>3 DEF Etapa
  <2>5. Travas(r)
    BY <2>1, <2>3, <1>1 DEF Travas
  <2>6. Leu(r)
    BY <2>1, <2>3, <1>1 DEF Leu, DeOrdem
  <2>7. <<"calendario", Nenhum>> \notin r.travas
    BY <2>1, <1>1 DEF Travas
  <2>8. QED
    BY <1>1, <1>3, <2>1, <2>2, <2>4, <2>5, <2>6, <2>7, SeguirMantem
<1>4. QED
  BY <1>2, <1>3 DEF ApagarAvaria, Seguir, Terminar

LEMMA PassoConsertar ==
    ASSUME IInv, NEW p \in Pedidos, ConsertarAvaria(p)
    PROVE  IInv'
<1> DEFINE v == pedido[p]
           T == IF avaria[v.avaria] = "nenhum" THEN {<<"conserto", v.avaria>>} ELSE {}
           r == [v EXCEPT !.etapa = "comitar", !.travas = @ \cup T]
<1>1. v \in Requisicoes /\ Etapa(v) /\ Travas(v) /\ Leu(v) /\ v.etapa = "consertar" /\ SoPedido
  BY DoPedido DEF ConsertarAvaria, Pronto
<1>2. pedido' = [pedido EXCEPT ![p] = r]
  BY DEF ConsertarAvaria, Seguir
<1> HIDE DEF v
<1>3. v.op = "concluir" /\ v.avaria \in Avarias /\ v.ordem \in Ordens
  BY <1>1 DEF Etapa, Livre, Requisicoes
<1>4. "comitar" \in Etapas /\ T \in SUBSET Chaves /\ (T = {} \/ T = {<<"conserto", v.avaria>>})
  BY <1>3 DEF Etapas, Chaves
<1> HIDE DEF T
<1>5. r = Andou(v, "comitar", T)
  BY DEF Andou
<1> HIDE DEF r
<1>6. /\ r \in Requisicoes
      /\ r.op = v.op /\ r.ordem = v.ordem /\ r.avaria = v.avaria /\ r.bloco = v.bloco
      /\ r.periodo = v.periodo /\ r.dia = v.dia /\ r.etapa = "comitar"
      /\ r.travas = v.travas \cup T
  BY <1>1, <1>4, <1>5, Campos
<1>7. Etapa(r)
  BY <1>1, <1>3, <1>6, ManutencaoAssumption DEF Etapa, DeOrdem, ManutencaoAssumption
<1>8. Travas(r)
  BY <1>1, <1>3, <1>4, <1>6 DEF Travas
<1>9. Leu(r)
  BY <1>1, <1>3, <1>6 DEF Leu, DeOrdem
<1>10. QED
  BY <1>1, <1>2, <1>4, <1>5, <1>6, <1>7, <1>8, <1>9, Avanca DEF v

LEMMA PassoCriarOrdem ==
    ASSUME IInv, NEW p \in Pedidos, CriarOrdem(p)
    PROVE  IInv'
<1> DEFINE v == pedido[p]
           e == IF v.periodo = Nenhum THEN "comitar" ELSE "excluir"
           K == IF v.avaria = Nenhum THEN {} ELSE {<<"chave", v.avaria>>}
<1>1. v \in Requisicoes /\ Etapa(v) /\ Travas(v) /\ Leu(v) /\ v.etapa = "inserir_ordem" /\ SoPedido
  BY DoPedido DEF CriarOrdem, Pronto
<1>2. CASE pedido' = [pedido EXCEPT ![p] = Livre]
  BY <1>1, <1>2, LivreServe, SeguirMantem DEF IInv, Livre
<1>3. ASSUME ~(v.periodo # Nenhum /\ Replan(Nenhum, v.periodo, v.dia) = "recusada"),
             NEW o \in Ordens, ordem[o].estado = "ausente",
             \A q \in Outros(p) : pedido[q].ordem # o,
             pedido' = [pedido EXCEPT ![p] = [v EXCEPT !.ordem = o,
                           !.travas = @ \cup {<<"ordem", o>>} \cup K, !.etapa = e]]
      PROVE  IInv'
  <2> DEFINE u == [v EXCEPT !.ordem = o]
             T == {<<"ordem", o>>} \cup K
             r == [v EXCEPT !.ordem = o, !.travas = @ \cup {<<"ordem", o>>} \cup K, !.etapa = e]
  <2>1. \A q \in Outros(p) : <<"ordem", o>> \notin pedido[q].travas
    BY <1>3 DEF IInv, Pedidas, Travas, Outros
  <2>2. \A q \in Outros(p) : <<"calendario", Nenhum>> \in v.travas
                               => <<"calendario", Nenhum>> \notin pedido[q].travas
    BY DoPedido
  <2> HIDE DEF v
  <2>8. v.op = "criar" /\ v.bloco = Nenhum /\ v.ordem = Nenhum
    BY <1>1 DEF Etapa, Livre, DeOrdem
  <2>3. \A x \in Ordens : <<"ordem", x>> \notin v.travas
    BY <1>1, <2>8, ManutencaoAssumption DEF Travas, ManutencaoAssumption
  <2>4. /\ u \in Requisicoes /\ u.travas = v.travas /\ u.op = v.op /\ u.ordem = o
        /\ u.avaria = v.avaria /\ u.bloco = v.bloco /\ u.periodo = v.periodo /\ u.dia = v.dia
    BY <1>1 DEF Requisicoes
  <2>5. e \in Etapas /\ T \in SUBSET Chaves
    BY <1>1 DEF Etapas, Chaves, Requisicoes
  <2>6. r = Andou(u, e, T)
    <3>1. r = [u EXCEPT !.travas = v.travas \cup T, !.etapa = e]
      OBVIOUS
    <3>2. Andou(u, e, T) = [u EXCEPT !.etapa = e, !.travas = v.travas \cup T]
      BY <2>4 DEF Andou
    <3> HIDE DEF u, T, e, r
    <3>3. [u EXCEPT !.etapa = e, !.travas = v.travas \cup T]
            = [u EXCEPT !.travas = v.travas \cup T, !.etapa = e]
      BY <2>4, <2>5 DEF Requisicoes
    <3>4. QED
      BY <3>1, <3>2, <3>3
  <2> HIDE DEF u, r, T
  <2>7. /\ r \in Requisicoes
        /\ r.op = v.op /\ r.ordem = o /\ r.avaria = v.avaria /\ r.bloco = v.bloco
        /\ r.periodo = v.periodo /\ r.dia = v.dia /\ r.etapa = e
        /\ r.travas = v.travas \cup T
    BY <2>4, <2>5, <2>6, Campos
  <2>9. v.periodo # Nenhum => v.periodo.de >= v.dia
    <3>1. v.periodo # Nenhum => v.periodo.de \in Nat /\ v.dia \in Nat
      BY <1>1, ManutencaoAssumption DEF Requisicoes, ManutencaoAssumption
    <3>2. v.periodo # Nenhum => ~(v.periodo.de < v.dia)
      BY <1>3 DEF Replan, v
    <3>3. QED
      BY <3>1, <3>2
  <2>10. Etapa(r)
    BY <2>7, <2>8, <2>9, ManutencaoAssumption DEF Etapa, ManutencaoAssumption
  <2>11. Travas(r)
    <3>1. /\ <<"calendario", Nenhum>> \in r.travas <=> <<"calendario", Nenhum>> \in v.travas
          /\ \A x \in Ordens : <<"ordem", x>> \in r.travas <=> x = o
      BY <2>3, <2>7 DEF T
    <3>2. \A a \in Avarias : /\ <<"avaria", a>> \in r.travas <=> <<"avaria", a>> \in v.travas
                             /\ <<"conserto", a>> \in r.travas <=> <<"conserto", a>> \in v.travas
      BY <2>7 DEF T
    <3>3. QED
      BY <1>1, <2>7, <2>8, <3>1, <3>2, ManutencaoAssumption DEF Travas, ManutencaoAssumption
  <2>12. Leu(r)
    BY <1>1, <1>3, <2>7, <2>8 DEF Leu, IInv, BlocoProprio, DeOrdem
  <2>13. \A x \in Ordens : <<"ordem", x>> \in r.travas => x = o
    BY <2>3, <2>7 DEF T
  <2>14. <<"calendario", Nenhum>> \in r.travas => <<"calendario", Nenhum>> \in v.travas
    BY <2>7 DEF T
  <2>15. pedido' = [pedido EXCEPT ![p] = r]
    BY <1>3 DEF r, v
  <2>16. QED
    BY <1>1, <2>1, <2>2, <2>7, <2>10, <2>11, <2>12, <2>13, <2>14, <2>15, SeguirMantem
<1>4. QED
  BY <1>2, <1>3 DEF CriarOrdem, Seguir, Terminar

\* Whoever waits for an order has nothing; afterwards, that order and nothing else.
LEMMA Prende ==
    ASSUME IInv, NEW p \in Pedidos, SoPedido, pedido[p].etapa = "ordem",
           TravadoPor(<<"ordem", pedido[p].ordem>>, p) = {},
           NEW r \in Requisicoes,
           pedido' = [pedido EXCEPT ![p] = r],
           r.travas = pedido[p].travas \cup {<<"ordem", pedido[p].ordem>>},
           r.op = pedido[p].op, r.ordem = pedido[p].ordem,
           r.etapa \in {"fila", "consertar", "comitar"},
           Etapa(r), Leu(r)
    PROVE  IInv'
<1> DEFINE v == pedido[p]
<1>1. v \in Requisicoes /\ Etapa(v) /\ Travas(v)
  BY DoPedido
<1>2. \A q \in Outros(p) : <<"ordem", v.ordem>> \notin pedido[q].travas
  BY Esperou
<1>3. v.etapa = "ordem" /\ r.travas = v.travas \cup {<<"ordem", v.ordem>>}
      /\ r.op = v.op /\ r.ordem = v.ordem
  OBVIOUS
<1> HIDE DEF v
<1>4. v.op \in DeOrdem /\ v.ordem \in Ordens
  BY <1>1, <1>3 DEF Etapa, Livre, Requisicoes
<1>5. <<"calendario", Nenhum>> \notin v.travas /\ \A x \in Ordens : <<"ordem", x>> \notin v.travas
  BY <1>1, <1>3 DEF Travas
<1>6. /\ <<"calendario", Nenhum>> \notin r.travas
      /\ \A x \in Ordens : <<"ordem", x>> \in r.travas <=> x = v.ordem
      /\ \A a \in Avarias, t \in {"avaria", "conserto", "chave"} :
            <<t, a>> \in r.travas => <<t, a>> \in v.travas
  BY <1>3, <1>5
<1>7. Travas(r)
  BY <1>1, <1>3, <1>4, <1>6 DEF Travas, DeOrdem
<1>8. \A x \in Ordens : <<"ordem", x>> \in r.travas =>
          \A q \in Outros(p) : <<"ordem", x>> \notin pedido[q].travas
  BY <1>2, <1>6
<1>9. QED
  BY <1>6, <1>7, <1>8, SeguirMantem

LEMMA PassoTravarOrdem ==
    ASSUME IInv, NEW p \in Pedidos, TravarOrdem(p)
    PROVE  IInv'
<1> DEFINE v == pedido[p]
           preso == [v EXCEPT !.travas = @ \cup {<<"ordem", v.ordem>>}]
<1>1. /\ v \in Requisicoes /\ Etapa(v) /\ Travas(v) /\ Leu(v) /\ v.etapa = "ordem" /\ SoPedido
      /\ TravadoPor(<<"ordem", v.ordem>>, p) = {}
  BY DoPedido DEF TravarOrdem, Pronto, Espera
<1>2. v.op \in DeOrdem /\ v.ordem \in Ordens /\ v.ordem # Nenhum /\ v.dia <= hoje
  <2> HIDE DEF v
  <2>1. QED
    BY <1>1 DEF Etapa, Livre, Requisicoes, Leu
<1>3. /\ preso \in Requisicoes /\ preso.op = v.op /\ preso.etapa = "ordem"
      /\ preso.ordem = v.ordem /\ preso.dia = v.dia
      /\ preso.travas = v.travas \cup {<<"ordem", v.ordem>>}
  <2> HIDE DEF v
  <2>1. <<"ordem", v.ordem>> \in Chaves
    BY <1>2 DEF Chaves
  <2>2. QED
    BY <1>1, <2>1 DEF Requisicoes
<1>4. CASE pedido' = [pedido EXCEPT ![p] = Livre]
  BY <1>1, <1>4, LivreServe, SeguirMantem DEF IInv, Livre
<1>5. CASE Aceita(v.op, v.ordem) /\ v.op = "bloquear" /\ Bloquear(p, preso)
  <2> HIDE DEF preso
  <2>1. PICK periodo \in Janelas :
            LET decisao == Replan(BlocoDa(preso.ordem), periodo, preso.dia) IN
            IF decisao \in {"recusada", "nada"} THEN Terminar(p)
            ELSE Seguir(p, [preso EXCEPT !.etapa = "fila", !.periodo = periodo,
                    !.bloco = IF decisao = "criar" THEN Nenhum ELSE ordem[preso.ordem].bloco])
    BY <1>5 DEF Bloquear
  <2> DEFINE d == Replan(BlocoDa(preso.ordem), periodo, preso.dia)
             b == IF d = "criar" THEN Nenhum ELSE ordem[preso.ordem].bloco
             u == [preso EXCEPT !.etapa = "fila"]
             w == [u EXCEPT !.periodo = periodo]
             r == [preso EXCEPT !.etapa = "fila", !.periodo = periodo, !.bloco = b]
  <2>2. CASE d \in {"recusada", "nada"}
    BY <1>4, <2>1, <2>2 DEF Terminar
  <2>3. CASE d \notin {"recusada", "nada"}
    <3>1. d \in {"criar", "alterar"}
      BY <2>3 DEF Replan
    <3>2. pedido' = [pedido EXCEPT ![p] = r]
      BY <2>1, <2>3 DEF Seguir
    <3>3. b \in Blocos \cup {Nenhum}
      BY <1>2, <1>3 DEF IInv, TypeOK, FichasDeOrdem
    <3> HIDE DEF b
    <3>4. /\ u \in Requisicoes /\ u.op = v.op /\ u.etapa = "fila" /\ u.ordem = v.ordem
          /\ u.dia = v.dia /\ u.travas = preso.travas
      BY <1>3 DEF Requisicoes, Etapas
    <3>5. r = [w EXCEPT !.bloco = b]
      OBVIOUS
    <3> HIDE DEF u
    <3>6. /\ w \in Requisicoes /\ w.op = v.op /\ w.etapa = "fila" /\ w.ordem = v.ordem
          /\ w.dia = v.dia /\ w.travas = preso.travas /\ w.periodo = periodo
      BY <3>4 DEF Requisicoes
    <3> HIDE DEF w
    <3>7. /\ r \in Requisicoes /\ r.op = v.op /\ r.etapa = "fila" /\ r.ordem = v.ordem
          /\ r.dia = v.dia /\ r.travas = preso.travas /\ r.periodo = periodo /\ r.bloco = b
      BY <3>3, <3>5, <3>6 DEF Requisicoes
    <3> HIDE DEF r, v
    <3>8. Etapa(r)
      BY <3>7, <1>2, <1>5, ManutencaoAssumption DEF Etapa, ManutencaoAssumption
    <3>9. Leu(r)
      BY <3>1, <3>7, <1>2, <1>3, <1>5 DEF Leu, b
    <3>10. QED
      BY <1>1, <1>3, <3>2, <3>7, <3>8, <3>9, Prende DEF v
  <2>4. QED
    BY <2>2, <2>3
<1>6. CASE Aceita(v.op, v.ordem) /\ v.op = "iniciar" /\ Seguir(p, [preso EXCEPT !.etapa = "comitar"])
  <2> DEFINE r == [preso EXCEPT !.etapa = "comitar"]
  <2>1. pedido' = [pedido EXCEPT ![p] = r]
    BY <1>6 DEF Seguir
  <2> HIDE DEF preso
  <2>2. /\ r \in Requisicoes /\ r.op = v.op /\ r.etapa = "comitar" /\ r.ordem = v.ordem
        /\ r.dia = v.dia /\ r.travas = preso.travas
    BY <1>3 DEF Requisicoes, Etapas
  <2> HIDE DEF r, v
  <2>3. Etapa(r)
    BY <2>2, <1>2, <1>6 DEF Etapa
  <2>4. Leu(r)
    BY <2>2, <1>2, <1>6 DEF Leu
  <2>5. QED
    BY <1>1, <1>3, <2>1, <2>2, <2>3, <2>4, Prende DEF v
<1>7. CASE /\ Aceita(v.op, v.ordem) /\ v.op \notin {"bloquear", "iniciar"}
           /\ Encerrar(p, preso)
  <2> DEFINE b == BlocoASoltar(preso.ordem, preso.dia)
             solto == [preso EXCEPT !.bloco = b]
             a == ordem[preso.ordem].avaria
             u == [solto EXCEPT !.etapa = "consertar"]
             r1 == [solto EXCEPT !.etapa = "consertar", !.avaria = a]
             r2 == [solto EXCEPT !.etapa = "comitar"]
  <2> HIDE DEF preso
  <2>1. \/ pedido' = [pedido EXCEPT ![p] = r1] /\ v.op = "concluir" /\ a # Nenhum
        \/ pedido' = [pedido EXCEPT ![p] = r2]
    BY <1>3, <1>7 DEF Encerrar, Seguir
  <2>2. b \in Blocos \cup {Nenhum} /\ a \in Avarias \cup {Nenhum}
    BY <1>2, <1>3 DEF IInv, TypeOK, FichasDeOrdem, BlocoASoltar
  <2>3. v.op \in {"concluir", "cancelar", "soltar"} /\ b = BlocoASoltar(v.ordem, v.dia)
    BY <1>2, <1>3, <1>7 DEF DeOrdem
  <2> HIDE DEF a, b
  <2>4. /\ solto \in Requisicoes /\ solto.op = v.op /\ solto.ordem = v.ordem
        /\ solto.dia = v.dia /\ solto.travas = preso.travas /\ solto.bloco = b
    BY <1>3, <2>2 DEF Requisicoes
  <2> HIDE DEF solto
  <2>5. CASE pedido' = [pedido EXCEPT ![p] = r1] /\ v.op = "concluir" /\ a # Nenhum
    <3>1. /\ u \in Requisicoes /\ u.op = v.op /\ u.ordem = v.ordem /\ u.etapa = "consertar"
          /\ u.dia = v.dia /\ u.travas = preso.travas /\ u.bloco = b
      BY <2>4 DEF Requisicoes, Etapas
    <3>2. r1 = [u EXCEPT !.avaria = a]
      OBVIOUS
    <3> HIDE DEF u
    <3>3. /\ r1 \in Requisicoes /\ r1.op = v.op /\ r1.ordem = v.ordem /\ r1.etapa = "consertar"
          /\ r1.dia = v.dia /\ r1.travas = preso.travas /\ r1.bloco = b /\ r1.avaria = a
      BY <2>2, <3>1, <3>2 DEF Requisicoes
    <3> HIDE DEF r1, v
    <3>4. Etapa(r1)
      BY <1>2, <2>5, <3>3 DEF Etapa
    <3>5. Leu(r1)
      BY <1>2, <1>7, <2>3, <3>3 DEF Leu
    <3>6. QED
      BY <1>1, <1>3, <2>5, <3>3, <3>4, <3>5, Prende DEF v
  <2>6. CASE pedido' = [pedido EXCEPT ![p] = r2]
    <3>1. /\ r2 \in Requisicoes /\ r2.op = v.op /\ r2.ordem = v.ordem /\ r2.etapa = "comitar"
          /\ r2.dia = v.dia /\ r2.travas = preso.travas /\ r2.bloco = b
      BY <2>4 DEF Requisicoes, Etapas
    <3> HIDE DEF r2, v
    <3>2. Etapa(r2)
      BY <1>2, <1>7, <3>1 DEF Etapa
    <3>3. Leu(r2)
      BY <1>2, <1>7, <2>3, <3>1 DEF Leu
    <3>4. QED
      BY <1>1, <1>3, <2>6, <3>1, <3>2, <3>3, Prende DEF v
  <2>7. QED
    BY <2>1, <2>5, <2>6
<1>8. QED
  BY <1>4, <1>5, <1>6, <1>7 DEF TravarOrdem, Terminar

----------------------------------------------------------------------------
(* The commits, which change rows.                                         *)

\* A commit touches only the order it holds and that order's block, so what the
\* other requests read stays true.
LEMMA OutrosLeram ==
    ASSUME IInv, NEW p \in Pedidos, pedido' = [pedido EXCEPT ![p] = Livre], hoje' = hoje,
           \A x \in Ordens : <<"ordem", x>> \notin pedido[p].travas =>
              /\ ordem'[x] = ordem[x]
              /\ ordem[x].bloco # Nenhum => bloco'[ordem[x].bloco] = bloco[ordem[x].bloco]
    PROVE  Pedidas' /\ CalendarioDeUm' /\ OrdemDeUm' /\ Lidas'
<1>1. /\ pedido'[p] = Livre /\ Livre.travas = {}
      /\ \A q \in Outros(p) : pedido'[q] = pedido[q]
  BY DEF IInv, TypeOK, Outros, Livre
<1>2. Pedidas'
  BY <1>1, LivreServe DEF IInv, Pedidas, Outros, Etapa, Travas
<1>3. CalendarioDeUm' /\ OrdemDeUm'
  BY <1>1 DEF IInv, CalendarioDeUm, OrdemDeUm, Outros
<1>4. ASSUME NEW q \in Outros(p) PROVE Leu(pedido[q])'
  <2>0. PICK r \in Requisicoes : r = pedido[q]
    BY DoPedido DEF Outros
  <2>1. Etapa(r) /\ Travas(r) /\ Leu(r) /\ r = pedido'[q]
    BY <1>1, <2>0, DoPedido DEF Outros
  <2>2. \A x \in Ordens : <<"ordem", x>> \in r.travas => <<"ordem", x>> \notin pedido[p].travas
    BY <2>0, DoPedido
  <2>3. hoje' >= hoje /\ hoje' \in Nat /\ TypeOK
    BY DEF IInv, TypeOK
  <2>4. r.ordem \in Ordens /\ (r.op = "criar" \/ r.etapa # "ordem") => <<"ordem", r.ordem>> \in r.travas
    BY <2>1 DEF Travas, Etapa, Livre, DeOrdem
  <2>5. r.ordem \in Ordens /\ (r.op = "criar" \/ r.etapa # "ordem") =>
              /\ ordem'[r.ordem] = ordem[r.ordem]
              /\ ordem[r.ordem].bloco # Nenhum =>
                    bloco'[ordem[r.ordem].bloco] = bloco[ordem[r.ordem].bloco]
    BY <2>2, <2>4
  <2>6. Leu(r)'
    BY <2>1, <2>3, <2>5, LeuIgual
  <2>7. QED
    BY <2>0, <2>1, <2>6 DEF Leu
<1>5. Leu(Livre)'
  BY DEF Leu, Livre, IInv, TypeOK, DeOrdem
<1>6. Lidas'
  BY <1>1, <1>4, <1>5 DEF Lidas, Outros, Leu
<1>7. QED
  BY <1>2, <1>3, <1>6

\* A new row, to which an open order points from now on, instead of the block it
\* had, which is over or given back.
LEMMA LinhaNova ==
    ASSUME IInv, NEW p \in Pedidos, pedido' = [pedido EXCEPT ![p] = Livre], hoje' = hoje,
           NEW o \in Ordens, <<"ordem", o>> \in pedido[p].travas,
           NEW f \in FichasDeOrdem, f.estado \in Abertas,
           NEW de \in Nat, NEW ate \in Nat, NEW b \in Blocos, bloco[b].estado = "ausente",
           bloco' = [bloco EXCEPT ![b] = [estado |-> "confirmed", origem |-> "order",
                                          de |-> de, ate |-> ate]],
           ordem' = [ordem EXCEPT ![o] = [f EXCEPT !.bloco = b]], avaria' = avaria,
           ordem[o].bloco # Nenhum =>
               ~Vivo(bloco[ordem[o].bloco]) \/ bloco[ordem[o].bloco].ate <= hoje
    PROVE  IInv'
<1> DEFINE g == [f EXCEPT !.bloco = b]
           n == [estado |-> "confirmed", origem |-> "order", de |-> de, ate |-> ate]
<1>1. g \in FichasDeOrdem /\ g.bloco = b /\ g.estado = f.estado
  BY DEF FichasDeOrdem
<1>2. n \in Linhas /\ n.estado = "confirmed" /\ n.origem = "order"
  BY DEF Linhas
<1>3. ordem' = [ordem EXCEPT ![o] = g] /\ bloco' = [bloco EXCEPT ![b] = n]
  OBVIOUS
<1>0. Nenhum \notin Ordens /\ Nenhum \notin Blocos /\ b # Nenhum
  BY ManutencaoAssumption DEF ManutencaoAssumption
<1> HIDE DEF g, n
<1>4. /\ ordem \in [Ordens -> FichasDeOrdem] /\ bloco \in [Blocos -> Linhas]
      /\ BlocoProprio /\ SemOrfao /\ EncerradaNaoBloqueia
  BY DEF IInv, TypeOK
<1>5. /\ ordem' \in [Ordens -> FichasDeOrdem] /\ ordem'[o] = g
      /\ \A x \in Ordens \ {o} : ordem'[x] = ordem[x]
      /\ bloco' \in [Blocos -> Linhas] /\ bloco'[b] = n
      /\ \A x \in Blocos \ {b} : bloco'[x] = bloco[x]
  BY <1>1, <1>2, <1>3, <1>4
<1>6. TypeOK'
  BY <1>5, LivreServe DEF IInv, TypeOK
<1>7. \A x \in Ordens : ordem[x].bloco \in Blocos \cup {Nenhum} /\ ordem[x].bloco # b
  BY <1>0, <1>4 DEF FichasDeOrdem, BlocoProprio
<1>8. Pedidas' /\ CalendarioDeUm' /\ OrdemDeUm' /\ Lidas'
  <2>1. \A x \in Ordens : <<"ordem", x>> \notin pedido[p].travas =>
              /\ ordem'[x] = ordem[x]
              /\ ordem[x].bloco # Nenhum => bloco'[ordem[x].bloco] = bloco[ordem[x].bloco]
    BY <1>5, <1>7
  <2>2. QED
    BY <2>1, OutrosLeram
<1>9. BlocoProprio'
  <2>1. \A x \in Ordens : ordem'[x].estado = "ausente" => ordem'[x].bloco = Nenhum
    BY <1>1, <1>4, <1>5 DEF BlocoProprio, Abertas
  <2>2. \A x \in Ordens : ordem'[x].bloco # Nenhum =>
            bloco'[ordem'[x].bloco].estado # "ausente" /\ bloco'[ordem'[x].bloco].origem = "order"
    BY <1>1, <1>2, <1>4, <1>5, <1>7 DEF BlocoProprio
  <2>3. \A x, y \in Ordens : ordem'[x].bloco = ordem'[y].bloco /\ ordem'[x].bloco # Nenhum => x = y
    BY <1>1, <1>4, <1>5, <1>7 DEF BlocoProprio
  <2>4. QED
    BY <2>1, <2>2, <2>3 DEF BlocoProprio
<1>10. SemOrfao'
  <2> SUFFICES ASSUME NEW x \in Blocos, Vivo(bloco'[x]), bloco'[x].origem = "order",
                      bloco'[x].ate > hoje'
               PROVE  \E y \in Ordens : ordem'[y].bloco = x
    BY DEF SemOrfao, Vivo
  <2>1. CASE x = b
    BY <2>1, <1>1, <1>5
  <2>2. CASE x # b
    <3>1. PICK y \in Ordens : ordem[y].bloco = x
      BY <2>2, <1>4, <1>5 DEF SemOrfao, Vivo
    <3>2. y # o
      <4>1. hoje \in Nat /\ bloco[x].ate \in Nat /\ bloco'[x] = bloco[x] /\ x # Nenhum
        BY <2>2, <1>0, <1>4, <1>5 DEF Linhas, IInv, TypeOK
      <4>2. QED
        BY <3>1, <4>1 DEF Vivo
    <3>3. QED
      BY <3>1, <3>2, <1>5
  <2>3. QED
    BY <2>1, <2>2
<1>11. EncerradaNaoBloqueia'
  <2>1. \A x \in Ordens \ {o} : ordem'[x] = ordem[x] /\ (ordem[x].bloco # Nenhum =>
            bloco'[ordem[x].bloco] = bloco[ordem[x].bloco])
    BY <1>5, <1>7
  <2>2. ordem'[o].estado \notin Fechadas
    BY <1>1, <1>5 DEF Abertas, Fechadas
  <2>3. QED
    BY <2>1, <2>2, <1>4 DEF EncerradaNaoBloqueia, Vivo
<1>12. QED
  BY <1>6, <1>8, <1>9, <1>10, <1>11 DEF IInv

\* The block of the locked order changes: its dates, when the order stays open,
\* or what is left of it.  Whatever the order becomes, if it is closed the block
\* holds no night to come.
LEMMA LinhaMudada ==
    ASSUME IInv, NEW p \in Pedidos, pedido' = [pedido EXCEPT ![p] = Livre], hoje' = hoje,
           NEW o \in Ordens, <<"ordem", o>> \in pedido[p].travas,
           NEW f \in FichasDeOrdem, f.bloco = ordem[o].bloco, f.estado # "ausente",
           ordem' = [ordem EXCEPT ![o] = f],
           avaria' \in [Avarias -> {"nenhum", "pessoa", "consertado", "ausente"}],
           bloco' \in [Blocos -> Linhas],
           \A b \in Blocos : b # ordem[o].bloco => bloco'[b] = bloco[b],
           ordem[o].bloco # Nenhum =>
               /\ bloco'[ordem[o].bloco].estado # "ausente"
               /\ bloco'[ordem[o].bloco].origem = "order"
               /\ f.estado \in Fechadas =>
                     ~Vivo(bloco'[ordem[o].bloco]) \/ bloco'[ordem[o].bloco].ate <= hoje
    PROVE  IInv'
<1>0. Nenhum \notin Ordens /\ Nenhum \notin Blocos
  BY ManutencaoAssumption DEF ManutencaoAssumption
<1>1. /\ ordem \in [Ordens -> FichasDeOrdem] /\ bloco \in [Blocos -> Linhas]
      /\ BlocoProprio /\ SemOrfao /\ EncerradaNaoBloqueia
  BY DEF IInv, TypeOK
<1>2. /\ ordem' \in [Ordens -> FichasDeOrdem] /\ ordem'[o] = f
      /\ \A x \in Ordens \ {o} : ordem'[x] = ordem[x]
      /\ \A x \in Ordens : ordem'[x].bloco = ordem[x].bloco
  BY <1>1
<1>3. TypeOK'
  BY <1>2, LivreServe DEF IInv, TypeOK
<1>4. \A x \in Ordens : ordem[x].bloco \in Blocos \cup {Nenhum}
  BY <1>1 DEF FichasDeOrdem
<1>5. \A x \in Ordens \ {o} : ordem[x].bloco # Nenhum => ordem[x].bloco # ordem[o].bloco
                                   /\ bloco'[ordem[x].bloco] = bloco[ordem[x].bloco]
  BY <1>1, <1>4 DEF BlocoProprio
<1>6. Pedidas' /\ CalendarioDeUm' /\ OrdemDeUm' /\ Lidas'
  <2>1. \A x \in Ordens : <<"ordem", x>> \notin pedido[p].travas =>
              /\ ordem'[x] = ordem[x]
              /\ ordem[x].bloco # Nenhum => bloco'[ordem[x].bloco] = bloco[ordem[x].bloco]
    BY <1>2, <1>5
  <2>2. QED
    BY <2>1, OutrosLeram
<1>7. BlocoProprio'
  <2>1. \A x \in Ordens : ordem'[x].estado = "ausente" => ordem'[x].bloco = Nenhum
    BY <1>1, <1>2 DEF BlocoProprio
  <2>2. \A x \in Ordens : ordem'[x].bloco # Nenhum =>
            bloco'[ordem'[x].bloco].estado # "ausente" /\ bloco'[ordem'[x].bloco].origem = "order"
    BY <1>1, <1>2, <1>5 DEF BlocoProprio
  <2>3. \A x, y \in Ordens : ordem'[x].bloco = ordem'[y].bloco /\ ordem'[x].bloco # Nenhum => x = y
    BY <1>1, <1>2 DEF BlocoProprio
  <2>4. QED
    BY <2>1, <2>2, <2>3 DEF BlocoProprio
<1>8. SemOrfao'
  <2> SUFFICES ASSUME NEW x \in Blocos, Vivo(bloco'[x]), bloco'[x].origem = "order",
                      bloco'[x].ate > hoje'
               PROVE  \E y \in Ordens : ordem'[y].bloco = x
    BY DEF SemOrfao, Vivo
  <2>1. CASE x = ordem[o].bloco
    BY <2>1, <1>2
  <2>2. CASE x # ordem[o].bloco
    BY <2>2, <1>1, <1>2 DEF SemOrfao, Vivo
  <2>3. QED
    BY <2>1, <2>2
<1>9. EncerradaNaoBloqueia'
  <2>1. ASSUME NEW x \in Ordens \ {o}, ordem'[x].estado \in Fechadas, ordem'[x].bloco # Nenhum
        PROVE  ~Vivo(bloco'[ordem'[x].bloco]) \/ bloco'[ordem'[x].bloco].ate <= hoje'
    BY <2>1, <1>1, <1>2, <1>5 DEF EncerradaNaoBloqueia, Vivo
  <2>2. ASSUME ordem'[o].estado \in Fechadas, ordem'[o].bloco # Nenhum
        PROVE  ~Vivo(bloco'[ordem'[o].bloco]) \/ bloco'[ordem'[o].bloco].ate <= hoje'
    BY <2>2, <1>2 DEF Vivo
  <2>3. QED
    BY <2>1, <2>2 DEF EncerradaNaoBloqueia, Vivo
<1>10. QED
  BY <1>3, <1>6, <1>7, <1>8, <1>9 DEF IInv

\* Rows of nobody: no order points to the one that changes.
LEMMA LinhaAlheia ==
    ASSUME IInv, pedido' = pedido, ordem' = ordem, avaria' = avaria, hoje' \in Nat, hoje' >= hoje,
           bloco' \in [Blocos -> Linhas],
           \A b \in Blocos : (\E o \in Ordens : ordem[o].bloco = b) => bloco'[b] = bloco[b],
           \A b \in Blocos : bloco'[b] = bloco[b] \/ ~Vivo(bloco'[b]) \/ bloco'[b].origem = "sale"
    PROVE  IInv'
<1>0. Nenhum \notin Ordens /\ Nenhum \notin Blocos /\ TypeOK
  BY ManutencaoAssumption DEF ManutencaoAssumption, IInv
<1>1. /\ ordem \in [Ordens -> FichasDeOrdem] /\ bloco \in [Blocos -> Linhas] /\ hoje \in Nat
      /\ BlocoProprio /\ SemOrfao /\ EncerradaNaoBloqueia
  BY DEF IInv, TypeOK
<1>2. \A x \in Ordens : ordem[x].bloco # Nenhum =>
          ordem[x].bloco \in Blocos /\ bloco'[ordem[x].bloco] = bloco[ordem[x].bloco]
  BY <1>1 DEF FichasDeOrdem
<1>3. TypeOK'
  BY DEF IInv, TypeOK
<1>4. Pedidas' /\ CalendarioDeUm' /\ OrdemDeUm'
  BY DEF IInv, Pedidas, CalendarioDeUm, OrdemDeUm, Etapa, Travas
<1>5. ASSUME NEW q \in Pedidos PROVE Leu(pedido[q])'
  <2>1. PICK r \in Requisicoes : r = pedido[q]
    BY DoPedido
  <2>2. Etapa(r) /\ Leu(r) /\ r = pedido'[q]
    BY <2>1, DoPedido
  <2>3. Leu(r)'
    BY <1>0, <1>2, <2>2, LeuIgual
  <2>4. QED
    BY <2>2, <2>3 DEF Leu
<1>6. Lidas'
  BY <1>5 DEF Lidas
<1>7. BlocoProprio'
  BY <1>1, <1>2 DEF BlocoProprio
<1>8. SemOrfao'
  <2> SUFFICES ASSUME NEW x \in Blocos, Vivo(bloco'[x]), bloco'[x].origem = "order",
                      bloco'[x].ate > hoje'
               PROVE  \E y \in Ordens : ordem[y].bloco = x
    BY DEF SemOrfao, Vivo
  <2>1. bloco'[x] = bloco[x]
    OBVIOUS
  <2>2. bloco[x].ate \in Nat
    BY <1>1 DEF Linhas
  <2>3. QED
    BY <1>1, <2>1, <2>2 DEF SemOrfao, Vivo
<1>9. EncerradaNaoBloqueia'
  <2> SUFFICES ASSUME NEW x \in Ordens, ordem[x].estado \in Fechadas, ordem[x].bloco # Nenhum
               PROVE  ~Vivo(bloco'[ordem[x].bloco]) \/ bloco'[ordem[x].bloco].ate <= hoje'
    BY DEF EncerradaNaoBloqueia, Vivo
  <2>1. bloco[ordem[x].bloco].ate \in Nat
    BY <1>1, <1>2 DEF Linhas
  <2>2. QED
    BY <1>1, <1>2, <2>1 DEF EncerradaNaoBloqueia, Vivo
<1>10. QED
  BY <1>3, <1>4, <1>6, <1>7, <1>8, <1>9 DEF IInv

\* A block given back on a day holds no night from that day on.
LEMMA Devolvido ==
    ASSUME NEW b \in Linhas, NEW dia \in Nat
    PROVE  /\ ReleaseOn(b, dia) \in Linhas /\ ReleaseOn(b, dia).origem = b.origem
           /\ b.estado # "ausente" => ReleaseOn(b, dia).estado # "ausente"
           /\ ~Vivo(ReleaseOn(b, dia)) \/ ReleaseOn(b, dia).ate <= dia
<1>1. CASE ~Vivo(b) \/ b.ate <= dia
  BY <1>1 DEF ReleaseOn, Linhas
<1>2. CASE Vivo(b) /\ b.ate > dia /\ b.de >= dia
  <2> DEFINE u == [b EXCEPT !.estado = "cancelled"]
             w == [u EXCEPT !.de = 0]
  <2>1. u \in Linhas /\ u.estado = "cancelled" /\ u.origem = b.origem
    BY DEF Linhas
  <2>2. Cancelado(b) = [w EXCEPT !.ate = 0]
    BY DEF Cancelado
  <2> HIDE DEF u
  <2>3. w \in Linhas /\ w.estado = "cancelled" /\ w.origem = b.origem
    BY <2>1 DEF Linhas
  <2> HIDE DEF w
  <2>4. Cancelado(b) \in Linhas /\ Cancelado(b).estado = "cancelled" /\ Cancelado(b).origem = b.origem
    BY <2>2, <2>3 DEF Linhas
  <2>5. ReleaseOn(b, dia) = Cancelado(b)
    BY <1>2 DEF ReleaseOn, Linhas
  <2>6. QED
    BY <2>4, <2>5 DEF Vivo
<1>3. CASE Vivo(b) /\ b.ate > dia /\ b.de < dia
  <2>1. ReleaseOn(b, dia) = [b EXCEPT !.ate = dia]
    BY <1>3 DEF ReleaseOn, Linhas
  <2>2. QED
    BY <2>1 DEF Linhas
<1>4. QED
  BY <1>1, <1>2, <1>3 DEF Linhas

\* What Solto leaves in the calendar, for a request that read the order's block.
LEMMA SoltoBem ==
    ASSUME IInv, NEW p \in Pedidos, pedido[p].op \in {"concluir", "cancelar", "soltar"},
           pedido[p].etapa = "comitar", NEW o \in Ordens, o = pedido[p].ordem
    PROVE  /\ Solto(pedido[p]) \in [Blocos -> Linhas]
           /\ \A b \in Blocos : b # ordem[o].bloco => Solto(pedido[p])[b] = bloco[b]
           /\ ordem[o].bloco # Nenhum =>
                /\ ordem[o].bloco \in Blocos
                /\ Solto(pedido[p])[ordem[o].bloco]
                     = ReleaseOn(bloco[ordem[o].bloco], pedido[p].dia)
                /\ Solto(pedido[p])[ordem[o].bloco].estado # "ausente"
                /\ Solto(pedido[p])[ordem[o].bloco].origem = "order"
                /\ \/ ~Vivo(Solto(pedido[p])[ordem[o].bloco])
                   \/ Solto(pedido[p])[ordem[o].bloco].ate <= hoje
<1> DEFINE r == pedido[p]
           b == ordem[o].bloco
           s == Solto(r)
<1>0. Nenhum \notin Blocos /\ Nenhum \notin Linhas
  BY ManutencaoAssumption DEF ManutencaoAssumption
<1>1. /\ bloco \in [Blocos -> Linhas] /\ b \in Blocos \cup {Nenhum} /\ hoje \in Nat
      /\ b # Nenhum => bloco[b].estado # "ausente" /\ bloco[b].origem = "order"
  BY DEF IInv, TypeOK, FichasDeOrdem, BlocoProprio
<1>2. r \in Requisicoes /\ r.dia \in Nat /\ r.dia <= hoje /\ r.bloco = BlocoASoltar(o, r.dia)
  BY DoPedido DEF Leu, Requisicoes
<1>3. CASE b = Nenhum
  <2>1. r.bloco = Nenhum
    BY <1>2, <1>3 DEF BlocoASoltar, BlocoDa
  <2>2. QED
    BY <1>1, <1>3, <2>1 DEF Solto
<1>4. CASE b # Nenhum
  <2> DEFINE x == bloco[b]
             y == ReleaseOn(x, r.dia)
  <2>1. x \in Linhas /\ b \in Blocos /\ x # Nenhum
    BY <1>0, <1>1, <1>4
  <2>2. BlocoDa(o) = x
    BY <1>4 DEF BlocoDa
  <2>3. /\ y \in Linhas /\ y.origem = "order" /\ y.estado # "ausente"
        /\ ~Vivo(y) \/ y.ate <= r.dia
    <3> HIDE DEF x, r
    <3>1. QED
      BY <1>1, <1>2, <1>4, <2>1, Devolvido DEF x
  <2>4. s[b] = y /\ \A z \in Blocos \ {b} : s[z] = bloco[z]
    <3>1. CASE y # x
      <4>1. r.bloco = b
        BY <1>2, <2>1, <2>2, <3>1 DEF BlocoASoltar
      <4>2. s = [bloco EXCEPT ![b] = y]
        BY <4>1, <1>4 DEF Solto
      <4>3. QED
        BY <4>2, <1>1, <2>1
    <3>2. CASE y = x
      <4>1. r.bloco = Nenhum
        BY <1>2, <2>1, <2>2, <3>2 DEF BlocoASoltar
      <4>2. s = bloco
        BY <4>1 DEF Solto
      <4>3. QED
        BY <4>2, <3>2
    <3>3. QED
      BY <3>1, <3>2
  <2>5. s \in [Blocos -> Linhas]
    <3>1. s = bloco \/ \E z, w : s = [bloco EXCEPT ![z] = w]
      BY DEF Solto
    <3>2. s = [z \in Blocos |-> s[z]]
      BY <3>1, <1>1
    <3>3. \A z \in Blocos : s[z] \in Linhas
      BY <2>3, <2>4, <1>1
    <3> HIDE DEF s
    <3>4. QED
      BY <3>2, <3>3
  <2>6. y.ate \in Nat
    BY <2>3 DEF Linhas
  <2>7. ~Vivo(s[b]) \/ s[b].ate <= hoje
    <3> HIDE DEF y, s, r
    <3>1. QED
      BY <1>1, <1>2, <2>3, <2>4, <2>6
  <2> HIDE DEF x, y, s
  <2>8. QED
    BY <1>4, <2>1, <2>3, <2>4, <2>5, <2>7 DEF x, y, s
<1>5. QED
  BY <1>3, <1>4

\* A request at its commit, or writing its period, holds the order it is about.
LEMMA NoFim ==
    ASSUME IInv, NEW p \in Pedidos, pedido[p].etapa \in {"comitar", "excluir"}
    PROVE  /\ pedido[p].op \in DeOrdem \cup {"criar"} =>
                 pedido[p].ordem \in Ordens /\ <<"ordem", pedido[p].ordem>> \in pedido[p].travas
           /\ pedido[p].op \in DeOrdem => Aceita(pedido[p].op, pedido[p].ordem)
           /\ pedido[p].op = "criar" => ordem[pedido[p].ordem].bloco = Nenhum
           /\ pedido[p].dia \in Nat /\ pedido[p].dia <= hoje
<1> DEFINE r == pedido[p]
<1>1. r \in Requisicoes /\ Etapa(r) /\ Travas(r) /\ Leu(r) /\ r.etapa \in {"comitar", "excluir"}
  BY DoPedido
<1> HIDE DEF r
<1>2. r.op \in DeOrdem \cup {"criar"} => r.ordem # Nenhum
  BY <1>1 DEF Etapa, Livre, DeOrdem
<1>3. r.op \in DeOrdem \cup {"criar"} => r.ordem \in Ordens /\ <<"ordem", r.ordem>> \in r.travas
  BY <1>1, <1>2 DEF Travas, Requisicoes
<1>4. /\ r.op \in DeOrdem => Aceita(r.op, r.ordem)
      /\ r.op = "criar" => ordem[r.ordem].bloco = Nenhum
      /\ r.dia \in Nat /\ r.dia <= hoje
  BY <1>1, <1>2 DEF Leu, Requisicoes
<1>5. QED
  BY <1>3, <1>4 DEF r

LEMMA ComitarCriar ==
    ASSUME IInv, NEW p \in Pedidos, pedido[p].etapa = "comitar", Terminar(p), UNCHANGED hoje,
           pedido[p].op = "criar",
           ordem' = [ordem EXCEPT ![pedido[p].ordem] =
                        [OrdemAusente EXCEPT !.estado = "aberta", !.avaria = pedido[p].avaria]],
           UNCHANGED <<bloco, avaria>>
    PROVE  IInv'
<1>1. PICK o \in Ordens : /\ o = pedido[p].ordem /\ <<"ordem", o>> \in pedido[p].travas
                          /\ ordem[o].bloco = Nenhum
  BY NoFim
<1> DEFINE a == pedido[p].avaria
           f == [OrdemAusente EXCEPT !.estado = "aberta", !.avaria = a]
<1>2. a \in Avarias \cup {Nenhum}
  BY DoPedido DEF Requisicoes
<1>3. ordem' = [ordem EXCEPT ![o] = f] /\ pedido' = [pedido EXCEPT ![p] = Livre]
  BY <1>1 DEF Terminar
<1> HIDE DEF a
<1>4. f \in FichasDeOrdem /\ f.bloco = Nenhum /\ f.estado = "aberta"
  BY <1>2 DEF FichasDeOrdem, OrdemAusente, Abertas
<1> HIDE DEF f
<1>5. bloco' = bloco /\ bloco \in [Blocos -> Linhas]
      /\ avaria' \in [Avarias -> {"nenhum", "pessoa", "consertado", "ausente"}]
  BY DEF IInv, TypeOK
<1>6. QED
  BY <1>1, <1>3, <1>4, <1>5, LinhaMudada

LEMMA ComitarIniciar ==
    ASSUME IInv, NEW p \in Pedidos, pedido[p].etapa = "comitar", Terminar(p), UNCHANGED hoje,
           pedido[p].op = "iniciar",
           ordem' = [ordem EXCEPT ![pedido[p].ordem].estado = Next_(@, pedido[p].op)],
           UNCHANGED <<bloco, avaria>>
    PROVE  IInv'
<1>1. PICK o \in Ordens : /\ o = pedido[p].ordem /\ <<"ordem", o>> \in pedido[p].travas
                          /\ Aceita("iniciar", o)
  BY NoFim DEF DeOrdem
<1> DEFINE e == Next_(ordem[o].estado, "iniciar")
           f == [ordem[o] EXCEPT !.estado = e]
<1>2. e = "em_andamento"
  BY <1>1 DEF Aceita, Next_
<1>3. ordem' = [ordem EXCEPT ![o] = f] /\ pedido' = [pedido EXCEPT ![p] = Livre]
  BY <1>1 DEF Terminar
<1> HIDE DEF e
<1>4. f \in FichasDeOrdem /\ f.bloco = ordem[o].bloco /\ f.estado = "em_andamento"
  BY <1>2 DEF FichasDeOrdem, Abertas, IInv, TypeOK
<1> HIDE DEF f
<1>5. /\ bloco' = bloco /\ bloco \in [Blocos -> Linhas]
      /\ avaria' \in [Avarias -> {"nenhum", "pessoa", "consertado", "ausente"}]
      /\ ordem[o].bloco # Nenhum => bloco[ordem[o].bloco].estado # "ausente"
                                    /\ bloco[ordem[o].bloco].origem = "order"
  BY DEF IInv, TypeOK, BlocoProprio
<1>6. QED
  BY <1>1, <1>3, <1>4, <1>5, LinhaMudada DEF Fechadas

LEMMA ComitarEncerrar ==
    ASSUME IInv, NEW p \in Pedidos, pedido[p].etapa = "comitar", Terminar(p), UNCHANGED hoje,
           pedido[p].op \in {"concluir", "cancelar"},
           ordem' = [ordem EXCEPT ![pedido[p].ordem].estado = Next_(@, pedido[p].op)],
           bloco' = Solto(pedido[p]),
           avaria' = IF pedido[p].avaria = Nenhum THEN avaria
                     ELSE [avaria EXCEPT ![pedido[p].avaria] = Consertada(pedido[p].avaria)]
    PROVE  IInv'
<1>1. PICK o \in Ordens : /\ o = pedido[p].ordem /\ <<"ordem", o>> \in pedido[p].travas
                          /\ Aceita(pedido[p].op, o)
  BY NoFim DEF DeOrdem
<1> DEFINE e == Next_(ordem[o].estado, pedido[p].op)
           f == [ordem[o] EXCEPT !.estado = e]
<1>2. e \in Fechadas
  BY <1>1 DEF Aceita, Next_, Fechadas
<1>3. ordem' = [ordem EXCEPT ![o] = f] /\ pedido' = [pedido EXCEPT ![p] = Livre]
  BY <1>1 DEF Terminar
<1> HIDE DEF e
<1>4. f \in FichasDeOrdem /\ f.bloco = ordem[o].bloco /\ f.estado \in Fechadas
  BY <1>2 DEF FichasDeOrdem, IInv, TypeOK
<1> HIDE DEF f
<1>5. avaria' \in [Avarias -> {"nenhum", "pessoa", "consertado", "ausente"}]
  <2>1. pedido[p].avaria \in Avarias \cup {Nenhum}
    BY DoPedido DEF Requisicoes
  <2>2. avaria \in [Avarias -> {"nenhum", "pessoa", "consertado", "ausente"}]
    BY DEF IInv, TypeOK
  <2>3. QED
    BY <2>1, <2>2 DEF Consertada
<1>6. /\ bloco' \in [Blocos -> Linhas]
      /\ \A b \in Blocos : b # ordem[o].bloco => bloco'[b] = bloco[b]
      /\ ordem[o].bloco # Nenhum =>
                /\ bloco'[ordem[o].bloco].estado # "ausente"
                /\ bloco'[ordem[o].bloco].origem = "order"
                /\ ~Vivo(bloco'[ordem[o].bloco]) \/ bloco'[ordem[o].bloco].ate <= hoje
  BY <1>1, SoltoBem
<1>7. f.estado # "ausente"
  BY <1>4 DEF Fechadas
<1>8. QED
  BY <1>1, <1>3, <1>4, <1>5, <1>6, <1>7, LinhaMudada

LEMMA ComitarSoltar ==
    ASSUME IInv, NEW p \in Pedidos, pedido[p].etapa = "comitar", Terminar(p), UNCHANGED hoje,
           pedido[p].op = "soltar", bloco' = Solto(pedido[p]), UNCHANGED <<ordem, avaria>>
    PROVE  IInv'
<1>1. PICK o \in Ordens : /\ o = pedido[p].ordem /\ <<"ordem", o>> \in pedido[p].travas
                          /\ Aceita("soltar", o)
  BY NoFim DEF DeOrdem
<1> DEFINE f == ordem[o]
<1>2. /\ ordem' = [ordem EXCEPT ![o] = f] /\ pedido' = [pedido EXCEPT ![p] = Livre]
      /\ f \in FichasDeOrdem /\ f.estado # "ausente" /\ f.bloco = ordem[o].bloco
  BY <1>1 DEF Terminar, IInv, TypeOK, Aceita, CheckEdit, Abertas
<1>3. avaria' \in [Avarias -> {"nenhum", "pessoa", "consertado", "ausente"}]
  BY DEF IInv, TypeOK
<1>4. /\ bloco' \in [Blocos -> Linhas]
      /\ \A b \in Blocos : b # ordem[o].bloco => bloco'[b] = bloco[b]
      /\ ordem[o].bloco # Nenhum =>
                /\ bloco'[ordem[o].bloco].estado # "ausente"
                /\ bloco'[ordem[o].bloco].origem = "order"
                /\ ~Vivo(bloco'[ordem[o].bloco]) \/ bloco'[ordem[o].bloco].ate <= hoje
  BY <1>1, SoltoBem
<1> HIDE DEF f
<1>5. QED
  BY <1>1, <1>2, <1>3, <1>4, LinhaMudada

LEMMA ComitarAvaria ==
    ASSUME IInv, NEW p \in Pedidos, pedido[p].etapa = "comitar", Terminar(p), UNCHANGED hoje,
           NEW d \in {"ausente", "nenhum", "pessoa"},
           avaria' = [avaria EXCEPT ![pedido[p].avaria] = d],
           UNCHANGED <<ordem, bloco>>
    PROVE  IInv'
<1>1. TypeOK'
  BY LivreServe DEF IInv, TypeOK, Terminar
<1>2. Pedidas' /\ CalendarioDeUm' /\ OrdemDeUm' /\ Lidas'
  BY OutrosLeram DEF Terminar
<1>3. BlocoProprio' /\ SemOrfao' /\ EncerradaNaoBloqueia'
  BY DEF IInv, BlocoProprio, SemOrfao, EncerradaNaoBloqueia
<1>4. QED
  BY <1>1, <1>2, <1>3 DEF IInv

LEMMA PassoComitar ==
    ASSUME IInv, NEW p \in Pedidos, Comitar(p)
    PROVE  IInv'
<1>1. pedido[p].etapa = "comitar" /\ Terminar(p) /\ UNCHANGED hoje
  BY DEF Comitar
<1>2. CASE pedido[p].op \in {"resolver", "apagar"}
  <2>1. PICK d \in {"ausente", "nenhum", "pessoa"} :
            avaria' = [avaria EXCEPT ![pedido[p].avaria] = d] /\ UNCHANGED <<ordem, bloco>>
    BY <1>2 DEF Comitar
  <2>2. QED
    BY <1>1, <2>1, ComitarAvaria
<1>3. CASE pedido[p].op \notin {"resolver", "apagar"}
  BY <1>1, <1>3, ComitarCriar, ComitarIniciar, ComitarEncerrar, ComitarSoltar DEF Comitar
<1>4. QED
  BY <1>2, <1>3

\* What the period of a locked order means: a new row only when the old one is over.
LEMMA Replaneja ==
    ASSUME NEW x \in Linhas \cup {Nenhum}, NEW y \in Janelas, NEW dia \in Nat
    PROVE  /\ Replan(x, y, dia) = "criar" => /\ y.de >= dia
                                             /\ x = Nenhum \/ ~Vivo(x) \/ x.ate <= dia
           /\ Replan(x, y, dia) = "alterar" => /\ x # Nenhum /\ Vivo(x)
                                               /\ \/ x.de < dia /\ y.de = x.de /\ y.ate >= dia
                                                  \/ x.de >= dia /\ y.de >= dia
<1>0. y.de \in Nat /\ y.ate \in Nat /\ Nenhum \notin Linhas
  BY ManutencaoAssumption DEF ManutencaoAssumption
<1>1. CASE x = Nenhum
  BY <1>0, <1>1 DEF Replan
<1>2. CASE x # Nenhum
  <2>1. x.de \in Nat /\ x.ate \in Nat
    BY <1>2 DEF Linhas
  <2> DEFINE vivo == Vivo(x) /\ x.ate > dia
  <2>2. CASE ~vivo
    BY <1>0, <1>2, <2>1, <2>2 DEF Replan
  <2>3. CASE vivo
    BY <1>0, <1>2, <2>1, <2>3 DEF Replan
  <2>4. QED
    BY <2>2, <2>3
<1>3. QED
  BY <1>1, <1>2

\* Of a request about to write a period: what it locked, and what it read.
LEMMA Escreve ==
    ASSUME IInv, NEW p \in Pedidos, pedido[p].etapa = "excluir",
           NEW o \in Ordens, o = pedido[p].ordem
    PROVE  /\ pedido[p].periodo \in Janelas
           /\ pedido[p].op \in {"criar", "bloquear"}
           /\ pedido[p].op = "criar" =>
                 pedido[p].bloco = Nenhum /\ pedido[p].periodo.de >= pedido[p].dia
           /\ pedido[p].op = "bloquear" =>
                 \/ /\ Replan(BlocoDa(o), pedido[p].periodo, pedido[p].dia) = "criar"
                    /\ pedido[p].bloco = Nenhum /\ ordem[o].estado \in Abertas
                 \/ /\ Replan(BlocoDa(o), pedido[p].periodo, pedido[p].dia) = "alterar"
                    /\ pedido[p].bloco = ordem[o].bloco /\ ordem[o].bloco \in Blocos
                    /\ ordem[o].estado \in Abertas
<1> DEFINE r == pedido[p]
<1>1. r \in Requisicoes /\ Etapa(r) /\ Leu(r) /\ r.etapa = "excluir" /\ o = r.ordem
  BY DoPedido
<1> HIDE DEF r
<1>2. r.op \in {"criar", "bloquear"} /\ r.periodo # Nenhum
      /\ (r.op = "criar" => r.bloco = Nenhum /\ r.periodo.de >= r.dia)
  BY <1>1 DEF Etapa, Livre, DeOrdem
<1>3. r.periodo \in Janelas /\ r.dia \in Nat
  BY <1>1, <1>2 DEF Requisicoes
<1>4. ordem[o].bloco \in Blocos \cup {Nenhum} /\ BlocoDa(o) \in Linhas \cup {Nenhum}
      /\ (ordem[o].bloco = Nenhum => BlocoDa(o) = Nenhum)
  BY DEF IInv, TypeOK, FichasDeOrdem, BlocoDa
<1>5. ASSUME r.op = "bloquear"
      PROVE  /\ Replan(BlocoDa(o), r.periodo, r.dia) \in {"criar", "alterar"}
             /\ r.bloco = IF Replan(BlocoDa(o), r.periodo, r.dia) = "criar"
                          THEN Nenhum ELSE ordem[o].bloco
             /\ ordem[o].estado \in Abertas
  BY <1>1, <1>5 DEF Leu, DeOrdem, Aceita, CheckEdit
<1>6. Replan(BlocoDa(o), r.periodo, r.dia) = "alterar" => ordem[o].bloco \in Blocos
  BY <1>3, <1>4, Replaneja
<1>7. QED
  BY <1>2, <1>3, <1>5, <1>6 DEF r

LEMMA PassoConferir ==
    ASSUME IInv, NEW p \in Pedidos, ConferirExclusao(p)
    PROVE  IInv'
<1>1. /\ pedido[p].etapa = "excluir" /\ pedido' = [pedido EXCEPT ![p] = Livre] /\ hoje' = hoje
  BY DEF ConferirExclusao, Pronto, Terminar
<1>2. pedido[p].op \in {"criar", "bloquear"}
  <2> DEFINE r == pedido[p]
  <2>1. Etapa(r) /\ r.etapa = "excluir"
    BY <1>1, DoPedido
  <2> HIDE DEF r
  <2>2. r.op \in {"criar", "bloquear"}
    BY <2>1 DEF Etapa, Livre, DeOrdem
  <2>3. QED
    BY <2>2 DEF r
<1>3. PICK o \in Ordens : o = pedido[p].ordem /\ <<"ordem", o>> \in pedido[p].travas
  BY <1>1, <1>2, NoFim DEF DeOrdem
<1>4. pedido[p].dia \in Nat /\ pedido[p].dia <= hoje /\ hoje \in Nat
      /\ (pedido[p].op = "criar" => ordem[o].bloco = Nenhum)
  BY <1>1, <1>3, NoFim DEF IInv, TypeOK
<1>5. pedido[p].periodo \in Janelas /\ pedido[p].periodo.de \in Nat /\ pedido[p].periodo.ate \in Nat
  BY <1>1, <1>3, Escreve, ManutencaoAssumption DEF ManutencaoAssumption
<1>6. CASE UNCHANGED <<ordem, bloco, avaria>>
  BY <1>1, <1>6, LivreServe, SeguirMantem DEF IInv, Livre, SoPedido
<1>7. CASE pedido[p].bloco = Nenhum /\ CriarBloco(pedido[p])
  <2> DEFINE f == IF pedido[p].op = "criar"
                  THEN [OrdemAusente EXCEPT !.estado = "aberta", !.avaria = pedido[p].avaria]
                  ELSE ordem[o]
             de == pedido[p].periodo.de
             ate == pedido[p].periodo.ate
  <2>1. PICK b \in Blocos :
          /\ bloco[b].estado = "ausente"
          /\ bloco' = [bloco EXCEPT ![b] = [estado |-> "confirmed", origem |-> "order",
                                            de |-> de, ate |-> ate]]
          /\ ordem' = [ordem EXCEPT ![o] = [f EXCEPT !.bloco = b]] /\ avaria' = avaria
    BY <1>3, <1>7 DEF CriarBloco, NovoBloco
  <2>2. f \in FichasDeOrdem /\ f.estado \in Abertas
    <3>1. CASE pedido[p].op = "criar"
      <4> DEFINE a == pedido[p].avaria
      <4>1. a \in Avarias \cup {Nenhum} /\ f = [OrdemAusente EXCEPT !.estado = "aberta", !.avaria = a]
        BY <3>1, DoPedido DEF Requisicoes
      <4> HIDE DEF a, f
      <4>2. QED
        BY <4>1 DEF FichasDeOrdem, OrdemAusente, Abertas
    <3>2. CASE pedido[p].op = "bloquear"
      <4>1. f = ordem[o] /\ f \in FichasDeOrdem
        BY <3>2 DEF IInv, TypeOK
      <4>2. QED
        BY <1>1, <1>3, <3>2, <4>1, Escreve
    <3>3. QED
      BY <1>2, <3>1, <3>2
  <2>3. ordem[o].bloco # Nenhum =>
               ~Vivo(bloco[ordem[o].bloco]) \/ bloco[ordem[o].bloco].ate <= hoje
    <3>1. CASE pedido[p].op = "criar"
      BY <1>4, <3>1
    <3>2. CASE pedido[p].op = "bloquear" /\ ordem[o].bloco # Nenhum
      <4>0. Nenhum \notin Blocos
        BY ManutencaoAssumption DEF ManutencaoAssumption
      <4>1. Replan(BlocoDa(o), pedido[p].periodo, pedido[p].dia) = "criar"
        BY <1>1, <1>3, <1>7, <3>2, <4>0, Escreve
      <4>2. BlocoDa(o) = bloco[ordem[o].bloco] /\ BlocoDa(o) \in Linhas
        BY <3>2 DEF BlocoDa, IInv, TypeOK, FichasDeOrdem
      <4>3. BlocoDa(o).ate \in Nat /\ BlocoDa(o) # Nenhum
        BY <4>2, ManutencaoAssumption DEF Linhas, ManutencaoAssumption
      <4>4. ~Vivo(BlocoDa(o)) \/ BlocoDa(o).ate <= pedido[p].dia
        BY <1>4, <1>5, <4>1, <4>2, <4>3, Replaneja
      <4>5. QED
        BY <1>4, <4>2, <4>3, <4>4
    <3>3. QED
      BY <1>2, <3>1, <3>2
  <2> HIDE DEF f, de, ate
  <2>4. de \in Nat /\ ate \in Nat
    BY <1>5 DEF de, ate
  <2>5. QED
    BY <1>1, <1>3, <2>1, <2>2, <2>3, <2>4, LinhaNova
<1>8. CASE pedido[p].bloco # Nenhum /\ MudarPeriodo(pedido[p])
  <2>1. ordem[o].bloco = pedido[p].bloco /\ ordem[o].bloco \in Blocos /\ ordem[o].estado \in Abertas
    BY <1>1, <1>2, <1>3, <1>8, Escreve
  <2> DEFINE b == ordem[o].bloco
             u == [bloco[b] EXCEPT !.de = pedido[p].periodo.de]
             n == [u EXCEPT !.ate = pedido[p].periodo.ate]
             f == ordem[o]
  <2>2. ordem' = ordem /\ avaria' = avaria /\ bloco \in [Blocos -> Linhas]
        /\ bloco[b].estado # "ausente" /\ bloco[b].origem = "order" /\ b # Nenhum
        /\ ordem \in [Ordens -> FichasDeOrdem]
        /\ avaria \in [Avarias -> {"nenhum", "pessoa", "consertado", "ausente"}]
    BY <1>8, <2>1 DEF MudarPeriodo, IInv, TypeOK, BlocoProprio
  <2>3. bloco' = [bloco EXCEPT ![b] = n]
    BY <1>8, <2>1, <2>2 DEF MudarPeriodo
  <2>4. u \in Linhas /\ u.estado = bloco[b].estado /\ u.origem = bloco[b].origem
    BY <1>5, <2>1, <2>2 DEF Linhas
  <2> HIDE DEF u
  <2>5. n \in Linhas /\ n.estado = bloco[b].estado /\ n.origem = bloco[b].origem
    BY <1>5, <2>4 DEF Linhas
  <2> HIDE DEF n
  <2>6. bloco' \in [Blocos -> Linhas] /\ bloco'[b] = n
        /\ \A x \in Blocos : x # b => bloco'[x] = bloco[x]
    BY <2>1, <2>2, <2>3, <2>5
  <2>7. ordem' = [ordem EXCEPT ![o] = f] /\ f \in FichasDeOrdem /\ f.bloco = ordem[o].bloco
        /\ f.estado # "ausente" /\ f.estado \notin Fechadas
    BY <2>1, <2>2 DEF Abertas, Fechadas
  <2> HIDE DEF f
  <2>8. QED
    BY <1>1, <1>3, <2>2, <2>5, <2>6, <2>7, LinhaMudada
<1>9. QED
  BY <1>6, <1>7, <1>8 DEF ConferirExclusao

----------------------------------------------------------------------------
(* The rest of the house, and the invariant.                               *)

LEMMA PassoOcupar ==
    ASSUME IInv, NEW x \in Janelas, Ocupar(x)
    PROVE  IInv'
<1>1. PICK b \in Blocos :
        /\ bloco[b].estado = "ausente"
        /\ bloco' = [bloco EXCEPT ![b] = [estado |-> "confirmed", origem |-> "sale",
                                          de |-> x.de, ate |-> x.ate]]
  BY DEF Ocupar
<1> DEFINE n == [estado |-> "confirmed", origem |-> "sale", de |-> x.de, ate |-> x.ate]
<1>2. n \in Linhas /\ n.origem = "sale" /\ bloco' = [bloco EXCEPT ![b] = n]
  BY <1>1, ManutencaoAssumption DEF Linhas, ManutencaoAssumption
<1> HIDE DEF n
<1>3. bloco \in [Blocos -> Linhas] /\ b # Nenhum
      /\ \A o \in Ordens : ordem[o].bloco # Nenhum => bloco[ordem[o].bloco].estado # "ausente"
  BY ManutencaoAssumption DEF IInv, TypeOK, BlocoProprio, ManutencaoAssumption
<1>4. \A o \in Ordens : ordem[o].bloco # b
  BY <1>1, <1>3
<1>5. /\ bloco' \in [Blocos -> Linhas]
      /\ \A y \in Blocos : (\E o \in Ordens : ordem[o].bloco = y) => bloco'[y] = bloco[y]
      /\ \A y \in Blocos : bloco'[y] = bloco[y] \/ ~Vivo(bloco'[y]) \/ bloco'[y].origem = "sale"
  BY <1>2, <1>3, <1>4
<1>6. pedido' = pedido /\ ordem' = ordem /\ avaria' = avaria /\ hoje' = hoje /\ hoje \in Nat
  BY DEF Ocupar, IInv, TypeOK
<1>7. QED
  BY <1>5, <1>6, LinhaAlheia

\* A cancelled row keeps its origin.
LEMMA Cancelar ==
    ASSUME NEW b \in Linhas
    PROVE  Cancelado(b) \in Linhas /\ ~Vivo(Cancelado(b)) /\ Cancelado(b).origem = b.origem
<1> DEFINE u == [b EXCEPT !.estado = "cancelled"]
           w == [u EXCEPT !.de = 0]
<1>1. u \in Linhas /\ u.estado = "cancelled" /\ u.origem = b.origem
  BY DEF Linhas
<1>2. Cancelado(b) = [w EXCEPT !.ate = 0]
  BY DEF Cancelado
<1> HIDE DEF u
<1>3. w \in Linhas /\ w.estado = "cancelled" /\ w.origem = b.origem
  BY <1>1 DEF Linhas
<1> HIDE DEF w
<1>4. QED
  BY <1>2, <1>3 DEF Linhas, Vivo

LEMMA PassoLiberar ==
    ASSUME IInv, NEW b \in Blocos, LiberarBloqueio(b)
    PROVE  IInv'
<1> DEFINE n == Cancelado(bloco[b])
<1>1. bloco \in [Blocos -> Linhas] /\ bloco' = [bloco EXCEPT ![b] = n]
      /\ \A o \in Ordens : ordem[o].bloco # b
  BY DEF IInv, TypeOK, LiberarBloqueio, Liberavel
<1>2. n \in Linhas /\ ~Vivo(n)
  BY <1>1, Cancelar
<1> HIDE DEF n
<1>3. /\ bloco' \in [Blocos -> Linhas]
      /\ \A y \in Blocos : (\E o \in Ordens : ordem[o].bloco = y) => bloco'[y] = bloco[y]
      /\ \A y \in Blocos : bloco'[y] = bloco[y] \/ ~Vivo(bloco'[y]) \/ bloco'[y].origem = "sale"
  BY <1>1, <1>2
<1>4. pedido' = pedido /\ ordem' = ordem /\ avaria' = avaria /\ hoje' = hoje /\ hoje \in Nat
  BY DEF LiberarBloqueio, IInv, TypeOK
<1>5. QED
  BY <1>3, <1>4, LinhaAlheia

LEMMA PassoAmanhecer ==
    ASSUME IInv, Amanhecer
    PROVE  IInv'
<1>1. /\ pedido' = pedido /\ ordem' = ordem /\ avaria' = avaria /\ bloco' = bloco
      /\ hoje' = hoje + 1 /\ hoje \in Nat /\ bloco \in [Blocos -> Linhas]
  BY DEF Amanhecer, IInv, TypeOK
<1>2. QED
  BY <1>1, LinhaAlheia

LEMMA Inicio == Init => IInv
<1> SUFFICES ASSUME Init PROVE IInv
  OBVIOUS
<1>1. TypeOK
  <2>1. OrdemAusente \in FichasDeOrdem /\ BlocoAusente \in Linhas
    BY DEF OrdemAusente, BlocoAusente, FichasDeOrdem, Linhas
  <2>2. Livre \in Requisicoes
    BY DEF Livre, Requisicoes, Ops, Etapas
  <2>3. QED
    BY <2>1, <2>2 DEF Init, TypeOK
<1>2. \A p \in Pedidos : pedido[p] = Livre /\ Livre.travas = {}
  BY DEF Init, Livre
<1>3. Pedidas /\ Lidas /\ CalendarioDeUm /\ OrdemDeUm
  BY <1>1, <1>2, LivreServe DEF Pedidas, Lidas, CalendarioDeUm, OrdemDeUm
<1>4. BlocoProprio /\ SemOrfao /\ EncerradaNaoBloqueia
  BY DEF Init, OrdemAusente, BlocoAusente, BlocoProprio, SemOrfao, EncerradaNaoBloqueia, Vivo, Fechadas
<1>5. QED
  BY <1>1, <1>3, <1>4 DEF IInv

LEMMA Passo == IInv /\ [Next]_vars => IInv'
<1> SUFFICES ASSUME IInv, [Next]_vars PROVE IInv'
  OBVIOUS
<1>1. CASE UNCHANGED vars
  BY <1>1 DEF vars, IInv, TypeOK, Pedidas, Etapa, Travas, CalendarioDeUm, OrdemDeUm, Lidas, Leu, Aceita,
              BlocoASoltar, BlocoDa, BlocoProprio, SemOrfao, EncerradaNaoBloqueia
<1>2. ASSUME NEW p \in Pedidos,
             \/ Comecar(p) \/ TravarCalendarioDaUnidade(p)
             \/ CriarOrdem(p) \/ TravarOrdem(p) \/ ConferirExclusao(p)
             \/ ConsertarAvaria(p) \/ TravarAvaria(p)
             \/ ApagarAvaria(p) \/ Comitar(p) \/ Cair(p)
      PROVE  IInv'
  BY <1>2, PassoComecar, PassoFila, PassoCriarOrdem, PassoTravarOrdem, PassoConferir,
     PassoConsertar, PassoAvaria, PassoApagar, PassoComitar, PassoCair
<1>3. ASSUME NEW x \in Janelas, Ocupar(x) PROVE IInv'
  BY <1>3, PassoOcupar
<1>4. ASSUME NEW b \in Blocos, LiberarBloqueio(b) PROVE IInv'
  BY <1>4, PassoLiberar
<1>5. CASE Amanhecer
  BY <1>5, PassoAmanhecer
<1>6. QED
  BY <1>1, <1>2, <1>3, <1>4, <1>5 DEF Next

\* Whatever the requests ask for and in whatever order they wait for each other,
\* a closed order holds no night from today on.
THEOREM OrdemEncerradaSolta == Spec => []EncerradaNaoBloqueia
<1>1. IInv => EncerradaNaoBloqueia
  BY DEF IInv
<1>2. QED
  BY <1>1, Inicio, Passo, PTL DEF Spec

----------------------------------------------------------------------------
(* Who waits for whom.                                                     *)

\* The steps of the ladder the statements climb.
Degrau(etapa) ==
    CASE etapa = "ordem"         -> 1
      [] etapa = "fila"          -> 2
      [] etapa = "inserir_ordem" -> 3
      [] etapa = "avaria"        -> 3
      [] etapa = "excluir"       -> 4
      [] etapa = "consertar"     -> 5
      [] OTHER                   -> 6

\* A request waits only for one that is further up, unless a damage report is
\* being deleted: so no ring of requests, of whatever length, waits in a circle.
EsperaSobe ==
    \A p \in Pedidos : \A q \in Espera(p) :
        "apagar" \notin {pedido[p].op, pedido[q].op}
        => Degrau(pedido[p].etapa) < Degrau(pedido[q].etapa)

LEMMA QuemEspera ==
    ASSUME IInv, NEW p \in Pedidos, NEW q \in Espera(p),
           pedido[p].op # "apagar", pedido[q].op # "apagar"
    PROVE  Degrau(pedido[p].etapa) < Degrau(pedido[q].etapa)
<1> DEFINE v == pedido[p]
           w == pedido[q]
<1>1. q \in Outros(p) /\ q \in Pedidos /\ p # q
  BY DEF Espera, TravadoPor, EsperaIndice, EsperaExclusao, Outros
<1>2. v \in Requisicoes /\ Etapa(v) /\ v.op # "apagar" /\ w \in Requisicoes
      /\ Etapa(w) /\ Travas(v) /\ Travas(w) /\ w.op # "apagar"
  BY <1>1, DoPedido
<1>3. \A a \in Avarias, t \in {"avaria", "conserto"} : <<t, a>> \in w.travas => w.etapa = "comitar"
  <2> HIDE DEF w
  <2>1. w.etapa # "restringir"
    BY <1>2 DEF Etapa, Livre
  <2>2. ASSUME NEW a \in Avarias
        PROVE  /\ <<"avaria", a>> \in w.travas => w.etapa = "comitar"
               /\ <<"conserto", a>> \in w.travas => w.etapa = "comitar"
    BY <1>2, <2>1 DEF Travas
  <2>3. QED
    BY <2>2
<1>4. \A o \in Ordens : <<"ordem", o>> \in w.travas
                          => w.etapa \in {"fila", "excluir", "consertar", "comitar"}
  <2> HIDE DEF w
  <2>1. QED
    BY <1>2, ManutencaoAssumption DEF Travas, Etapa, Livre, DeOrdem, ManutencaoAssumption
<1>5. w.op = "criar" /\ w.ordem # Nenhum => w.etapa \in {"excluir", "comitar"}
  <2> HIDE DEF w
  <2>1. QED
    BY <1>2 DEF Etapa, Livre, DeOrdem
<1>6. CASE v.etapa = "fila"
  <2>1. <<"calendario", Nenhum>> \in w.travas
    BY <1>6 DEF Espera, TravadoPor
  <2>2. w.etapa \in {"inserir_ordem", "excluir"}
    BY <1>2, <2>1 DEF Travas
  <2>3. QED
    BY <1>6, <2>2 DEF Degrau
<1>7. CASE v.etapa = "ordem"
  <2>1. <<"ordem", v.ordem>> \in w.travas
    BY <1>7 DEF Espera, TravadoPor
  <2>2. v.ordem \in Ordens
    <3> HIDE DEF v
    <3>1. QED
      BY <1>2, <1>7 DEF Etapa, Livre, Requisicoes
  <2>3. QED
    BY <1>4, <1>7, <2>1, <2>2 DEF Degrau
<1>8. CASE v.etapa = "inserir_ordem"
  <2>1. v.avaria # Nenhum /\ (q \in EsperaIndice(p, v.avaria) \/ q \in TravadoPor(<<"avaria", v.avaria>>, p))
    BY <1>8 DEF Espera
  <2>2. v.avaria \in Avarias
    BY <1>2, <2>1 DEF Requisicoes
  <2>3. w.etapa \in {"excluir", "comitar"}
    BY <1>3, <1>5, <2>1, <2>2 DEF EsperaIndice, TravadoPor
  <2>4. QED
    BY <1>8, <2>3 DEF Degrau
<1>9. CASE v.etapa = "excluir"
  <2>1. PeriodosEmVoo(q) # {}
    BY <1>9 DEF Espera, EsperaExclusao
  <2>2. w.etapa \in {"excluir", "consertar", "comitar"}
    BY <2>1 DEF PeriodosEmVoo
  <2>3. w.etapa # "excluir"
    <3> SUFFICES ASSUME w.etapa = "excluir" PROVE FALSE
      OBVIOUS
    <3>1. v.periodo # Nenhum
      <4> HIDE DEF v
      <4>1. QED
        BY <1>2, <1>9 DEF Etapa, Livre
    <3>2. w.periodo # Nenhum
      <4> HIDE DEF w
      <4>1. QED
        BY <1>2 DEF Etapa, Livre
    <3>3. <<"calendario", Nenhum>> \in v.travas /\ <<"calendario", Nenhum>> \in w.travas
      BY <1>2, <1>9, <3>1, <3>2 DEF Travas
    <3>4. QED
      BY <1>1, <3>3, DoPedido
  <2>4. QED
    BY <1>9, <2>2, <2>3 DEF Degrau
<1>10. CASE v.etapa = "consertar"
  <2>1. \E t \in {"avaria", "conserto"} : <<t, v.avaria>> \in w.travas
    BY <1>10 DEF Espera, TravadoPor
  <2>2. v.avaria \in Avarias
    <3> HIDE DEF v
    <3>1. QED
      BY <1>2, <1>10 DEF Etapa, Livre, Requisicoes
  <2>3. w.etapa = "comitar"
    BY <1>3, <2>1, <2>2
  <2>4. QED
    BY <1>10, <2>3 DEF Degrau
<1>11. CASE v.etapa = "avaria"
  <2>1. \E t \in {"avaria", "conserto", "chave"} : <<t, v.avaria>> \in w.travas
    BY <1>11 DEF Espera, TravadoPor
  <2>2. v.avaria \in Avarias
    <3> HIDE DEF v
    <3>1. QED
      BY <1>2, <1>11 DEF Etapa, Livre, Requisicoes
  <2>3. w.etapa \in {"excluir", "comitar"}
    BY <1>2, <1>3, <1>5, <2>1, <2>2 DEF Travas
  <2>4. QED
    BY <1>11, <2>3 DEF Degrau
<1>12. CASE v.etapa \notin {"fila", "ordem", "inserir_ordem", "excluir", "consertar", "avaria"}
  <2>1. v.etapa # "restringir"
    <3> HIDE DEF v
    <3>1. QED
      BY <1>2 DEF Etapa, Livre
  <2>2. Espera(p) = {}
    BY <1>12, <2>1 DEF Espera
  <2>3. QED
    BY <2>2
<1>13. QED
  BY <1>6, <1>7, <1>8, <1>9, <1>10, <1>11, <1>12

THEOREM NinguemEmCirculo == Spec => []EsperaSobe
<1>1. IInv => EsperaSobe
  BY QuemEspera DEF EsperaSobe
<1>2. QED
  BY <1>1, Inicio, Passo, PTL DEF Spec

\* In particular no two requests wait for each other, except around a deletion.
THEOREM SoApagarCruza == Spec => []SoApagarSeCruza
<1>1. IInv => SoApagarSeCruza
  <2> SUFFICES ASSUME IInv, NEW p \in Pedidos, NEW q \in Espera(p), p \in Espera(q),
                      pedido[p].op # "apagar", pedido[q].op # "apagar"
               PROVE  FALSE
    BY DEF SoApagarSeCruza
  <2>1. q \in Pedidos
    BY DEF Espera, TravadoPor, EsperaIndice, EsperaExclusao, Outros
  <2>2. Degrau(pedido[p].etapa) < Degrau(pedido[q].etapa)
    BY QuemEspera
  <2>3. Degrau(pedido[q].etapa) < Degrau(pedido[p].etapa)
    BY <2>1, QuemEspera
  <2>4. Degrau(pedido[p].etapa) \in Nat /\ Degrau(pedido[q].etapa) \in Nat
    BY DEF Degrau
  <2>5. QED
    BY <2>2, <2>3, <2>4
<1>2. QED
  BY <1>1, Inicio, Passo, PTL DEF Spec

----------------------------------------------------------------------------
(* The past of the calendar.                                               *)

\* Giving a block back changes nothing before the day of the request.
LEMMA DevolverPreserva ==
    ASSUME NEW b \in Linhas, NEW dia \in Nat, NEW n \in Nat, n < dia
    PROVE  Noite(b, n) <=> Noite(ReleaseOn(b, dia), n)
<1>0. b.de \in Nat /\ b.ate \in Nat
  BY DEF Linhas
<1>1. CASE ~Vivo(b) \/ b.ate <= dia
  BY <1>0, <1>1 DEF ReleaseOn
<1>2. CASE Vivo(b) /\ b.ate > dia /\ b.de >= dia
  <2>1. ReleaseOn(b, dia) = Cancelado(b)
    BY <1>0, <1>2 DEF ReleaseOn
  <2>2. ~Vivo(Cancelado(b))
    BY Cancelar
  <2>3. QED
    BY <1>0, <1>2, <2>1, <2>2 DEF Noite
<1>3. CASE Vivo(b) /\ b.ate > dia /\ b.de < dia
  <2>1. ReleaseOn(b, dia) = [b EXCEPT !.ate = dia]
    BY <1>0, <1>3 DEF ReleaseOn
  <2>2. /\ ReleaseOn(b, dia).ate = dia /\ ReleaseOn(b, dia).de = b.de
        /\ ReleaseOn(b, dia).estado = b.estado
    BY <2>1 DEF Linhas
  <2>3. QED
    BY <1>0, <1>3, <2>2 DEF Noite, Vivo
<1>4. QED
  BY <1>0, <1>1, <1>2, <1>3

LEMMA PassadoAoConferir ==
    ASSUME IInv, NEW p \in Pedidos, ConferirExclusao(p), NEW b \in Blocos, bloco'[b] # bloco[b],
           NEW n \in Nat, n < pedido[p].dia
    PROVE  Noite(bloco[b], n) <=> Noite(bloco'[b], n)
<1>1. /\ pedido[p].etapa = "excluir"
  BY DEF ConferirExclusao, Pronto
<1>2. pedido[p].op \in {"criar", "bloquear"}
  <2> DEFINE r == pedido[p]
  <2>1. Etapa(r) /\ r.etapa = "excluir"
    BY <1>1, DoPedido
  <2> HIDE DEF r
  <2>2. r.op \in {"criar", "bloquear"}
    BY <2>1 DEF Etapa, Livre, DeOrdem
  <2>3. QED
    BY <2>2 DEF r
<1>3. PICK o \in Ordens : o = pedido[p].ordem
  BY <1>1, <1>2, NoFim DEF DeOrdem
<1>9. pedido[p].periodo \in Janelas
  BY <1>1, <1>3, Escreve
<1>10. pedido[p].dia \in Nat
  BY <1>1, NoFim
<1>4. pedido[p].periodo \in Janelas /\ pedido[p].periodo.de \in Nat
      /\ pedido[p].periodo.ate \in Nat /\ pedido[p].dia \in Nat
      /\ bloco \in [Blocos -> Linhas]
  BY <1>9, <1>10, ManutencaoAssumption DEF ManutencaoAssumption, IInv, TypeOK
<1>5. bloco[b].de \in Nat /\ bloco[b].ate \in Nat
  BY <1>4 DEF Linhas
<1>6. CASE pedido[p].bloco = Nenhum /\ CriarBloco(pedido[p])
  <2>0. Nenhum \notin Blocos
    BY ManutencaoAssumption DEF ManutencaoAssumption
  <2>1. PICK x \in Blocos : /\ bloco[x].estado = "ausente"
                            /\ bloco' = [bloco EXCEPT ![x] =
                                  [estado |-> "confirmed", origem |-> "order",
                                   de |-> pedido[p].periodo.de, ate |-> pedido[p].periodo.ate]]
    BY <1>6 DEF CriarBloco, NovoBloco
  <2>2. x = b /\ bloco'[b].de = pedido[p].periodo.de
    BY <1>4, <2>1
  <2>3. pedido[p].periodo.de >= pedido[p].dia
    <3>1. CASE pedido[p].op = "criar"
      BY <1>1, <1>3, <3>1, Escreve
    <3>2. CASE pedido[p].op = "bloquear"
      <4>1. Replan(BlocoDa(o), pedido[p].periodo, pedido[p].dia) = "criar"
        BY <1>1, <1>3, <1>6, <2>0, <3>2, Escreve
      <4>2. BlocoDa(o) \in Linhas \cup {Nenhum}
        BY DEF BlocoDa, IInv, TypeOK, FichasDeOrdem
      <4>3. QED
        BY <1>4, <4>1, <4>2, Replaneja
    <3>3. QED
      BY <1>2, <3>1, <3>2
  <2>4. ~Vivo(bloco[b])
    BY <2>1, <2>2 DEF Vivo
  <2>5. QED
    BY <1>4, <2>2, <2>3, <2>4 DEF Noite
<1>7. CASE pedido[p].bloco # Nenhum /\ MudarPeriodo(pedido[p])
  <2>1. /\ pedido[p].bloco = ordem[o].bloco /\ ordem[o].bloco \in Blocos
        /\ Replan(BlocoDa(o), pedido[p].periodo, pedido[p].dia) = "alterar"
    BY <1>1, <1>2, <1>3, <1>7, Escreve
  <2> DEFINE x == ordem[o].bloco
             u == [bloco[x] EXCEPT !.de = pedido[p].periodo.de]
             m == [u EXCEPT !.ate = pedido[p].periodo.ate]
  <2>2. bloco' = [bloco EXCEPT ![x] = m]
    BY <1>4, <1>7, <2>1 DEF MudarPeriodo
  <2>3. x = b /\ bloco'[b] = m
    BY <1>4, <2>1, <2>2
  <2>4. u \in Linhas /\ u.estado = bloco[x].estado /\ u.de = pedido[p].periodo.de
    BY <1>4, <2>1 DEF Linhas
  <2> HIDE DEF u
  <2>5. m.estado = bloco[x].estado /\ m.de = pedido[p].periodo.de /\ m.ate = pedido[p].periodo.ate
    BY <1>4, <2>4 DEF Linhas
  <2> HIDE DEF m
  <2>6. BlocoDa(o) = bloco[x] /\ BlocoDa(o) \in Linhas
    BY <1>4, <2>1, ManutencaoAssumption DEF BlocoDa, ManutencaoAssumption
  <2>7. \/ bloco[x].de < pedido[p].dia /\ m.de = bloco[x].de /\ m.ate >= pedido[p].dia
        \/ bloco[x].de >= pedido[p].dia /\ m.de >= pedido[p].dia
    BY <1>4, <2>1, <2>5, <2>6, Replaneja
  <2>8. Vivo(bloco[x]) /\ bloco[x].ate > pedido[p].dia
    <3>1. Replan(bloco[x], pedido[p].periodo, pedido[p].dia) = "alterar"
      BY <2>1, <2>6
    <3>2. QED
      BY <1>4, <3>1 DEF Replan
  <2>9. QED
    BY <1>4, <1>5, <2>3, <2>5, <2>7, <2>8 DEF Noite, Vivo
<1>8. QED
  BY <1>6, <1>7 DEF ConferirExclusao

LEMMA PassadoAoComitar ==
    ASSUME IInv, NEW p \in Pedidos, Comitar(p), NEW b \in Blocos, bloco'[b] # bloco[b],
           NEW n \in Nat, n < pedido[p].dia
    PROVE  Noite(bloco[b], n) <=> Noite(bloco'[b], n)
<1>1. /\ pedido[p].etapa = "comitar" /\ pedido[p].op \in {"concluir", "cancelar", "soltar"}
      /\ bloco' = Solto(pedido[p])
  BY DEF Comitar
<1>2. PICK o \in Ordens : o = pedido[p].ordem
  BY <1>1, NoFim DEF DeOrdem
<1>3. b = ordem[o].bloco
  BY <1>1, <1>2, SoltoBem
<1>4. bloco'[b] = ReleaseOn(bloco[b], pedido[p].dia)
  BY <1>1, <1>2, <1>3, SoltoBem, ManutencaoAssumption DEF ManutencaoAssumption
<1>5. bloco[b] \in Linhas /\ pedido[p].dia \in Nat
  BY <1>1, NoFim DEF IInv, TypeOK
<1>6. QED
  BY <1>4, <1>5, DevolverPreserva

\* A night already past, for the clock and for whoever is in course, is neither
\* given back nor blocked afterwards on a row that belonged to an order.
THEOREM PassadoFica == Spec => PassadoIntocado
<1> DEFINE A == \A b \in {x \in Blocos : bloco'[x] # bloco[x]}, n \in 0..(hoje - 1) :
                   /\ bloco'[b].origem = "order"
                   /\ \A p \in Pedidos : pedido[p] # Livre => n < pedido[p].dia
                   => (Noite(bloco[b], n) <=> Noite(bloco'[b], n))
<1>1. IInv /\ [Next]_vars => [A]_vars
  <2> SUFFICES ASSUME IInv, Next, NEW b \in Blocos, bloco'[b] # bloco[b], NEW n \in 0..(hoje - 1),
                      bloco'[b].origem = "order",
                      \A p \in Pedidos : pedido[p] # Livre => n < pedido[p].dia
               PROVE  Noite(bloco[b], n) <=> Noite(bloco'[b], n)
    OBVIOUS
  <2>1. n \in Nat /\ n < hoje /\ hoje \in Nat /\ bloco \in [Blocos -> Linhas]
    BY DEF IInv, TypeOK
  <2>2. ASSUME NEW p \in Pedidos, ConferirExclusao(p)
        PROVE  Noite(bloco[b], n) <=> Noite(bloco'[b], n)
    BY <2>1, <2>2, PassadoAoConferir DEF ConferirExclusao, Pronto, Livre
  <2>3. ASSUME NEW p \in Pedidos, Comitar(p)
        PROVE  Noite(bloco[b], n) <=> Noite(bloco'[b], n)
    <3>1. n < pedido[p].dia
      BY <2>3 DEF Comitar, Livre
    <3>2. QED
      BY <2>1, <2>3, <3>1, PassadoAoComitar
  <2>4. ASSUME NEW x \in Janelas, Ocupar(x) PROVE FALSE
    BY <2>1, <2>4 DEF Ocupar
  <2>5. ASSUME NEW x \in Blocos, LiberarBloqueio(x) PROVE FALSE
    <3>1. /\ bloco' = [bloco EXCEPT ![x] = Cancelado(bloco[x])] /\ Liberavel(x)
      BY <2>5 DEF LiberarBloqueio
    <3>2. x = b /\ bloco'[b] = Cancelado(bloco[b])
      BY <2>1, <3>1
    <3>3. bloco[b].origem = "order"
      BY <2>1, <3>2, Cancelar
    <3>4. Vivo(bloco[b]) /\ bloco[b].ate > hoje /\ \A o \in Ordens : ordem[o].bloco # b
      BY <3>1, <3>2, <3>3 DEF Liberavel
    <3>5. QED
      BY <3>3, <3>4 DEF IInv, SemOrfao
  <2>6. ASSUME NEW p \in Pedidos,
               \/ Comecar(p) \/ TravarCalendarioDaUnidade(p)
               \/ CriarOrdem(p) \/ TravarOrdem(p)
               \/ ConsertarAvaria(p) \/ TravarAvaria(p)
               \/ ApagarAvaria(p) \/ Cair(p)
        PROVE  FALSE
    BY <2>6 DEF Comecar, TravarCalendarioDaUnidade, CriarOrdem, TravarOrdem, ConsertarAvaria,
                TravarAvaria, ApagarAvaria, Cair, SoPedido
  <2>7. CASE Amanhecer
    BY <2>7 DEF Amanhecer
  <2>8. QED
    BY <2>2, <2>3, <2>4, <2>5, <2>6, <2>7 DEF Next
<1>2. QED
  BY <1>1, Inicio, Passo, PTL DEF Spec, PassadoIntocado
=============================================================================
