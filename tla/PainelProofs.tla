--------------------------- MODULE PainelProofs ---------------------------
(***************************************************************************)
(* Proofs about what the panel shows: the funnel (Oportunidades), for any  *)
(* number of leads, cards, quotes and requests in course, and the live     *)
(* updates (TempoReal), for any number of tabs, rows, commits, drops,      *)
(* cuts, refusals and restarts.                                            *)
(*                                                                         *)
(* The funnel: a won card and a sold quote are one sale, a lead's card is  *)
(* lost only by a request that waited or by an edit, and a card's          *)
(* movements form a chain.  All three rest on the row of the card: who has *)
(* it knows its stage and its contact (DonoSabe), because everybody else   *)
(* who writes a card needs its lock, its key or a card nobody has heard    *)
(* of.  The quote is not locked when it is chosen; what was read of it     *)
(* still holds at the sale because an issued quote never changes its price *)
(* nor its contact (QuemEscolheu), and the sale itself looks again whether *)
(* it was sold.                                                            *)
(*                                                                         *)
(* The live updates: what is on its way comes in order and lacks nothing   *)
(* but what the five holes of the code swallow; the argument is with       *)
(* their invariant, PainelInv.                                             *)
(***************************************************************************)
EXTENDS Oportunidades, TempoReal, FiniteSetTheorems, NaturalsInduction, SequenceTheorems,
        WellFoundedInduction, TLAPS

-----------------------------------------------------------------------------
(* Types.                                                                  *)

Card == [etapa : Etapas \cup {"ausente", "ganho", "perdido"}, contato : Contatos \cup {Nada},
         lead : Leads \cup {Nada}, origem : Leads \cup {Nada}, valor : Nat,
         partido : BOOLEAN, tarefa : {"nenhuma", "pendente", "cancelada", "reaberta"}]
Orcamento == [estado : {"ausente", "gasto", "aberto", "convertido"}, card : Cards \cup {Nada},
              contato : Contatos \cup {Nada}, total : Nat]
Reserva == [total : Nat, contato : Contatos \cup {Nada}]
Travas == {"card", "lead", "orcamento", "datas"}
            \X (Cards \cup Leads \cup Orcamentos \cup {Nada}) \X {"exclusiva", "chave"}
Passos == {"livre", "card", "esperaCard", "lead", "esperaLead", "criando", "emitindo",
           "orcamento", "vendido", "trocando"}
Pedido == [passo : Passos, card : Cards \cup {Nada}, lead : Leads \cup {Nada},
           orcamento : Orcamentos \cup {Nada}, de : Etapas \cup {Nada}, semCard : BOOLEAN,
           total : Nat, contato : Contatos \cup {Nada}, travas : SUBSET Travas]

TypeOK ==
    /\ tabela \in Nat /\ ocupada \in BOOLEAN /\ naEspera \subseteq Leads /\ trocados \subseteq Leads
    /\ lead \in [Leads -> {"novo", "convertido", "apagado"}]
    /\ card \in [Cards -> Card]
    /\ orcamento \in [Orcamentos -> Orcamento]
    /\ reserva \in [Orcamentos -> Reserva]
    /\ pedido \in [Pedidos -> Pedido]

-----------------------------------------------------------------------------
(* The inductive invariant.                                                *)

\* Two requests never hold locks that exclude each other.
Exclusao ==
    \A p, q \in Pedidos : p # q =>
        \A a \in pedido[p].travas : \A b \in pedido[q].travas : ~Choca(a, b)

\* What a request in course knows: who has the row of a lead, which; who is past the
\* row of a card has it, and knows the stage it is in; and what was read of the quote
\* to win by is still so, but that it may have been sold.
NoCard == {"card", "trocando", "orcamento", "vendido"}

SabeOAlvo(r) ==
    /\ r.passo \in {"lead", "esperaLead"} => r.lead \in Leads
    /\ r.passo \in NoCard \cup {"esperaCard"} => r.card \in Cards /\ r.de \in Etapas

DonoSabe(r) ==
    r.passo \in NoCard =>
        /\ <<"card", r.card, "exclusiva">> \in r.travas
        /\ card[r.card].etapa = r.de

QuemEscolheu(r) ==
    r.passo \in {"orcamento", "vendido"} =>
        /\ r.orcamento \in Orcamentos
        /\ orcamento[r.orcamento].estado \in {"aberto", "convertido"}
        /\ orcamento[r.orcamento].total = r.total
        /\ orcamento[r.orcamento].contato \in {Nada, r.contato}
        /\ card[r.card].contato = r.contato

Sabe(r) == SabeOAlvo(r) /\ DonoSabe(r) /\ QuemEscolheu(r)
TodosSabem == \A p \in Pedidos : Sabe(pedido[p])

\* A sold quote is the sale of a won card, and no other has a reservation.
Vendido ==
    \A q \in Orcamentos :
        /\ orcamento[q].estado # "convertido" => reserva[q] = SemReserva
        /\ orcamento[q].estado = "convertido" =>
              /\ orcamento[q].card \in Cards
              /\ card[orcamento[q].card].etapa = "ganho"
              /\ orcamento[q].total = reserva[q].total
              /\ card[orcamento[q].card].valor = reserva[q].total
              /\ card[orcamento[q].card].contato = reserva[q].contato
              /\ orcamento[q].contato \in {Nada, reserva[q].contato}

VendidoA(c) == {q \in Orcamentos : orcamento[q].estado = "convertido" /\ orcamento[q].card = c}
GanhoPorUm == \A c \in Cards : card[c].etapa = "ganho" => \E q \in Orcamentos : VendidoA(c) = {q}

\* The inductive invariant.
IInv ==
    /\ TypeOK /\ Exclusao /\ TodosSabem
    /\ Vendido /\ GanhoPorUm
    /\ OrigemSoSePerdeAssim /\ HistoricoEncadeado /\ FechadoNaoCobra

-----------------------------------------------------------------------------
(* The rows the model builds.                                              *)

LEMMA LivreTipado ==
    /\ Livre \in Pedido /\ Livre.passo = "livre" /\ Livre.travas = {}
    /\ Sabe(Livre)
BY DEF Livre, Pedido, Passos, Sabe, SabeOAlvo, DonoSabe, QuemEscolheu, NoCard

LEMMA AusenteTipado ==
    /\ CardAusente \in Card /\ CardAusente.etapa = "ausente" /\ CardAusente.lead = Nada
    /\ CardAusente.origem = Nada /\ CardAusente.partido = FALSE /\ CardAusente.tarefa = "nenhuma"
BY DEF CardAusente, Card

LEMMA OrcamentosTipados ==
    /\ SemOrcamento \in Orcamento /\ OrcamentoGasto \in Orcamento /\ SemReserva \in Reserva
    /\ SemOrcamento.estado = "ausente" /\ OrcamentoGasto.estado = "gasto"
BY DEF SemOrcamento, OrcamentoGasto, SemReserva, Orcamento, Reserva

\* A task changes no more than the task.
LEMMA TarefaCriada ==
    ASSUME NEW k \in Card, NEW e
    PROVE  LET n == CriarTarefaAutomatica(k, e) IN
           /\ n \in Card
           /\ n.etapa = k.etapa /\ n.contato = k.contato /\ n.valor = k.valor
           /\ n.lead = k.lead /\ n.origem = k.origem /\ n.partido = k.partido
<1>1. [k EXCEPT !.tarefa = "pendente"] \in Card
    BY DEF Card
<1> QED
    BY <1>1 DEF CriarTarefaAutomatica, Card

LEMMA TarefaEncerrada ==
    ASSUME NEW k \in Card
    PROVE  /\ CancelarTarefasAutomaticas(k) \in Card
           /\ CancelarTarefasAutomaticas(k) =
                [k EXCEPT !.tarefa = CancelarTarefasAutomaticas(k).tarefa]
           /\ CancelarTarefasAutomaticas(k).tarefa # "pendente"
           /\ ConcluirTarefasAutomaticas(k) \in Card
           /\ ConcluirTarefasAutomaticas(k).tarefa = "nenhuma"
BY DEF CancelarTarefasAutomaticas, ConcluirTarefasAutomaticas, Card

\* A movement is of the chain when it leaves from where the card is.
LEMMA Movido ==
    ASSUME NEW k \in Card, NEW de, NEW e \in Etapas \cup {"ganho", "perdido"}
    PROVE  LET n == RegistrarMovimento(k, de, e) IN
           /\ n \in Card
           /\ n.etapa = e /\ n.contato = k.contato /\ n.valor = k.valor /\ n.tarefa = k.tarefa
           /\ n.lead = k.lead /\ n.origem = k.origem
           /\ de = k.etapa => n.partido = k.partido
BY DEF RegistrarMovimento, Card

\* A card is born in an open stage, of the lead and the origin it is given.
Nasceu(n, c, l, o) ==
    /\ n \in Card /\ card' = [card EXCEPT ![c] = n] /\ n.etapa \in Etapas
    /\ n.lead = l /\ n.origem = o /\ n.partido = FALSE

LEMMA CardCriado ==
    ASSUME NEW c \in Cards, NEW k \in Contatos, NEW l \in Leads \cup {Nada},
           NEW o \in Leads \cup {Nada}, CriarOportunidade(c, k, l, o)
    PROVE  \E n : Nasceu(n, c, l, o)
<1>1. PICK e \in Etapas : card' = [card EXCEPT ![c] = CriarTarefaAutomatica(
          [CardAusente EXCEPT !.etapa = e, !.contato = k, !.lead = l, !.origem = o], e)]
    BY DEF CriarOportunidade
<1> DEFINE k0 == [CardAusente EXCEPT !.etapa = e, !.contato = k, !.lead = l, !.origem = o]
           n == CriarTarefaAutomatica(k0, e)
<1>2. /\ k0 \in Card
      /\ k0.etapa = e /\ k0.lead = l /\ k0.origem = o /\ k0.partido = FALSE
    BY AusenteTipado DEF Card
<1>3. card' = [card EXCEPT ![c] = n]
    BY <1>1
<1>4. n \in Card /\ n.etapa = e /\ n.lead = l /\ n.origem = o /\ n.partido = FALSE
    <2> HIDE DEF k0
    <2> QED
        BY <1>2, TarefaCriada
<1>5. Nasceu(n, c, l, o)
    <2> HIDE DEF n
    <2> QED
        BY <1>3, <1>4 DEF Nasceu
<1> QED
    BY <1>5

-----------------------------------------------------------------------------
(* Requests.                                                               *)

\* Who is past the row of a card shares it with nobody.
LEMMA UmDono ==
    ASSUME IInv, NEW p \in Pedidos, NEW q \in Pedidos, p # q,
           pedido[p].passo \in NoCard, pedido[q].passo \in NoCard
    PROVE  pedido[p].card # pedido[q].card
<1>1. /\ <<"card", pedido[p].card, "exclusiva">> \in pedido[p].travas
      /\ <<"card", pedido[q].card, "exclusiva">> \in pedido[q].travas
    BY DEF IInv, TodosSabem, Sabe, DonoSabe
<1> QED
    BY <1>1 DEF IInv, Exclusao, Choca

\* Locks granted to p, added to those it has, exclude nobody's.
LEMMA TravasDe ==
    ASSUME IInv, NEW p \in Pedidos, NEW travas, Concedidas(p, travas)
    PROVE  Concedidas(p, pedido[p].travas \cup travas)
BY DEF IInv, Exclusao, Concedidas

\* A statement that only moves its own request.
LEMMA SoAndou ==
    ASSUME IInv, NEW p \in Pedidos, NEW n \in Pedido, Sabe(n), Concedidas(p, n.travas),
           pedido' = [pedido EXCEPT ![p] = n], UNCHANGED negocio
    PROVE  IInv'
<1> USE DEF IInv, negocio
<1>1. TypeOK'
    BY DEF TypeOK
<1>2. Exclusao'
    <2> SUFFICES ASSUME NEW a \in Pedidos, NEW b \in Pedidos, a # b,
                        NEW s \in pedido'[a].travas, NEW t \in pedido'[b].travas
                 PROVE  ~Choca(s, t)
        BY DEF Exclusao, Choca
    <2>1. CASE a # p /\ b # p
        BY <2>1 DEF Exclusao, TypeOK
    <2>2. CASE a = p \/ b = p
        BY <2>2 DEF Concedidas, Choca, TypeOK
    <2> QED
        BY <2>1, <2>2
<1>3. TodosSabem'
    <2> SUFFICES ASSUME NEW q \in Pedidos PROVE Sabe(pedido[q])'
        BY DEF TodosSabem
    <2>1. PICK r \in Pedido : r = pedido'[q] /\ Sabe(r)
        BY DEF TodosSabem, TypeOK
    <2>2. Sabe(r)'
        BY <2>1 DEF Sabe, SabeOAlvo, DonoSabe, QuemEscolheu
    <2> QED
        BY <2>1, <2>2
<1>4. Vendido' /\ GanhoPorUm'
    BY DEF Vendido, GanhoPorUm, VendidoA
<1>5. OrigemSoSePerdeAssim' /\ HistoricoEncadeado' /\ FechadoNaoCobra'
    BY DEF OrigemSoSePerdeAssim, HistoricoEncadeado, FechadoNaoCobra, Existe, Aberta
<1> QED
    BY <1>1, <1>2, <1>3, <1>4, <1>5

\* A request that ends while cards and quotes change, but not what the others know.
LEMMA OutrosSabem ==
    ASSUME IInv, NEW p \in Pedidos, pedido' = [pedido EXCEPT ![p] = Livre],
           \A q \in Pedidos \ {p} : pedido[q].passo \in NoCard =>
               /\ card'[pedido[q].card].etapa = card[pedido[q].card].etapa
               /\ card'[pedido[q].card].contato = card[pedido[q].card].contato,
           \A o \in Orcamentos : orcamento[o].estado \in {"aberto", "convertido"} =>
               /\ orcamento'[o].estado \in {"aberto", "convertido"}
               /\ orcamento'[o].total = orcamento[o].total
               /\ orcamento'[o].contato = orcamento[o].contato
    PROVE  pedido' \in [Pedidos -> Pedido] /\ Exclusao' /\ TodosSabem'
<1> USE LivreTipado DEF IInv, TypeOK
<1>1. pedido' \in [Pedidos -> Pedido]
    OBVIOUS
<1>2. Exclusao'
    BY DEF Exclusao, Choca
<1>3. TodosSabem'
    <2> SUFFICES ASSUME NEW q \in Pedidos PROVE Sabe(pedido[q])'
        BY DEF TodosSabem
    <2>1. CASE q = p
        <3>1. pedido'[q] = Livre
            BY <2>1
        <3> QED
            BY <3>1 DEF Sabe, SabeOAlvo, DonoSabe, QuemEscolheu, NoCard
    <2>2. CASE q # p
        <3>1. PICK r \in Pedido : r = pedido[q] /\ r = pedido'[q] /\ Sabe(r)
            BY <2>2 DEF TodosSabem
        <3>2. Sabe(r)'
            BY <2>2, <3>1 DEF Sabe, SabeOAlvo, DonoSabe, QuemEscolheu, NoCard
        <3> QED
            BY <3>1, <3>2
    <2> QED
        BY <2>1, <2>2
<1> QED
    BY <1>1, <1>2, <1>3

-----------------------------------------------------------------------------
(* Statements that take a lock, or wait for one.                           *)

\* What a request that begins becomes, with the locks it got or waiting for them.
LEMMA Comecou ==
    ASSUME IInv, NEW p \in Pedidos, NEW travas \in SUBSET Travas, NEW n \in Pedido,
           n.travas = {}, NEW espera \in Passos,
           Comecar(p, travas, n, espera),
           Sabe([n EXCEPT !.travas = travas]), Sabe([n EXCEPT !.passo = espera])
    PROVE  IInv'
<1>1. CASE Concedidas(p, travas)
    <2> DEFINE m == [n EXCEPT !.travas = travas]
    <2>1. m \in Pedido /\ m.travas = travas /\ [n EXCEPT !.travas = @ \cup travas] = m
        BY DEF Pedido
    <2>2. pedido' = [pedido EXCEPT ![p] = m] /\ UNCHANGED negocio
        BY <1>1, <2>1 DEF Comecar, Seguir
    <2> HIDE DEF m
    <2> QED
        BY <1>1, <2>1, <2>2, SoAndou DEF m
<1>2. CASE ~Concedidas(p, travas)
    <2> DEFINE m == [n EXCEPT !.passo = espera]
    <2>1. m \in Pedido /\ m.travas = {} /\ [m EXCEPT !.travas = @ \cup {}] = m
        BY DEF Pedido
    <2>2. pedido' = [pedido EXCEPT ![p] = m] /\ UNCHANGED negocio
        BY <1>2, <2>1 DEF Comecar, Seguir
    <2>3. Concedidas(p, m.travas)
        BY <2>1 DEF Concedidas
    <2> HIDE DEF m
    <2> QED
        BY <2>1, <2>2, <2>3, SoAndou DEF m
<1> QED
    BY <1>1, <1>2

\* What a request that goes on becomes, with the locks it got.
LEMMA Seguiu ==
    ASSUME IInv, NEW p \in Pedidos, NEW travas \in SUBSET Travas, NEW n \in Pedido,
           n.travas = pedido[p].travas, Concedidas(p, travas),
           Seguir(p, travas, n), UNCHANGED negocio,
           Sabe([n EXCEPT !.travas = n.travas \cup travas])
    PROVE  IInv'
<1> DEFINE m == [n EXCEPT !.travas = n.travas \cup travas]
<1>1. m \in Pedido /\ m.travas = n.travas \cup travas
    BY DEF Pedido
<1>2. pedido' = [pedido EXCEPT ![p] = m]
    BY DEF Seguir
<1>3. Concedidas(p, m.travas)
    BY <1>1, TravasDe
<1> HIDE DEF m
<1> QED
    BY <1>1, <1>2, <1>3, SoAndou DEF m

LEMMA Desistiu ==
    ASSUME IInv, NEW p \in Pedidos, Terminar(p), UNCHANGED negocio
    PROVE  IInv'
<1>1. Concedidas(p, Livre.travas)
    BY LivreTipado DEF Concedidas
<1> QED
    BY <1>1, LivreTipado, SoAndou DEF Terminar

LEMMA TravasTipadas ==
    /\ \A c \in Cards : Trava("card", c) \in SUBSET Travas
    /\ \A l \in Leads : Trava("lead", l) \in SUBSET Travas
    /\ \A l \in Leads \cup {Nada} : Chave("lead", l) \in SUBSET Travas
    /\ \A q \in Orcamentos : Trava("orcamento", q) \in SUBSET Travas
    /\ Trava("datas", Nada) \in SUBSET Travas
BY DEF Trava, Chave, Travas

LEMMA MantemTravarOportunidade ==
    ASSUME IInv, NEW p \in Pedidos, NEW c \in Cards, TravarOportunidade(p, c)
    PROVE  IInv'
<1> DEFINE n == [Livre EXCEPT !.passo = "card", !.card = c, !.de = card[c].etapa]
           m == [n EXCEPT !.travas = Trava("card", c)]
           w == [n EXCEPT !.passo = "esperaCard"]
<1>1. card[c].etapa \in Etapas /\ Trava("card", c) \in SUBSET Travas
    BY TravasTipadas DEF TravarOportunidade, Aberta
<1>2. /\ n \in Pedido /\ n.travas = {}
      /\ n.passo = "card" /\ n.card = c /\ n.de = card[c].etapa
    BY <1>1, LivreTipado DEF Pedido, Passos
<1>3. Comecar(p, Trava("card", c), n, "esperaCard") /\ "esperaCard" \in Passos
    BY DEF TravarOportunidade, Passos
<1> HIDE DEF n
<1>4. /\ m.passo = "card" /\ m.card = c /\ m.de = card[c].etapa /\ m.travas = Trava("card", c)
      /\ w.passo = "esperaCard" /\ w.card = c /\ w.de = card[c].etapa
    BY <1>2 DEF Pedido
<1> HIDE DEF m, w
<1>5. Sabe(m) /\ Sabe(w)
    BY <1>1, <1>4 DEF Sabe, SabeOAlvo, DonoSabe, QuemEscolheu, NoCard, Trava
<1> QED
    BY <1>1, <1>2, <1>3, <1>5, Comecou DEF m, w

LEMMA MantemTravarLead ==
    ASSUME IInv, NEW p \in Pedidos, NEW l \in Leads, TravarLead(p, l)
    PROVE  IInv'
<1> DEFINE n == [Livre EXCEPT !.passo = "lead", !.lead = l, !.semCard = SemOportunidade(l)]
           m == [n EXCEPT !.travas = Trava("lead", l)]
           w == [n EXCEPT !.passo = "esperaLead"]
<1>1. Trava("lead", l) \in SUBSET Travas /\ SemOportunidade(l) \in BOOLEAN
    BY TravasTipadas DEF SemOportunidade
<1>2. n \in Pedido /\ n.travas = {} /\ n.passo = "lead" /\ n.lead = l
    BY <1>1, LivreTipado DEF Pedido, Passos
<1>3. Comecar(p, Trava("lead", l), n, "esperaLead") /\ "esperaLead" \in Passos
    BY DEF TravarLead, Passos
<1> HIDE DEF n
<1>4. m.passo = "lead" /\ m.lead = l /\ w.passo = "esperaLead" /\ w.lead = l
    BY <1>2 DEF Pedido
<1> HIDE DEF m, w
<1>5. Sabe(m) /\ Sabe(w)
    BY <1>4 DEF Sabe, SabeOAlvo, DonoSabe, QuemEscolheu, NoCard
<1> QED
    BY <1>1, <1>2, <1>3, <1>5, Comecou DEF m, w

\* After the wait the card is still in the stage the statement saw.
LEMMA MantemObterOportunidade ==
    ASSUME IInv, NEW p \in Pedidos, ObterOportunidade(p)
    PROVE  IInv'
<1> DEFINE r == pedido[p]
           n == [r EXCEPT !.passo = "card"]
           m == [n EXCEPT !.travas = n.travas \cup Trava("card", r.card)]
<1>1. r \in Pedido /\ r.passo = "esperaCard" /\ UNCHANGED negocio
    BY DEF IInv, TypeOK, ObterOportunidade
<1>0. r.card \in Cards /\ r.de \in Etapas
    BY <1>1 DEF IInv, TodosSabem, Sabe, SabeOAlvo
<1>2. CASE Linha(r)
    <2>1. Concedidas(p, Trava("card", r.card)) /\ Seguir(p, Trava("card", r.card), n)
        BY <1>2 DEF ObterOportunidade
    <2>2. /\ n \in Pedido /\ n.travas = r.travas /\ n.passo = "card"
          /\ n.card = r.card /\ n.de = r.de
        BY <1>1 DEF Pedido, Passos
    <2>3. Trava("card", r.card) \in SUBSET Travas
        BY <1>0, TravasTipadas
    <2> HIDE DEF n
    <2>4. /\ m.passo = "card" /\ m.card = r.card /\ m.de = r.de
          /\ <<"card", r.card, "exclusiva">> \in m.travas
        BY <2>2 DEF Pedido, Trava
    <2> HIDE DEF m
    <2>5. Sabe(m)
        BY <1>0, <1>2, <2>4 DEF Sabe, SabeOAlvo, DonoSabe, QuemEscolheu, Linha
    <2> QED
        BY <1>1, <2>1, <2>2, <2>3, <2>5, Seguiu DEF m
<1>3. CASE ~Linha(r)
    BY <1>1, <1>3, Desistiu DEF ObterOportunidade
<1> QED
    BY <1>2, <1>3

LEMMA MantemObterLead ==
    ASSUME IInv, NEW p \in Pedidos, ObterLead(p)
    PROVE  IInv'
<1> DEFINE r == pedido[p]
           n == [r EXCEPT !.passo = "lead"]
           m == [n EXCEPT !.travas = n.travas \cup Trava("lead", r.lead)]
<1>1. r \in Pedido /\ r.passo = "esperaLead" /\ UNCHANGED negocio
    BY DEF IInv, TypeOK, ObterLead
<1>2. r.lead \in Leads
    BY <1>1 DEF IInv, TodosSabem, Sabe, SabeOAlvo
<1>3. CASE lead[r.lead] # "apagado"
    <2>1. Concedidas(p, Trava("lead", r.lead)) /\ Seguir(p, Trava("lead", r.lead), n)
        BY <1>3 DEF ObterLead
    <2>2. n \in Pedido /\ n.travas = r.travas /\ n.passo = "lead" /\ n.lead = r.lead
        BY <1>1 DEF Pedido, Passos
    <2>3. Trava("lead", r.lead) \in SUBSET Travas
        BY <1>2, TravasTipadas
    <2> HIDE DEF n
    <2>4. m.passo = "lead" /\ m.lead = r.lead
        BY <2>2 DEF Pedido
    <2> HIDE DEF m
    <2>5. Sabe(m)
        BY <1>2, <2>4 DEF Sabe, SabeOAlvo, DonoSabe, QuemEscolheu, NoCard
    <2> QED
        BY <1>1, <2>1, <2>2, <2>3, <2>5, Seguiu DEF m
<1>4. CASE lead[r.lead] = "apagado"
    BY <1>1, <1>4, Desistiu DEF ObterLead
<1> QED
    BY <1>3, <1>4

LEMMA MantemInserirOportunidade ==
    ASSUME IInv, NEW p \in Pedidos, NEW l \in Leads \cup {Nada}, InserirOportunidade(p, l)
    PROVE  IInv'
<1> DEFINE n == [Livre EXCEPT !.passo = "criando", !.lead = l]
           m == [n EXCEPT !.travas = n.travas \cup Chave("lead", l)]
<1>1. /\ pedido[p] = Livre /\ UNCHANGED negocio
      /\ Concedidas(p, Chave("lead", l)) /\ Seguir(p, Chave("lead", l), n)
    BY DEF InserirOportunidade
<1>2. n \in Pedido /\ n.travas = pedido[p].travas /\ n.passo = "criando"
    BY <1>1, LivreTipado DEF Pedido, Passos
<1>3. Chave("lead", l) \in SUBSET Travas
    BY TravasTipadas
<1> HIDE DEF n
<1>4. m.passo = "criando"
    BY <1>2 DEF Pedido
<1> HIDE DEF m
<1>5. Sabe(m)
    BY <1>4 DEF Sabe, SabeOAlvo, DonoSabe, QuemEscolheu, NoCard
<1> QED
    BY <1>1, <1>2, <1>3, <1>5, Seguiu DEF m

LEMMA MantemEmitir ==
    ASSUME IInv, NEW p \in Pedidos, NEW c \in Cards \cup {Nada}, Emitir(p, c)
    PROVE  IInv'
<1> DEFINE k == IF c = Nada THEN Nada ELSE card[c].contato
           n == [Livre EXCEPT !.passo = "emitindo", !.card = c, !.total = tabela, !.contato = k]
           m == [n EXCEPT !.travas = n.travas \cup {}]
<1>1. pedido[p] = Livre /\ UNCHANGED negocio /\ Seguir(p, {}, n)
    BY DEF Emitir
<1>2. k \in Contatos \cup {Nada} /\ tabela \in Nat
    BY DEF IInv, TypeOK, Card
<1> HIDE DEF k
<1>3. n \in Pedido /\ n.travas = pedido[p].travas /\ n.passo = "emitindo"
    BY <1>1, <1>2, LivreTipado DEF Pedido, Passos
<1> HIDE DEF n
<1>4. m.passo = "emitindo"
    BY <1>3 DEF Pedido
<1> HIDE DEF m
<1>5. Sabe(m) /\ Concedidas(p, {})
    BY <1>4 DEF Sabe, SabeOAlvo, DonoSabe, QuemEscolheu, NoCard, Concedidas
<1> QED
    BY <1>1, <1>3, <1>5, Seguiu DEF m

\* The quote is of the card's contact or of nobody, and for this card or for none.
LEMMA MantemOrcamentoParaGanhar ==
    ASSUME IInv, NEW p \in Pedidos, NEW q \in Orcamentos, OrcamentoParaGanhar(p, q)
    PROVE  IInv'
<1> DEFINE r == pedido[p]
           k == card[r.card].contato
           t == orcamento[q].total
           n == [r EXCEPT !.passo = "orcamento", !.orcamento = q, !.total = t, !.contato = k]
           m == [n EXCEPT !.travas = n.travas \cup {}]
<1>1. /\ r \in Pedido /\ r.passo = "card" /\ UNCHANGED negocio /\ Seguir(p, {}, n)
      /\ orcamento[q].estado = "aberto" /\ orcamento[q].contato \in {Nada, k}
    BY DEF IInv, TypeOK, OrcamentoParaGanhar
<1>2. SabeOAlvo(r) /\ DonoSabe(r)
    BY DEF IInv, TodosSabem, Sabe
<1>3. k \in Contatos \cup {Nada} /\ t \in Nat
    BY <1>1, <1>2 DEF IInv, TypeOK, Card, Orcamento, SabeOAlvo, NoCard
<1>4. /\ n \in Pedido /\ n.travas = r.travas /\ n.passo = "orcamento" /\ n.orcamento = q
      /\ n.total = t /\ n.contato = k /\ n.card = r.card /\ n.de = r.de
    <2> HIDE DEF t, k
    <2> QED
        BY <1>1, <1>3 DEF Pedido, Passos
<1> HIDE DEF n
<1>5. /\ m.travas = r.travas /\ m.passo = "orcamento" /\ m.orcamento = q
      /\ m.total = t /\ m.contato = k /\ m.card = r.card /\ m.de = r.de
    BY <1>4 DEF Pedido
<1> HIDE DEF m
<1>6. Sabe(m) /\ Concedidas(p, {})
    BY <1>1, <1>2, <1>5 DEF Sabe, SabeOAlvo, DonoSabe, QuemEscolheu, NoCard, Concedidas
<1> QED
    BY <1>1, <1>4, <1>6, Seguiu DEF m

LEMMA MantemEmitirDoOrcamento ==
    ASSUME IInv, NEW p \in Pedidos, EmitirDoOrcamento(p)
    PROVE  IInv'
<1> DEFINE r == pedido[p]
           travas == Trava("orcamento", r.orcamento) \cup Trava("datas", Nada)
           n == [r EXCEPT !.passo = "vendido"]
           m == [n EXCEPT !.travas = n.travas \cup travas]
<1>1. r \in Pedido /\ r.passo = "orcamento" /\ UNCHANGED negocio /\ Concedidas(p, travas)
    BY DEF IInv, TypeOK, EmitirDoOrcamento
<1>2. SabeOAlvo(r) /\ DonoSabe(r) /\ QuemEscolheu(r)
    BY DEF IInv, TodosSabem, Sabe
<1>3. CASE Seguir(p, travas, n)
    <2>1. travas \in SUBSET Travas
        BY <1>1, <1>2, TravasTipadas DEF QuemEscolheu
    <2>2. /\ n \in Pedido /\ n.travas = r.travas /\ n.passo = "vendido" /\ n.card = r.card
          /\ n.de = r.de /\ n.orcamento = r.orcamento /\ n.total = r.total
          /\ n.contato = r.contato
        BY <1>1 DEF Pedido, Passos
    <2> HIDE DEF n, travas
    <2>3. /\ r.travas \subseteq m.travas /\ m.passo = "vendido" /\ m.card = r.card
          /\ m.de = r.de /\ m.orcamento = r.orcamento /\ m.total = r.total
          /\ m.contato = r.contato
        BY <2>2 DEF Pedido
    <2> HIDE DEF m
    <2>4. Sabe(m)
        BY <1>1, <1>2, <2>3 DEF Sabe, SabeOAlvo, DonoSabe, QuemEscolheu, NoCard
    <2> QED
        BY <1>1, <1>3, <2>1, <2>2, <2>4, Seguiu DEF m
<1>4. CASE Terminar(p)
    BY <1>1, <1>4, Desistiu
<1> QED
    BY <1>3, <1>4 DEF EmitirDoOrcamento

LEMMA MantemTrocarLead ==
    ASSUME IInv, NEW p \in Pedidos, NEW l \in Leads \cup {Nada}, TrocarLead(p, l)
    PROVE  IInv'
<1> DEFINE r == pedido[p]
           n == [r EXCEPT !.passo = "trocando", !.lead = l]
           m == [n EXCEPT !.travas = n.travas \cup Chave("lead", l)]
<1>1. /\ r \in Pedido /\ r.passo = "card" /\ UNCHANGED negocio
      /\ Concedidas(p, Chave("lead", l)) /\ Seguir(p, Chave("lead", l), n)
    BY DEF IInv, TypeOK, TrocarLead
<1>2. /\ r.card \in Cards /\ r.de \in Etapas /\ card[r.card].etapa = r.de
      /\ <<"card", r.card, "exclusiva">> \in r.travas
    BY <1>1 DEF IInv, TodosSabem, Sabe, SabeOAlvo, DonoSabe, NoCard
<1>3. /\ n \in Pedido /\ n.travas = r.travas /\ n.passo = "trocando"
      /\ n.card = r.card /\ n.de = r.de
    BY <1>1 DEF Pedido, Passos
<1>4. Chave("lead", l) \in SUBSET Travas
    BY TravasTipadas
<1> HIDE DEF n
<1>5. /\ m.passo = "trocando" /\ m.card = r.card /\ m.de = r.de
      /\ <<"card", r.card, "exclusiva">> \in m.travas
    BY <1>2, <1>3 DEF Pedido
<1> HIDE DEF m
<1>6. Sabe(m)
    BY <1>2, <1>5 DEF Sabe, SabeOAlvo, DonoSabe, QuemEscolheu
<1> QED
    BY <1>1, <1>3, <1>4, <1>6, Seguiu DEF m

LEMMA MantemCair ==
    ASSUME IInv, NEW p \in Pedidos, Cair(p)
    PROVE  IInv'
BY Desistiu DEF Cair

-----------------------------------------------------------------------------
(* Statements that write rows.                                             *)

\* A card that was not won is written, and is still not won.
LEMMA NaoEVenda ==
    ASSUME IInv, NEW c \in Cards, NEW n \in Card, card' = [card EXCEPT ![c] = n],
           card[c].etapa # "ganho", n.etapa # "ganho", UNCHANGED <<orcamento, reserva>>
    PROVE  Vendido' /\ GanhoPorUm'
<1>1. Vendido'
    BY DEF IInv, TypeOK, Vendido
<1>2. GanhoPorUm'
    BY DEF IInv, TypeOK, GanhoPorUm, VendidoA
<1> QED
    BY <1>1, <1>2

\* The owner of a card's row writes it.
LEMMA OutrosSabemDoCard ==
    ASSUME IInv, NEW p \in Pedidos, pedido[p].passo \in NoCard,
           NEW n \in Card, card' = [card EXCEPT ![pedido[p].card] = n],
           pedido' = [pedido EXCEPT ![p] = Livre],
           \A o \in Orcamentos : orcamento[o].estado \in {"aberto", "convertido"} =>
               /\ orcamento'[o].estado \in {"aberto", "convertido"}
               /\ orcamento'[o].total = orcamento[o].total
               /\ orcamento'[o].contato = orcamento[o].contato
    PROVE  /\ pedido' \in [Pedidos -> Pedido] /\ card' \in [Cards -> Card]
           /\ Exclusao' /\ TodosSabem'
<1>1. ASSUME NEW q \in Pedidos \ {p}, pedido[q].passo \in NoCard
      PROVE  card'[pedido[q].card] = card[pedido[q].card]
    <2>1. pedido[q].card # pedido[p].card /\ pedido[q].card \in Cards
        BY <1>1, UmDono DEF IInv, TodosSabem, Sabe, SabeOAlvo
    <2> QED
        BY <2>1 DEF IInv, TypeOK
<1>2. card' \in [Cards -> Card]
    BY DEF IInv, TypeOK
<1> QED
    BY <1>1, <1>2, OutrosSabem

\* A card is born where nobody was looking.
LEMMA OutrosSabemDoNovo ==
    ASSUME IInv, NEW p \in Pedidos, NEW c \in Cards, Nova(c),
           NEW n \in Card, card' = [card EXCEPT ![c] = n],
           pedido' = [pedido EXCEPT ![p] = Livre], UNCHANGED orcamento
    PROVE  /\ pedido' \in [Pedidos -> Pedido] /\ card' \in [Cards -> Card]
           /\ Exclusao' /\ TodosSabem'
<1>1. ASSUME NEW q \in Pedidos
      PROVE  card'[pedido[q].card] = card[pedido[q].card]
    BY DEF IInv, TypeOK, Nova
<1>2. card' \in [Cards -> Card]
    BY DEF IInv, TypeOK
<1> QED
    BY <1>1, <1>2, OutrosSabem

LEMMA MantemCriar ==
    ASSUME IInv, NEW p \in Pedidos, NEW c \in Cards, NEW k \in Contatos, Criar(p, c, k)
    PROVE  IInv'
<1>1. PICK l \in Leads \cup {Nada} : l = pedido[p].lead
    BY DEF IInv, TypeOK, Pedido
<1>2. CriarOportunidade(c, k, l, Nada)
    BY <1>1 DEF Criar
<1>3. PICK n : Nasceu(n, c, l, Nada)
    BY <1>1, <1>2, CardCriado
<1> USE DEF Nasceu
<1>4. /\ pedido' = [pedido EXCEPT ![p] = Livre] /\ Nova(c) /\ card[c].etapa = "ausente"
      /\ UNCHANGED <<tabela, lead, orcamento, reserva, ocupada, naEspera, trocados>>
    BY DEF Criar, Terminar, Nova, Existe
<1>5. TypeOK' /\ Exclusao' /\ TodosSabem'
    BY <1>3, <1>4, OutrosSabemDoNovo DEF IInv, TypeOK
<1>6. Vendido' /\ GanhoPorUm'
    BY <1>3, <1>4, OportunidadesAssumption, NaoEVenda
<1>7. OrigemSoSePerdeAssim'
    BY <1>3, <1>4 DEF IInv, TypeOK, OrigemSoSePerdeAssim
<1>8. HistoricoEncadeado' /\ FechadoNaoCobra'
    BY <1>3, <1>4 DEF IInv, TypeOK, HistoricoEncadeado, FechadoNaoCobra, Existe, Aberta
<1> QED
    BY <1>5, <1>6, <1>7, <1>8 DEF IInv

\* No card had the lead, unless the request saw the cards before a wait.
LEMMA MantemConverter ==
    ASSUME IInv, NEW p \in Pedidos, NEW c \in Cards, NEW k \in Contatos, Converter(p, c, k)
    PROVE  IInv'
<1>1. PICK l \in Leads : l = pedido[p].lead
    BY DEF Converter, IInv, TodosSabem, Sabe, SabeOAlvo
<1>2. CriarOportunidade(c, k, l, l)
    BY <1>1 DEF Converter
<1>3. PICK n : Nasceu(n, c, l, l)
    BY <1>1, <1>2, CardCriado
<1> USE DEF Nasceu
<1>4. /\ pedido' = [pedido EXCEPT ![p] = Livre] /\ Nova(c) /\ card[c].etapa = "ausente"
      /\ lead' = [lead EXCEPT ![l] = "convertido"]
      /\ pedido[p].semCard /\ MarcarEspera(pedido[p])
      /\ UNCHANGED <<tabela, orcamento, reserva, ocupada, trocados>>
    BY <1>1 DEF Converter, Terminar, Nova, Existe, SemCardNaLeitura
<1>5. /\ naEspera \subseteq naEspera' /\ naEspera' \subseteq Leads
      /\ l \in naEspera' \/ SemOportunidade(l)
    BY <1>1, <1>4 DEF MarcarEspera, IInv, TypeOK, Pedido
<1>6. TypeOK' /\ Exclusao' /\ TodosSabem'
    BY <1>1, <1>3, <1>4, <1>5, OutrosSabemDoNovo DEF IInv, TypeOK
<1>7. Vendido' /\ GanhoPorUm'
    BY <1>3, <1>4, OportunidadesAssumption, NaoEVenda
<1>8. OrigemSoSePerdeAssim'
    BY <1>3, <1>4, <1>5 DEF IInv, TypeOK, OrigemSoSePerdeAssim, SemOportunidade
<1>9. HistoricoEncadeado' /\ FechadoNaoCobra'
    BY <1>3, <1>4 DEF IInv, TypeOK, HistoricoEncadeado, FechadoNaoCobra, Existe, Aberta
<1> QED
    BY <1>6, <1>7, <1>8, <1>9 DEF IInv

\* The cards that lose the lead had it, and were not of another origin.
LEMMA MantemExcluirLead ==
    ASSUME IInv, NEW p \in Pedidos, ExcluirLead(p)
    PROVE  IInv'
<1> DEFINE l == pedido[p].lead
           seus == {c \in Cards : card[c].lead = l}
<1>1. l \in Leads
    BY DEF ExcluirLead, IInv, TodosSabem, Sabe, SabeOAlvo
<1>2. /\ pedido' = [pedido EXCEPT ![p] = Livre]
      /\ lead' = [lead EXCEPT ![l] = "apagado"]
      /\ card' = [c \in Cards |-> IF c \in seus THEN [card[c] EXCEPT !.lead = Nada] ELSE card[c]]
      /\ pedido[p].semCard /\ MarcarEspera(pedido[p])
      /\ UNCHANGED <<tabela, orcamento, reserva, ocupada, trocados>>
    BY DEF ExcluirLead, Terminar, SemCardNaLeitura
<1>3. /\ naEspera \subseteq naEspera' /\ naEspera' \subseteq Leads
      /\ l \in naEspera' \/ SemOportunidade(l)
    BY <1>1, <1>2 DEF MarcarEspera, IInv, TypeOK, Pedido
<1>4. ASSUME NEW c \in Cards
      PROVE  /\ card'[c] \in Card
             /\ card'[c].etapa = card[c].etapa /\ card'[c].contato = card[c].contato
             /\ card'[c].valor = card[c].valor /\ card'[c].origem = card[c].origem
             /\ card'[c].partido = card[c].partido /\ card'[c].tarefa = card[c].tarefa
             /\ card[c].lead # l => card'[c].lead = card[c].lead
    BY <1>2 DEF IInv, TypeOK, Card
<1>5. TypeOK' /\ Exclusao' /\ TodosSabem'
    <2>1. card' \in [Cards -> Card]
        BY <1>2, <1>4
    <2>2. pedido' \in [Pedidos -> Pedido] /\ Exclusao' /\ TodosSabem'
        <3>1. \A q \in Pedidos : pedido[q].passo \in NoCard => pedido[q].card \in Cards
            BY DEF IInv, TodosSabem, Sabe, SabeOAlvo
        <3> QED
            BY <1>2, <1>4, <3>1, OutrosSabem
    <2> QED
        BY <1>2, <1>3, <2>1, <2>2 DEF IInv, TypeOK
<1>6. Vendido'
    BY <1>2, <1>4 DEF IInv, Vendido
<1>7. GanhoPorUm'
    BY <1>2, <1>4 DEF IInv, GanhoPorUm, VendidoA
<1>8. OrigemSoSePerdeAssim'
    BY <1>2, <1>3, <1>4 DEF IInv, OrigemSoSePerdeAssim, SemOportunidade
<1>9. HistoricoEncadeado' /\ FechadoNaoCobra'
    BY <1>4 DEF IInv, HistoricoEncadeado, FechadoNaoCobra, Existe, Aberta
<1> QED
    BY <1>5, <1>6, <1>7, <1>8, <1>9 DEF IInv

-----------------------------------------------------------------------------
(* The owner of a card's row writes it and commits.                        *)

LEMMA DonoDoCard ==
    ASSUME IInv, NEW p \in Pedidos, pedido[p].passo \in NoCard
    PROVE  /\ pedido[p] \in Pedido /\ pedido[p].card \in Cards /\ pedido[p].de \in Etapas
           /\ card[pedido[p].card] \in Card /\ card[pedido[p].card].etapa = pedido[p].de
           /\ card[pedido[p].card].partido = FALSE
BY DEF IInv, TypeOK, TodosSabem, Sabe, SabeOAlvo, DonoSabe, HistoricoEncadeado, Card

LEMMA DonoEscreve ==
    ASSUME IInv, NEW p \in Pedidos, pedido[p].passo \in NoCard,
           NEW c \in Cards, c = pedido[p].card,
           trocados \subseteq Leads => trocados \subseteq trocados' /\ trocados' \subseteq Leads,
           NEW n \in Card, card' = [card EXCEPT ![c] = n],
           n.etapa # "ganho", n.etapa \in Etapas \/ n.tarefa # "pendente",
           n.origem = card[c].origem, n.partido = FALSE,
           n.lead = card[c].lead
             \/ (card[c].lead = card[c].origem => card[c].origem \in trocados' \cup {Nada}),
           Terminar(p), UNCHANGED <<tabela, lead, orcamento, reserva, ocupada, naEspera>>
    PROVE  IInv'
<1>1. card[c].etapa # "ganho"
    BY DonoDoCard, OportunidadesAssumption
<1>2. TypeOK' /\ Exclusao' /\ TodosSabem'
    BY OutrosSabemDoCard DEF IInv, TypeOK, Terminar
<1>3. Vendido' /\ GanhoPorUm'
    BY <1>1, NaoEVenda
<1>4. OrigemSoSePerdeAssim'
    BY DEF IInv, TypeOK, OrigemSoSePerdeAssim
<1>5. HistoricoEncadeado' /\ FechadoNaoCobra'
    BY DEF IInv, TypeOK, HistoricoEncadeado, FechadoNaoCobra, Existe, Aberta
<1> QED
    BY <1>2, <1>3, <1>4, <1>5 DEF IInv

LEMMA MantemMudarEtapa ==
    ASSUME IInv, NEW p \in Pedidos, NEW e \in Etapas, MudarEtapa(p, e)
    PROVE  IInv'
<1>1. /\ pedido[p].passo \in NoCard /\ Terminar(p)
      /\ UNCHANGED <<tabela, lead, orcamento, reserva, ocupada, naEspera, trocados>>
    BY DEF MudarEtapa, NoCard
<1>2. PICK c \in Cards : c = pedido[p].card
    BY <1>1, DonoDoCard
<1>3. PICK k \in Card : k = card[c]
    BY <1>1, <1>2, DonoDoCard
<1>4. PICK de \in Etapas : de = pedido[p].de
    BY <1>1, DonoDoCard
<1>5. k.etapa = de /\ k.partido = FALSE
    BY <1>1, <1>2, <1>3, <1>4, DonoDoCard
<1> DEFINE m == RegistrarMovimento(k, de, e)
           n == CriarTarefaAutomatica(m, e)
<1>6. /\ m \in Card /\ m.etapa = e /\ m.lead = k.lead /\ m.origem = k.origem
      /\ m.partido = FALSE
    BY <1>5, Movido
<1>7. card' = [card EXCEPT ![c] = n]
    BY <1>2, <1>3, <1>4 DEF MudarEtapa, EntrarNaEtapa
<1> HIDE DEF m
<1>8. /\ n \in Card /\ n.etapa = e /\ n.lead = k.lead /\ n.origem = k.origem
      /\ n.partido = FALSE
    BY <1>6, TarefaCriada
<1> HIDE DEF n
<1> QED
    BY <1>1, <1>2, <1>3, <1>7, <1>8, OportunidadesAssumption, DonoEscreve

\* An edit that takes the card away from its lead says so.
LEMMA MantemAtualizarOportunidade ==
    ASSUME IInv, NEW p \in Pedidos, NEW k \in Contatos, AtualizarOportunidade(p, k)
    PROVE  IInv'
<1>1. /\ pedido[p].passo \in NoCard /\ Terminar(p)
      /\ UNCHANGED <<tabela, lead, orcamento, reserva, ocupada, naEspera>>
    BY DEF AtualizarOportunidade, NoCard
<1>2. PICK c \in Cards : c = pedido[p].card
    BY <1>1, DonoDoCard
<1>3. card[c] \in Card /\ card[c].etapa \in Etapas /\ card[c].partido = FALSE
    BY <1>1, <1>2, DonoDoCard
<1>4. PICK novo \in Leads \cup {Nada} :
          novo = IF pedido[p].passo = "card" THEN card[c].lead ELSE pedido[p].lead
    BY <1>1, <1>3, DonoDoCard DEF Card, Pedido
<1> DEFINE n == [card[c] EXCEPT !.contato = k, !.lead = novo, !.valor = 0]
<1>5. card' = [card EXCEPT ![c] = n]
    BY <1>2, <1>4 DEF AtualizarOportunidade
<1>6. trocados' = IF novo = card[c].lead THEN trocados
                  ELSE trocados \cup ({card[c].lead} \cap {card[c].origem} \cap Leads)
    BY <1>2, <1>4 DEF AtualizarOportunidade
<1>7. /\ n \in Card /\ n.etapa \in Etapas /\ n.lead = novo
      /\ n.origem = card[c].origem /\ n.partido = FALSE
    BY <1>3 DEF Card
<1>8. /\ trocados \subseteq trocados' /\ trocados' \subseteq Leads
      /\ \/ n.lead = card[c].lead
         \/ card[c].lead = card[c].origem => card[c].origem \in trocados' \cup {Nada}
    BY <1>3, <1>6, <1>7 DEF IInv, TypeOK, Card
<1> HIDE DEF n
<1> QED
    BY <1>1, <1>2, <1>5, <1>7, <1>8, OportunidadesAssumption, DonoEscreve

LEMMA MantemPerder ==
    ASSUME IInv, NEW p \in Pedidos, Perder(p)
    PROVE  IInv'
<1>1. /\ pedido[p].passo \in NoCard /\ Terminar(p)
      /\ UNCHANGED <<tabela, lead, orcamento, reserva, ocupada, naEspera, trocados>>
    BY DEF Perder, NoCard
<1>2. PICK c \in Cards : c = pedido[p].card
    BY <1>1, DonoDoCard
<1>3. PICK k \in Card : k = card[c]
    BY <1>1, <1>2, DonoDoCard
<1>4. PICK de \in Etapas : de = pedido[p].de
    BY <1>1, DonoDoCard
<1>5. k.etapa = de /\ k.partido = FALSE
    BY <1>1, <1>2, <1>3, <1>4, DonoDoCard
<1> DEFINE j == [k EXCEPT !.valor = 0, !.contato = Nada]
           m == CancelarTarefasAutomaticas(j)
           n == RegistrarMovimento(m, de, "perdido")
<1>6. card' = [card EXCEPT ![c] = n]
    BY <1>2, <1>3, <1>4 DEF Perder
<1>7. /\ j \in Card /\ j.etapa = de /\ j.lead = k.lead /\ j.origem = k.origem
      /\ j.partido = FALSE
    BY <1>5 DEF Card
<1> HIDE DEF j
<1>8. /\ m \in Card /\ m.etapa = de /\ m.lead = k.lead /\ m.origem = k.origem
      /\ m.partido = FALSE /\ m.tarefa # "pendente"
    BY <1>7, TarefaEncerrada DEF Card
<1> HIDE DEF m
<1>9. /\ n \in Card /\ n.etapa = "perdido" /\ n.lead = k.lead /\ n.origem = k.origem
      /\ n.partido = FALSE /\ n.tarefa # "pendente"
    BY <1>8, Movido
<1> HIDE DEF n
<1> QED
    BY <1>1, <1>2, <1>3, <1>6, <1>9, DonoEscreve

\* The open card goes; its quotes, none of them sold, stay loose.
LEMMA MantemExcluirOportunidade ==
    ASSUME IInv, NEW p \in Pedidos, ExcluirOportunidade(p)
    PROVE  IInv'
<1>1. /\ pedido[p].passo \in NoCard /\ pedido' = [pedido EXCEPT ![p] = Livre]
      /\ UNCHANGED <<tabela, lead, reserva, ocupada, naEspera, trocados>>
    BY DEF ExcluirOportunidade, NoCard, Terminar
<1>2. PICK c \in Cards : c = pedido[p].card
    BY <1>1, DonoDoCard
<1>3. card[c].etapa \in Etapas /\ card' = [card EXCEPT ![c] = CardAusente]
    BY <1>1, <1>2, DonoDoCard DEF ExcluirOportunidade
<1>4. ASSUME NEW q \in Orcamentos
      PROVE  /\ orcamento'[q] \in Orcamento
             /\ orcamento'[q].estado = orcamento[q].estado
             /\ orcamento'[q].total = orcamento[q].total
             /\ orcamento'[q].contato = orcamento[q].contato
             /\ orcamento[q].card # c => orcamento'[q].card = orcamento[q].card
    BY <1>2 DEF ExcluirOportunidade, IInv, TypeOK, Orcamento
<1>5. \A q \in Orcamentos : orcamento[q].estado = "convertido" => orcamento[q].card # c
    BY <1>3, OportunidadesAssumption DEF IInv, Vendido
<1>6. orcamento' \in [Orcamentos -> Orcamento]
    BY <1>4 DEF ExcluirOportunidade
<1>7. TypeOK' /\ Exclusao' /\ TodosSabem'
    BY <1>1, <1>2, <1>3, <1>4, <1>6, AusenteTipado, OutrosSabemDoCard DEF IInv, TypeOK
<1>8. Vendido'
    BY <1>1, <1>3, <1>4, <1>5 DEF IInv, TypeOK, Vendido
<1>9. GanhoPorUm'
    <2> SUFFICES ASSUME NEW d \in Cards, card'[d].etapa = "ganho"
                 PROVE  \E q \in Orcamentos : VendidoA(d)' = {q}
        BY DEF GanhoPorUm
    <2>1. d # c /\ card[d].etapa = "ganho"
        BY <1>3, AusenteTipado DEF IInv, TypeOK
    <2>2. VendidoA(d)' = VendidoA(d)
        BY <1>4, <1>5, <2>1 DEF VendidoA
    <2> QED
        BY <2>1, <2>2 DEF IInv, GanhoPorUm
<1>10. OrigemSoSePerdeAssim'
    BY <1>1, <1>3, AusenteTipado DEF IInv, TypeOK, OrigemSoSePerdeAssim
<1>11. HistoricoEncadeado' /\ FechadoNaoCobra'
    BY <1>3, AusenteTipado DEF IInv, TypeOK, HistoricoEncadeado, FechadoNaoCobra, Existe, Aberta
<1> QED
    BY <1>7, <1>8, <1>9, <1>10, <1>11 DEF IInv

\* A quote nobody has read appears, and an open card takes its amount.
LEMMA MantemInserirOrcamento ==
    ASSUME IInv, NEW p \in Pedidos, NEW q \in Orcamentos, InserirOrcamento(p, q)
    PROVE  IInv'
<1> DEFINE r == pedido[p]
           novo == [estado |-> "aberto", card |-> r.card, contato |-> r.contato,
                    total |-> r.total]
<1>1. /\ orcamento[q].estado = "ausente" /\ orcamento' = [orcamento EXCEPT ![q] = novo]
      /\ card' = [c \in Cards |-> IF c = r.card THEN AtualizarValorEsperado(card[c], r.total)
                                  ELSE card[c]]
      /\ pedido' = [pedido EXCEPT ![p] = Livre]
      /\ UNCHANGED <<tabela, lead, reserva, ocupada, naEspera, trocados>>
    BY DEF InserirOrcamento, Terminar
<1>2. r \in Pedido
    BY DEF IInv, TypeOK
<1>3. novo \in Orcamento /\ novo.estado = "aberto"
    BY <1>2 DEF Pedido, Orcamento
<1>4. ASSUME NEW c \in Cards
      PROVE  /\ card'[c] \in Card
             /\ card'[c].etapa = card[c].etapa /\ card'[c].contato = card[c].contato
             /\ card'[c].lead = card[c].lead /\ card'[c].origem = card[c].origem
             /\ card'[c].partido = card[c].partido /\ card'[c].tarefa = card[c].tarefa
             /\ card[c].etapa \notin Etapas => card'[c] = card[c]
    BY <1>1, <1>2 DEF AtualizarValorEsperado, IInv, TypeOK, Card, Pedido
<1> HIDE DEF novo
<1>5. /\ \A o \in Orcamentos \ {q} : orcamento'[o] = orcamento[o]
      /\ orcamento'[q] = novo /\ orcamento' \in [Orcamentos -> Orcamento]
    BY <1>1, <1>3 DEF IInv, TypeOK
<1>6. card' \in [Cards -> Card]
    BY <1>1, <1>4
<1>7. \A o \in Orcamentos : orcamento[o].estado \in {"aberto", "convertido"} => o # q
    BY <1>1
<1>8. pedido' \in [Pedidos -> Pedido] /\ Exclusao' /\ TodosSabem'
    <2>1. \A s \in Pedidos : pedido[s].passo \in NoCard => pedido[s].card \in Cards
        BY DEF IInv, TodosSabem, Sabe, SabeOAlvo
    <2> HIDE DEF r
    <2> QED
        BY <1>1, <1>4, <1>5, <1>7, <2>1, OutrosSabem
<1>9. TypeOK'
    BY <1>1, <1>5, <1>6, <1>8 DEF IInv, TypeOK
<1>10. Vendido'
    BY <1>1, <1>3, <1>4, <1>5, OportunidadesAssumption DEF IInv, Vendido
<1>11. GanhoPorUm'
    <2> SUFFICES ASSUME NEW d \in Cards, card'[d].etapa = "ganho"
                 PROVE  \E o \in Orcamentos : VendidoA(d)' = {o}
        BY DEF GanhoPorUm
    <2>1. VendidoA(d)' = VendidoA(d)
        BY <1>1, <1>3, <1>5 DEF VendidoA
    <2> QED
        BY <1>4, <2>1 DEF IInv, GanhoPorUm
<1>12. OrigemSoSePerdeAssim'
    BY <1>1, <1>4 DEF IInv, OrigemSoSePerdeAssim
<1>13. HistoricoEncadeado' /\ FechadoNaoCobra'
    BY <1>4 DEF IInv, HistoricoEncadeado, FechadoNaoCobra, Existe, Aberta
<1> QED
    BY <1>8, <1>9, <1>10, <1>11, <1>12, <1>13 DEF IInv

\* The quote is sold to the card it was chosen for, at the price it was read with.
LEMMA MantemGanhar ==
    ASSUME IInv, NEW p \in Pedidos, Ganhar(p)
    PROVE  IInv'
<1>1. pedido[p].passo \in NoCard /\ pedido[p].passo = "vendido" /\ Terminar(p)
    BY DEF Ganhar, NoCard
<1>2. PICK r \in Pedido : r = pedido[p]
    BY <1>1, DonoDoCard
<1>3. PICK q \in Orcamentos : q = r.orcamento
    BY <1>1, <1>2 DEF IInv, TodosSabem, Sabe, QuemEscolheu
<1>4. PICK c \in Cards : c = r.card
    BY <1>1, <1>2, DonoDoCard
<1>5. PICK k \in Card : k = card[c]
    BY <1>1, <1>2, <1>4, DonoDoCard
<1>6. k.etapa = r.de /\ k.etapa \in Etapas /\ k.partido = FALSE
    BY <1>1, <1>2, <1>4, <1>5, DonoDoCard
<1>7. /\ orcamento[q].estado \in {"aberto", "convertido"} /\ orcamento[q].total = r.total
      /\ orcamento[q].contato \in {Nada, r.contato} /\ k.contato = r.contato
    BY <1>1, <1>2, <1>3, <1>4, <1>5 DEF IInv, TodosSabem, Sabe, QuemEscolheu
<1>8. CASE MarcarConvertido(q)
    BY <1>1, <1>2, <1>3, <1>8, Desistiu DEF Ganhar
<1>9. CASE ~MarcarConvertido(q)
    <2> DEFINE nova == [total |-> r.total, contato |-> r.contato]
               vendido == [orcamento[q] EXCEPT !.estado = "convertido", !.card = c]
               j == [k EXCEPT !.valor = r.total]
               m == ConcluirTarefasAutomaticas(j)
               n == RegistrarMovimento(m, r.de, "ganho")
    <2>1. orcamento[q].estado = "aberto" /\ reserva[q] = SemReserva
        BY <1>7, <1>9 DEF MarcarConvertido, IInv, Vendido
    <2>2. /\ reserva' = [reserva EXCEPT ![q] = nova]
          /\ card' = [card EXCEPT ![c] = n]
          /\ UNCHANGED <<tabela, lead, naEspera, trocados>> /\ ocupada' = TRUE
        BY <1>2, <1>3, <1>4, <1>5, <1>9, <2>1 DEF Ganhar
    <2>3. orcamento' = [orcamento EXCEPT ![q] = vendido]
        BY <1>2, <1>3, <1>4, <1>9 DEF Ganhar, IInv, TypeOK, Orcamento
    <2>4. nova \in Reserva /\ nova.total = r.total /\ nova.contato = r.contato
        BY DEF Reserva, Pedido
    <2>5. /\ vendido \in Orcamento /\ vendido.estado = "convertido" /\ vendido.card = c
          /\ vendido.total = r.total /\ vendido.contato = orcamento[q].contato
        BY <1>7 DEF IInv, TypeOK, Orcamento
    <2>6. /\ j \in Card /\ j.etapa = r.de /\ j.lead = k.lead /\ j.origem = k.origem
          /\ j.partido = FALSE /\ j.valor = r.total /\ j.contato = r.contato
        BY <1>6, <1>7 DEF Card, Pedido
    <2> HIDE DEF j
    <2>7. /\ m \in Card /\ m.etapa = r.de /\ m.lead = k.lead /\ m.origem = k.origem
          /\ m.partido = FALSE /\ m.tarefa = "nenhuma" /\ m.valor = r.total
          /\ m.contato = r.contato
        BY <2>6 DEF ConcluirTarefasAutomaticas, Card
    <2> HIDE DEF m
    <2>8. /\ n \in Card /\ n.etapa = "ganho" /\ n.lead = k.lead /\ n.origem = k.origem
          /\ n.partido = FALSE /\ n.tarefa = "nenhuma" /\ n.valor = r.total
          /\ n.contato = r.contato
        BY <2>7, Movido
    <2> HIDE DEF n, vendido, nova
    <2>9. /\ \A o \in Orcamentos \ {q} : orcamento'[o] = orcamento[o] /\ reserva'[o] = reserva[o]
          /\ orcamento'[q] = vendido /\ reserva'[q] = nova
          /\ \A d \in Cards \ {c} : card'[d] = card[d]
          /\ card'[c] = n
        BY <2>2, <2>3 DEF IInv, TypeOK
    <2>10. pedido' \in [Pedidos -> Pedido] /\ card' \in [Cards -> Card] /\ Exclusao' /\ TodosSabem'
        <3>1. \A o \in Orcamentos : orcamento[o].estado \in {"aberto", "convertido"} =>
                 /\ orcamento'[o].estado \in {"aberto", "convertido"}
                 /\ orcamento'[o].total = orcamento[o].total
                 /\ orcamento'[o].contato = orcamento[o].contato
            BY <1>7, <2>5, <2>9
        <3> QED
            BY <1>1, <1>2, <1>4, <2>2, <2>8, <3>1, OutrosSabemDoCard DEF Terminar
    <2>11. TypeOK'
        BY <2>2, <2>3, <2>4, <2>5, <2>10 DEF IInv, TypeOK
    <2>12. \A o \in Orcamentos : orcamento[o].estado = "convertido" => o # q /\ orcamento[o].card # c
        BY <1>5, <1>6, <2>1, OportunidadesAssumption DEF IInv, Vendido
    <2>13. Vendido'
        <3> SUFFICES ASSUME NEW o \in Orcamentos
                     PROVE  /\ orcamento'[o].estado # "convertido" => reserva'[o] = SemReserva
                            /\ orcamento'[o].estado = "convertido" =>
                                 /\ orcamento'[o].card \in Cards
                                 /\ card'[orcamento'[o].card].etapa = "ganho"
                                 /\ orcamento'[o].total = reserva'[o].total
                                 /\ card'[orcamento'[o].card].valor = reserva'[o].total
                                 /\ card'[orcamento'[o].card].contato = reserva'[o].contato
                                 /\ orcamento'[o].contato \in {Nada, reserva'[o].contato}
            BY DEF Vendido, SemReserva
        <3>1. CASE o = q
            BY <1>7, <2>4, <2>5, <2>8, <2>9, <3>1
        <3>2. CASE o # q
            BY <2>9, <2>12, <3>2 DEF IInv, Vendido
        <3> QED
            BY <3>1, <3>2
    <2>14. GanhoPorUm'
        <3> SUFFICES ASSUME NEW d \in Cards, card'[d].etapa = "ganho"
                     PROVE  \E o \in Orcamentos : VendidoA(d)' = {o}
            BY DEF GanhoPorUm
        <3>1. CASE d = c
            <4>1. VendidoA(c)' = {q}
                BY <2>5, <2>9, <2>12 DEF VendidoA
            <4> QED
                BY <3>1, <4>1
        <3>2. CASE d # c
            <4>1. VendidoA(d)' = VendidoA(d)
                BY <2>1, <2>5, <2>9, <3>2 DEF VendidoA
            <4> QED
                BY <2>9, <3>2, <4>1 DEF IInv, GanhoPorUm
        <3> QED
            BY <3>1, <3>2
    <2>15. OrigemSoSePerdeAssim'
        BY <1>5, <2>2, <2>8, <2>9 DEF IInv, OrigemSoSePerdeAssim
    <2>16. HistoricoEncadeado' /\ FechadoNaoCobra'
        BY <2>8, <2>9 DEF IInv, HistoricoEncadeado, FechadoNaoCobra, Existe, Aberta
    <2> QED
        BY <2>10, <2>11, <2>13, <2>14, <2>15, <2>16 DEF IInv
<1> QED
    BY <1>8, <1>9

-----------------------------------------------------------------------------
(* Around the funnel.                                                      *)

\* What the others know does not speak of tasks, of the table or of the calendar.
LEMMA NinguemEsquece ==
    ASSUME IInv, UNCHANGED pedido, UNCHANGED orcamento,
           \A c \in Cards : /\ card'[c].etapa = card[c].etapa
                            /\ card'[c].contato = card[c].contato
    PROVE  Exclusao' /\ TodosSabem'
<1>1. Exclusao'
    BY DEF IInv, Exclusao, Choca
<1>2. TodosSabem'
    <2> SUFFICES ASSUME NEW q \in Pedidos PROVE Sabe(pedido[q])'
        BY DEF TodosSabem
    <2>1. PICK r \in Pedido : r = pedido[q] /\ r = pedido'[q] /\ Sabe(r)
        BY DEF IInv, TypeOK, TodosSabem
    <2>2. Sabe(r)'
        BY <2>1 DEF Sabe, SabeOAlvo, DonoSabe, QuemEscolheu, NoCard
    <2> QED
        BY <2>1, <2>2
<1> QED
    BY <1>1, <1>2

\* A task is done, called off or reopened, but never set pending by hand.
LEMMA MantemTarefa ==
    ASSUME IInv, NEW c \in Cards, NEW t \in {"nenhuma", "reaberta"},
           card' = [card EXCEPT ![c].tarefa = t],
           UNCHANGED <<tabela, lead, orcamento, reserva, ocupada, naEspera, trocados, pedido>>
    PROVE  IInv'
<1>1. ASSUME NEW d \in Cards
      PROVE  /\ card'[d] \in Card
             /\ card'[d].etapa = card[d].etapa /\ card'[d].contato = card[d].contato
             /\ card'[d].lead = card[d].lead /\ card'[d].origem = card[d].origem
             /\ card'[d].partido = card[d].partido /\ card'[d].valor = card[d].valor
             /\ card'[d].tarefa \in {card[d].tarefa, t}
    BY DEF IInv, TypeOK, Card
<1>2. card' \in [Cards -> Card]
    BY <1>1 DEF IInv, TypeOK
<1>3. TypeOK'
    BY <1>2 DEF IInv, TypeOK
<1>4. Exclusao' /\ TodosSabem'
    BY <1>1, NinguemEsquece
<1>5. Vendido' /\ GanhoPorUm'
    BY <1>1 DEF IInv, Vendido, GanhoPorUm, VendidoA
<1>6. OrigemSoSePerdeAssim' /\ HistoricoEncadeado' /\ FechadoNaoCobra'
    BY <1>1 DEF IInv, OrigemSoSePerdeAssim, HistoricoEncadeado, FechadoNaoCobra, Existe, Aberta
<1> QED
    BY <1>3, <1>4, <1>5, <1>6 DEF IInv

LEMMA MantemConcluir ==
    ASSUME IInv, NEW c \in Cards, Concluir(c)
    PROVE  IInv'
BY MantemTarefa DEF Concluir

LEMMA MantemReabrir ==
    ASSUME IInv, NEW c \in Cards, Reabrir(c)
    PROVE  IInv'
BY MantemTarefa DEF Reabrir

\* The rate table, the calendar, or nothing.
LEMMA MantemFora ==
    ASSUME IInv, tabela' \in Nat, ocupada' \in BOOLEAN,
           UNCHANGED <<lead, card, orcamento, reserva, naEspera, trocados, pedido>>
    PROVE  IInv'
<1>1. TypeOK'
    BY DEF IInv, TypeOK
<1>2. Exclusao' /\ TodosSabem'
    BY NinguemEsquece
<1>3. Vendido' /\ GanhoPorUm'
    BY DEF IInv, Vendido, GanhoPorUm, VendidoA
<1>4. OrigemSoSePerdeAssim' /\ HistoricoEncadeado' /\ FechadoNaoCobra'
    BY DEF IInv, OrigemSoSePerdeAssim, HistoricoEncadeado, FechadoNaoCobra, Existe, Aberta
<1> QED
    BY <1>1, <1>2, <1>3, <1>4 DEF IInv

-----------------------------------------------------------------------------
(* The theorems.                                                           *)

LEMMA ComecaEmIInv == Init => IInv
<1> SUFFICES ASSUME Init PROVE IInv
    OBVIOUS
<1> USE LivreTipado, AusenteTipado, OrcamentosTipados, OportunidadesAssumption DEF Init
<1>1. TypeOK
    BY DEF TypeOK
<1>2. Exclusao
    BY DEF Exclusao
<1>3. TodosSabem
    BY DEF TodosSabem
<1>4. Vendido /\ GanhoPorUm
    BY DEF Vendido, GanhoPorUm
<1>5. OrigemSoSePerdeAssim /\ HistoricoEncadeado /\ FechadoNaoCobra
    BY DEF OrigemSoSePerdeAssim, HistoricoEncadeado, FechadoNaoCobra, Existe, Aberta
<1> QED
    BY <1>1, <1>2, <1>3, <1>4, <1>5 DEF IInv

LEMMA MantemIInv == IInv /\ [Next]_vars => IInv'
<1> SUFFICES ASSUME IInv, [Next]_vars PROVE IInv'
    OBVIOUS
<1>1. ASSUME NEW p \in Pedidos, NEW c \in Cards, TravarOportunidade(p, c) PROVE IInv'
    BY <1>1, MantemTravarOportunidade
<1>2. ASSUME NEW p \in Pedidos, NEW c \in Cards, NEW k \in Contatos, Criar(p, c, k) PROVE IInv'
    BY <1>2, MantemCriar
<1>3. ASSUME NEW p \in Pedidos, NEW c \in Cards, NEW k \in Contatos, Converter(p, c, k) PROVE IInv'
    BY <1>3, MantemConverter
<1>4. ASSUME NEW p \in Pedidos, NEW l \in Leads, TravarLead(p, l) PROVE IInv'
    BY <1>4, MantemTravarLead
<1>5. ASSUME NEW p \in Pedidos, NEW l \in Leads \cup {Nada}, InserirOportunidade(p, l) PROVE IInv'
    BY <1>5, MantemInserirOportunidade
<1>16. ASSUME NEW p \in Pedidos, NEW l \in Leads \cup {Nada}, TrocarLead(p, l) PROVE IInv'
    BY <1>16, MantemTrocarLead
<1>6. ASSUME NEW p \in Pedidos, NEW c \in Cards \cup {Nada}, Emitir(p, c) PROVE IInv'
    BY <1>6, MantemEmitir
<1>7. ASSUME NEW p \in Pedidos, NEW e \in Etapas, MudarEtapa(p, e) PROVE IInv'
    BY <1>7, MantemMudarEtapa
<1>8. ASSUME NEW p \in Pedidos, NEW k \in Contatos, AtualizarOportunidade(p, k) PROVE IInv'
    BY <1>8, MantemAtualizarOportunidade
<1>9. ASSUME NEW p \in Pedidos, NEW q \in Orcamentos, InserirOrcamento(p, q) PROVE IInv'
    BY <1>9, MantemInserirOrcamento
<1>10. ASSUME NEW p \in Pedidos, NEW q \in Orcamentos, OrcamentoParaGanhar(p, q) PROVE IInv'
    BY <1>10, MantemOrcamentoParaGanhar
<1>11. ASSUME NEW p \in Pedidos, ObterOportunidade(p) \/ ObterLead(p) \/ Cair(p) PROVE IInv'
    BY <1>11, MantemObterOportunidade, MantemObterLead, MantemCair
<1>12. ASSUME NEW p \in Pedidos, ExcluirLead(p) \/ ExcluirOportunidade(p) \/ Perder(p) PROVE IInv'
    BY <1>12, MantemExcluirLead, MantemExcluirOportunidade, MantemPerder
<1>13. ASSUME NEW p \in Pedidos, EmitirDoOrcamento(p) \/ Ganhar(p) PROVE IInv'
    BY <1>13, MantemEmitirDoOrcamento, MantemGanhar
<1>14. ASSUME NEW c \in Cards, Concluir(c) \/ Reabrir(c) PROVE IInv'
    BY <1>14, MantemConcluir, MantemReabrir
<1>15. CASE PublicarTabela \/ MudarCalendario \/ UNCHANGED vars
    <2>1. /\ tabela' \in Nat /\ ocupada' \in BOOLEAN
          /\ UNCHANGED <<lead, card, orcamento, reserva, naEspera, trocados, pedido>>
        <3>1. tabela \in Nat /\ ocupada \in BOOLEAN
            BY DEF IInv, TypeOK
        <3>2. CASE PublicarTabela
            BY <3>1, <3>2 DEF PublicarTabela
        <3>3. CASE MudarCalendario
            BY <3>1, <3>3 DEF MudarCalendario
        <3>4. CASE UNCHANGED vars
            BY <3>1, <3>4 DEF vars
        <3> QED
            BY <1>15, <3>2, <3>3, <3>4
    <2> QED
        BY <2>1, MantemFora
<1> QED
    BY <1>1, <1>2, <1>3, <1>4, <1>5, <1>6, <1>7, <1>8, <1>9, <1>10, <1>11, <1>12, <1>13,
       <1>14, <1>15, <1>16 DEF Next

LEMMA SempreIInv == Spec => []IInv
BY ComecaEmIInv, MantemIInv, PTL DEF Spec

\* The won card has the one quote, and the sold quote its won card.
LEMMA VendaDoCardDoIInv == IInv => VendaDoCard
<1> SUFFICES ASSUME IInv PROVE VendaDoCard
    OBVIOUS
<1>1. ASSUME NEW c \in Cards, card[c].etapa = "ganho"
      PROVE  Cardinality({q \in Orcamentos : orcamento[q].estado = "convertido"
                                             /\ orcamento[q].card = c}) = 1
    <2>1. PICK q \in Orcamentos : VendidoA(c) = {q}
        BY <1>1 DEF IInv, GanhoPorUm
    <2>2. Cardinality({q}) = 1
        BY FS_Singleton
    <2> QED
        BY <2>1, <2>2 DEF VendidoA
<1> QED
    BY <1>1 DEF IInv, Vendido, VendaDoCard

\* A won card and a sold quote are one sale, with one price and one contact, whoever
\* acts on the card, sells the quote or issues another meanwhile
\* (service_oportunidades.go, ganhar; repository_orcamentos.go, MarcarConvertido).
THEOREM VendaEUmaSo == Spec => []VendaDoCard
BY SempreIInv, VendaDoCardDoIInv, PTL

\* Two cards of one lead, or a card that is no longer of its lead, come only from a
\* request that waited for the lead's row and decided on the cards it saw before the
\* wait, or from an edit that took the card away from the lead (service_leads.go,
\* Converter and ExcluirLead; service_oportunidades.go, AtualizarOportunidade).
THEOREM SoEsperaOuTrocaPerdeOrigem == Spec => []OrigemSoSePerdeAssim
<1>1. IInv => OrigemSoSePerdeAssim
    BY DEF IInv
<1> QED
    BY <1>1, SempreIInv, PTL

\* The movements of a card are a chain and nothing reminds of a closed card, whatever
\* requests wait for its row meanwhile (repository_oportunidades.go,
\* TravarOportunidade; service_oportunidades.go, MudarEtapa, ganhar, Perder).
THEOREM CardSempreConta == Spec => []CardContaAHistoria
<1>1. IInv => CardContaAHistoria
    BY DEF IInv, CardContaAHistoria
<1> QED
    BY <1>1, SempreIInv, PTL

-----------------------------------------------------------------------------
(***************************************************************************)
(* The live updates.  A client is owed the commits it may see, has not     *)
(* drawn and is not about to fetch, but for the five holes of the code.    *)
(* What it is owed is either on its way, in its connection, or can still   *)
(* be had from the buffer: wherever the connection is cut, the cursor it   *)
(* was left at, and the two that the next one may present, are such that   *)
(* the buffer brings the commit after them, or they are out of its reach,  *)
(* which is answered with a resync (Garantida, VoltaGarantida).            *)
(***************************************************************************)

Aviso == [resync : BOOLEAN, cursor : Nat, m : Nat]
Escutas == [estado : {"fechada", "aberta", "marcada", "consumindo"}, viva : BOOLEAN, fila : Seq(Nat)]
Hubs == [cursor : Nat, base : Nat, buffer : Seq(Aviso), primeira : BOOLEAN]
Conexoes == [fase : {"fora", "repondo", "laco"}, repor : Seq(Aviso), canal : Seq(Aviso),
             resync : BOOLEAN]
Fontes == {"viva", "fechada", "desligada"}
Telas == [fonte : Fontes, ultimoId : Nat, url : Nat, lido : Nat, vistos : [Linhas -> Nat],
          vista : Nat, agendada : BOOLEAN, busca : Seq(Nat), pendente : BOOLEAN, falha : BOOLEAN]
Donatarios == Restritos \cup {Ninguem}
Commits == [linha : Linhas, v : Nat, de : SUBSET Donatarios]

TiposDoPainel ==
    /\ mudancas \in Seq(Commits)
    /\ dono \in [Linhas -> Donatarios]
    /\ escuta \in Escutas
    /\ hub \in Hubs
    /\ con \in [Clientes -> Conexoes]
    /\ presas \in [Clientes -> Nat]
    /\ fio \in [Clientes -> Seq(Aviso)]
    /\ tela \in [Clientes -> Telas]
    /\ furos \in [Clientes -> SUBSET Nat]

\* The LISTEN connection: it lives only while open, and marks its opening before it reads.
EscutaCerta ==
    /\ escuta.viva => escuta.estado # "fechada"
    /\ escuta.estado = "fechada" => escuta.fila = <<>>
    /\ escuta.estado \in {"marcada", "consumindo"} => ~hub.primeira
    /\ \A i \in DOMAIN escuta.fila : escuta.fila[i] \in Feitas

\* The buffer b: notices of the first n commits, in order, up to the cursor.
Guardados(b, cursor, n) ==
    \A i \in DOMAIN b :
        /\ ~b[i].resync /\ b[i].cursor <= cursor /\ b[i].m \in 1..n
        /\ \A j \in DOMAIN b : j < i => b[j].cursor < b[i].cursor

\* What the buffer no longer has is not after the base.
HubCerto ==
    /\ 1 <= hub.base /\ hub.base <= hub.cursor
    /\ \A i \in DOMAIN hub.buffer : hub.base < hub.buffer[i].cursor
    /\ Guardados(hub.buffer, hub.cursor, Len(mudancas))

\* The last cursor given: none since the process began, or since the gap, before it reads.
Teto == IF hub.primeira \/ escuta.estado = "marcada" THEN hub.base - 1 ELSE hub.cursor

\* The notices of s come after x, and are of what was given and committed.
Dados(s, x, teto, n) ==
    \A i \in DOMAIN s :
        ~s[i].resync => x < s[i].cursor /\ s[i].cursor <= teto /\ s[i].m \in 1..n

\* The notices of s come before those of t; those of s, one after the other.
Antes(s, t) ==
    \A i \in DOMAIN s, j \in DOMAIN t :
        ~s[i].resync /\ ~t[j].resync => s[i].cursor < t[j].cursor
Crescente(s) ==
    \A i \in DOMAIN s, j \in DOMAIN s :
        i < j /\ ~s[i].resync /\ ~s[j].resync => s[i].cursor < s[j].cursor

\* The connection k and its socket f, of a client that read up to x
\* on it.
Caminho(k, f, x, teto, n) ==
    /\ f = <<>> \/ Len(f) = 1
    /\ k.fase = "fora" => f = <<>>
    /\ k.fase = "laco" => k.repor = <<>>
    /\ x <= teto
    /\ Dados(f, x, teto, n) /\ Dados(k.repor, x, teto, n) /\ Dados(k.canal, x, teto, n)
    /\ Crescente(k.repor) /\ Crescente(k.canal)
    /\ Antes(f, k.repor) /\ Antes(f, k.canal) /\ Antes(k.repor, k.canal)

\* What a screen shows, and what its fetch read, was committed.
BuscaCerta(t, n) ==
    /\ t.vista <= n
    /\ t.pendente => t.busca # <<>>
    /\ \/ t.busca = <<>>
       \/ Len(t.busca) = 1 /\ t.vista <= t.busca[1] /\ t.busca[1] <= n

\* The cursors the next connection may present were given.
VoltaCerta(t, teto) == t.ultimoId <= teto /\ t.url <= teto

\* The cursors from which m, or the order to fetch, is still to be had.
Alcance(m) ==
    {x \in 0..Teto : \/ x < hub.base \/ ~Conectado
                     \/ \E i \in DOMAIN hub.buffer : hub.buffer[i].cursor > x /\ hub.buffer[i].m = m}

\* Each notice of s comes after m, or leaves the client at one of them.
Firmes(s, m, alcance) ==
    \A i \in DOMAIN s :
        \/ \E j \in DOMAIN s : j <= i /\ (s[j].resync \/ s[j].m = m)
        \/ s[i].cursor \in alcance

Garantida(k, f, x, m, alcance) ==
    /\ x \in alcance
    /\ k.fase # "fora" =>
          /\ k.resync \/ Traz(f, m) \/ Traz(k.repor, m) \/ Traz(k.canal, m)
          /\ Firmes(f, m, alcance)
          /\ Traz(f, m) \/ Firmes(k.repor, m, alcance)
          /\ k.resync \/ Traz(f, m) \/ Traz(k.repor, m) \/ Firmes(k.canal, m, alcance)

VoltaGarantida(t, alcance) == t.ultimoId \in alcance /\ t.url \in alcance

\* Nothing but the connection, or the next one, will bring m to c.
Desculpada(c, m) ==
    \/ VemDaBusca(c, m) \/ (tela[c].falha /\ tela[c].busca = <<>>)
    \/ VemDoBanco(m) \/ m \in furos[c]
Deve(c, m) == Atrasada(c, m) /\ ~Desculpada(c, m)

PainelInv ==
    /\ TiposDoPainel /\ EscutaCerta /\ HubCerto
    /\ \A c \in Clientes :
          /\ Caminho(con[c], fio[c], tela[c].lido, Teto, Len(mudancas))
          /\ VoltaCerta(tela[c], Teto)
          /\ BuscaCerta(tela[c], Len(mudancas))
          /\ \A m \in Feitas :
                Deve(c, m) => /\ Garantida(con[c], fio[c], tela[c].lido, m, Alcance(m))
                              /\ VoltaGarantida(tela[c], Alcance(m))

-----------------------------------------------------------------------------
(* Sequences of notices.                                                   *)

LEMMA Vazias ==
    ASSUME NEW t, NEW x, NEW z, NEW n, NEW m, NEW F
    PROVE  /\ Dados(<<>>, x, z, n) /\ Crescente(<<>>) /\ Antes(<<>>, t) /\ Antes(t, <<>>)
           /\ ~Traz(<<>>, m) /\ Firmes(<<>>, m, F)
           /\ Dados(<<Resync>>, x, z, n) /\ Crescente(<<Resync>>)
           /\ Antes(<<Resync>>, t) /\ Antes(t, <<Resync>>)
           /\ Traz(<<Resync>>, m) /\ Firmes(<<Resync>>, m, F)
<1>1. DOMAIN <<>> = {} /\ DOMAIN <<Resync>> = {1} /\ <<Resync>>[1] = Resync
  OBVIOUS
<1>2. Resync.resync = TRUE
  BY DEF Resync
<1>3. \A i \in DOMAIN <<Resync>> : <<Resync>>[i].resync = TRUE /\ i <= i
  BY <1>1, <1>2
<1> QED
  BY <1>1, <1>3 DEF Dados, Crescente, Antes, Traz, Firmes

\* The first notice of s goes on by itself, and the others stay.
LEMMA Cauda ==
    ASSUME NEW s \in Seq(Aviso), s # <<>>
    PROVE  /\ Head(s) \in Aviso /\ Head(s) = s[1] /\ 1 \in DOMAIN s /\ Tail(s) \in Seq(Aviso)
           /\ DOMAIN <<Head(s)>> = {1} /\ <<Head(s)>>[1] = s[1] /\ <<Head(s)>> \in Seq(Aviso)
           /\ \A i \in DOMAIN Tail(s) :
                 i \in Nat /\ i + 1 \in DOMAIN s /\ Tail(s)[i] = s[i + 1] /\ 1 < i + 1
           /\ \A i \in DOMAIN s :
                 i \in Nat /\ (i = 1 \/ (i - 1 \in DOMAIN Tail(s) /\ Tail(s)[i - 1] = s[i]))
  OBVIOUS

LEMMA CaudaEmOrdem ==
    ASSUME NEW s \in Seq(Aviso), s # <<>>, NEW t, NEW x, NEW z, NEW n
    PROVE  /\ Dados(s, x, z, n) => Dados(Tail(s), x, z, n) /\ Dados(<<Head(s)>>, x, z, n)
           /\ Crescente(s) => Crescente(Tail(s)) /\ Antes(<<Head(s)>>, Tail(s))
           /\ Antes(s, t) => Antes(Tail(s), t) /\ Antes(<<Head(s)>>, t)
           /\ Antes(t, s) => Antes(t, Tail(s))
<1>1. Dados(s, x, z, n) => Dados(Tail(s), x, z, n) /\ Dados(<<Head(s)>>, x, z, n)
  BY Cauda DEF Dados
<1>2. Crescente(s) => Crescente(Tail(s))
  <2> SUFFICES ASSUME Crescente(s), NEW i \in DOMAIN Tail(s), NEW j \in DOMAIN Tail(s),
                      i < j, ~Tail(s)[i].resync, ~Tail(s)[j].resync
               PROVE  Tail(s)[i].cursor < Tail(s)[j].cursor
    BY DEF Crescente
  <2>1. i + 1 \in DOMAIN s /\ j + 1 \in DOMAIN s /\ i + 1 < j + 1
        /\ Tail(s)[i] = s[i + 1] /\ Tail(s)[j] = s[j + 1]
    BY Cauda
  <2> QED
    BY <2>1 DEF Crescente
<1>3. Crescente(s) => Antes(<<Head(s)>>, Tail(s))
  BY Cauda DEF Crescente, Antes
<1>4. Antes(s, t) => Antes(Tail(s), t) /\ Antes(<<Head(s)>>, t)
  BY Cauda DEF Antes
<1>5. Antes(t, s) => Antes(t, Tail(s))
  BY Cauda DEF Antes
<1> QED
  BY <1>1, <1>2, <1>3, <1>4, <1>5

LEMMA CaudaFirme ==
    ASSUME NEW s \in Seq(Aviso), s # <<>>, NEW m, NEW F
    PROVE  /\ Traz(s, m) => Traz(<<Head(s)>>, m) \/ Traz(Tail(s), m)
           /\ Firmes(s, m, F) => Firmes(<<Head(s)>>, m, F)
           /\ Firmes(s, m, F) => Traz(<<Head(s)>>, m) \/ Firmes(Tail(s), m, F)
           /\ Traz(<<Head(s)>>, m) <=> Head(s).resync \/ Head(s).m = m
<1>1. Traz(<<Head(s)>>, m) <=> Head(s).resync \/ Head(s).m = m
  BY Cauda DEF Traz
<1>2. ASSUME Traz(s, m) PROVE Traz(<<Head(s)>>, m) \/ Traz(Tail(s), m)
  <2>1. PICK i \in DOMAIN s : s[i].resync \/ s[i].m = m
    BY <1>2 DEF Traz
  <2>2. CASE i = 1
    BY <1>1, <2>1, <2>2, Cauda
  <2>3. CASE i # 1
    <3>1. i - 1 \in DOMAIN Tail(s) /\ Tail(s)[i - 1] = s[i]
      BY <2>3, Cauda
    <3> QED
      BY <2>1, <3>1 DEF Traz
  <2> QED
    BY <2>2, <2>3
<1>3. Firmes(s, m, F) => Firmes(<<Head(s)>>, m, F)
  BY Cauda DEF Firmes
<1>4. ASSUME Firmes(s, m, F), ~Traz(<<Head(s)>>, m) PROVE Firmes(Tail(s), m, F)
  <2> SUFFICES ASSUME NEW i \in DOMAIN Tail(s)
               PROVE  \/ \E j \in DOMAIN Tail(s) : j <= i /\ (Tail(s)[j].resync \/ Tail(s)[j].m = m)
                      \/ Tail(s)[i].cursor \in F
    BY DEF Firmes
  <2>1. i \in Nat /\ i + 1 \in DOMAIN s /\ Tail(s)[i] = s[i + 1]
    BY Cauda
  <2>2. CASE s[i + 1].cursor \in F
    BY <2>1, <2>2
  <2>3. CASE \E j \in DOMAIN s : j <= i + 1 /\ (s[j].resync \/ s[j].m = m)
    <3>1. PICK j \in DOMAIN s : j <= i + 1 /\ (s[j].resync \/ s[j].m = m)
      BY <2>3
    <3>2. j # 1 /\ j \in Nat
      BY <1>1, <1>4, <3>1, Cauda
    <3>3. j - 1 \in DOMAIN Tail(s) /\ Tail(s)[j - 1] = s[j] /\ j - 1 <= i
      BY <2>1, <3>1, <3>2, Cauda
    <3> QED
      BY <3>1, <3>3
  <2> QED
    BY <1>4, <2>1, <2>2, <2>3 DEF Firmes
<1> QED
  BY <1>1, <1>2, <1>3, <1>4

\* A notice goes after those of s.
LEMMA Acrescimo ==
    ASSUME NEW s \in Seq(Aviso), NEW a \in Aviso
    PROVE  /\ Append(s, a) \in Seq(Aviso) /\ Len(s) \in Nat /\ DOMAIN s = 1..Len(s)
           /\ DOMAIN Append(s, a) = 1..(Len(s) + 1) /\ Append(s, a)[Len(s) + 1] = a
           /\ \A i \in DOMAIN s : i \in DOMAIN Append(s, a) /\ Append(s, a)[i] = s[i]
                                  /\ i \in Nat /\ i <= Len(s)
           /\ \A i \in DOMAIN Append(s, a) : i = Len(s) + 1 \/ i \in DOMAIN s
  OBVIOUS

LEMMA AcrescimoEmOrdem ==
    ASSUME NEW s \in Seq(Aviso), NEW a \in Aviso, NEW t \in Seq(Aviso),
           NEW x \in Nat, NEW z \in Nat, NEW n, Dados(s, x, z, n), Dados(t, x, z, n),
           ~a.resync => z < a.cursor
    PROVE  /\ Crescente(s) => Crescente(Append(s, a))
           /\ Antes(t, s) => Antes(t, Append(s, a))
<1> DEFINE u == Append(s, a)
<1>1. /\ \A i \in DOMAIN s : s[i].cursor \in Nat
      /\ \A i \in DOMAIN t : t[i].cursor \in Nat
      /\ a.cursor \in Nat
  <2>1. /\ \A i \in DOMAIN s : s[i] \in Aviso
        /\ \A i \in DOMAIN t : t[i] \in Aviso
    OBVIOUS
  <2> QED
    BY <2>1 DEF Aviso
<1>2. \A i \in DOMAIN s : ~s[i].resync /\ ~a.resync => s[i].cursor < a.cursor
  BY <1>1 DEF Dados
<1>3. \A i \in DOMAIN t : ~t[i].resync /\ ~a.resync => t[i].cursor < a.cursor
  BY <1>1 DEF Dados
<1>4. ASSUME Crescente(s) PROVE Crescente(u)
  <2> SUFFICES ASSUME NEW i \in DOMAIN u, NEW j \in DOMAIN u,
                      i < j, ~u[i].resync, ~u[j].resync
               PROVE  u[i].cursor < u[j].cursor
    BY DEF Crescente
  <2>1. i \in DOMAIN s /\ u[i] = s[i]
    BY Acrescimo
  <2>2. CASE j \in DOMAIN s
    BY <1>4, <2>1, <2>2, Acrescimo DEF Crescente
  <2>3. CASE j = Len(s) + 1
    BY <1>2, <2>1, <2>3, Acrescimo
  <2> QED
    BY <2>2, <2>3, Acrescimo
<1>5. ASSUME Antes(t, s) PROVE Antes(t, u)
  BY <1>3, <1>5, Acrescimo DEF Antes
<1> QED
  BY <1>4, <1>5

LEMMA AcrescimoFirme ==
    ASSUME NEW s \in Seq(Aviso), NEW a \in Aviso, NEW m, NEW F
    PROVE  /\ Traz(Append(s, a), m) <=> Traz(s, m) \/ a.resync \/ a.m = m
           /\ Firmes(s, m, F) /\ (Traz(Append(s, a), m) \/ a.cursor \in F) => Firmes(Append(s, a), m, F)
<1> DEFINE u == Append(s, a)
<1>1. Traz(u, m) <=> Traz(s, m) \/ a.resync \/ a.m = m
  BY Acrescimo DEF Traz
<1>2. ASSUME Firmes(s, m, F), Traz(u, m) \/ a.cursor \in F PROVE Firmes(u, m, F)
  <2> SUFFICES ASSUME NEW i \in DOMAIN u
               PROVE  \/ \E j \in DOMAIN u : j <= i /\ (u[j].resync \/ u[j].m = m)
                      \/ u[i].cursor \in F
    BY DEF Firmes
  <2>1. CASE i \in DOMAIN s
    BY <1>2, <2>1, Acrescimo DEF Firmes
  <2>2. CASE i = Len(s) + 1
    <3>1. \A j \in DOMAIN u : j <= i
      BY <2>2, Acrescimo
    <3>2. u[i] = a
      BY <2>2, Acrescimo
    <3> QED
      BY <1>2, <3>1, <3>2 DEF Traz
  <2> QED
    BY <2>1, <2>2, Acrescimo
<1> QED
  BY <1>1, <1>2

\* More is given, more is committed, more is within reach.
LEMMA MaisLonge ==
    ASSUME NEW k \in Conexoes, NEW f \in Seq(Aviso), NEW x \in Nat, NEW z \in Nat, NEW n \in Nat,
           NEW z1 \in Nat, NEW n1 \in Nat, z <= z1, n <= n1, Caminho(k, f, x, z, n)
    PROVE  Caminho(k, f, x, z1, n1)
<1>1. ASSUME NEW s \in Seq(Aviso), Dados(s, x, z, n) PROVE Dados(s, x, z1, n1)
  <2>1. \A i \in DOMAIN s : s[i] \in Aviso
    OBVIOUS
  <2>2. \A i \in DOMAIN s : s[i].cursor \in Nat /\ s[i].m \in Nat
    BY <2>1 DEF Aviso
  <2> QED
    BY <1>1, <2>2 DEF Dados
<1>2. k.repor \in Seq(Aviso) /\ k.canal \in Seq(Aviso)
  BY DEF Conexoes
<1>3. x <= z1
  BY DEF Caminho
<1> QED
  BY <1>1, <1>2, <1>3 DEF Caminho

LEMMA MaisPerto ==
    ASSUME NEW k, NEW f, NEW x, NEW m, NEW F, NEW G, F \subseteq G, Garantida(k, f, x, m, F)
    PROVE  Garantida(k, f, x, m, G)
<1>1. ASSUME NEW s, Firmes(s, m, F) PROVE Firmes(s, m, G)
  BY <1>1 DEF Firmes
<1> QED
  BY <1>1 DEF Garantida

-----------------------------------------------------------------------------
(* The replay: a loop over the buffer.                                     *)

LEMMA TodosOsNaturais ==
    ASSUME NEW S \in SUBSET Nat, 0 \in S, \A n \in S : n + 1 \in S
    PROVE  S = Nat
<1> SUFFICES ASSUME S # Nat PROVE FALSE
  OBVIOUS
<1> DEFINE R == {ss \in Nat \X Nat : ss[1] < ss[2]}
           T == Nat \ S
<1>1. R = OpToRel(<, Nat)
  BY DEF OpToRel
<1>2. IsWellFoundedOn(R, Nat)
  BY <1>1, NatLessThanWellFounded
<1>3. \A a, b \in Nat : <<a, b>> \in R <=> a < b
  OBVIOUS
<1>4. T \in SUBSET Nat /\ T # {}
  OBVIOUS
<1> HIDE DEF R
<1>5. PICK x \in T : \A y \in T : ~(<<y, x>> \in R)
  BY <1>2, <1>4, WFMin
<1>6. x \in Nat /\ x \notin S /\ x # 0
  BY <1>5
<1>7. x - 1 \in Nat /\ x - 1 < x
  BY <1>6
<1>8. x - 1 \in S
  BY <1>3, <1>5, <1>6, <1>7
<1>9. (x - 1) + 1 \in S /\ (x - 1) + 1 = x
  BY <1>6, <1>7, <1>8
<1> QED
  BY <1>6, <1>9

Volta(s, lugares, ate, n) ==
    IF n = 0 THEN <<>> ELSE IF n \in lugares THEN Append(ate[n - 1], s[n]) ELSE ate[n - 1]
Passagem(s, lugares) == CHOOSE ate : ate = [n \in 0..Len(s) |-> Volta(s, lugares, ate, n)]

LEMMA PassagemExiste ==
    ASSUME NEW s, Len(s) \in Nat, NEW lugares
    PROVE  Passagem(s, lugares) = [n \in 0..Len(s) |-> Volta(s, lugares, Passagem(s, lugares), n)]
<1> DEFINE Vale(it, k) == \A n \in 0..Len(s) : n <= k => it[n] = Volta(s, lugares, it, n)
           S == {k \in Nat : \E it : Vale(it, k)}
<1>1. 0 \in S
  <2> DEFINE it == [n \in 0..Len(s) |-> <<>>]
  <2>1. Vale(it, 0)
    BY DEF Volta
  <2> QED
    BY <2>1
<1>2. ASSUME NEW k \in S PROVE k + 1 \in S
  <2>1. PICK it : Vale(it, k)
    BY <1>2
  <2>2. k \in Nat
    BY <1>2
  <2> DEFINE ja == [n \in 0..Len(s) |-> IF n <= k THEN it[n] ELSE Volta(s, lugares, it, n)]
  <2>3. ASSUME NEW n \in 0..Len(s), n <= k + 1 PROVE ja[n] = Volta(s, lugares, ja, n)
    <3>1. ja[n] = Volta(s, lugares, it, n)
      BY <2>1
    <3>2. CASE n = 0
      BY <3>1, <3>2 DEF Volta
    <3>3. CASE n # 0
      <4>1. n - 1 \in 0..Len(s) /\ n - 1 <= k
        BY <2>2, <2>3, <3>3
      <4>2. ja[n - 1] = it[n - 1]
        BY <4>1
      <4> HIDE DEF ja
      <4> QED
        BY <3>1, <3>3, <4>2 DEF Volta
    <3> QED
      BY <3>2, <3>3
  <2>4. Vale(ja, k + 1)
    BY <2>3
  <2> HIDE DEF Vale, ja
  <2> QED
    BY <2>2, <2>4
<1>3. S = Nat
  <2> HIDE DEF S
  <2>1. S \in SUBSET Nat
    BY DEF S
  <2> QED
    BY <1>1, <1>2, <2>1, TodosOsNaturais
<1>4. PICK it : Vale(it, Len(s))
  BY <1>3
<1> DEFINE ja == [n \in 0..Len(s) |-> it[n]]
<1>5. ASSUME NEW n \in 0..Len(s) PROVE ja[n] = Volta(s, lugares, ja, n)
  <2>1. it[n] = Volta(s, lugares, it, n) /\ ja[n] = it[n]
    BY <1>4
  <2>2. n # 0 => n - 1 \in 0..Len(s)
    OBVIOUS
  <2>3. n # 0 => ja[n - 1] = it[n - 1]
    BY <2>2
  <2> HIDE DEF ja
  <2> QED
    BY <2>1, <2>3 DEF Volta
<1>6. ja = [n \in 0..Len(s) |-> Volta(s, lugares, ja, n)]
  BY <1>5
<1> HIDE DEF ja
<1> QED
  BY <1>6 DEF Passagem

\* What the loop takes is s at the places it was given, in the order of s.
LEMMA SepararEmOrdem ==
    ASSUME NEW s \in Seq(Aviso), NEW lugares \in SUBSET (DOMAIN s)
    PROVE  /\ Separar(s, lugares) \in Seq(Aviso)
           /\ \E g \in [DOMAIN Separar(s, lugares) -> lugares] :
                 /\ \A i \in DOMAIN Separar(s, lugares) : Separar(s, lugares)[i] = s[g[i]]
                 /\ \A i, j \in DOMAIN Separar(s, lugares) : i < j => g[i] < g[j]
                 /\ \A p \in lugares : \E i \in DOMAIN Separar(s, lugares) : g[i] = p
<1> DEFINE N == Len(s)
           P == Passagem(s, lugares)
           Feita(t, g, n) ==
               /\ t \in Seq(Aviso) /\ g \in [1..Len(t) -> lugares \cap 1..n]
               /\ \A i \in 1..Len(t) : t[i] = s[g[i]]
               /\ \A i, j \in 1..Len(t) : i < j => g[i] < g[j]
               /\ \A p \in lugares : p <= n => \E i \in 1..Len(t) : g[i] = p
           Boa(n) == n <= N => \E g : Feita(P[n], g, n)
           S == {n \in Nat : Boa(n)}
<1>1. N \in Nat /\ DOMAIN s = 1..N /\ \A i \in 1..N : s[i] \in Aviso
  OBVIOUS
<1>2. \A n \in 0..N : P[n] = Volta(s, lugares, P, n)
  BY <1>1, PassagemExiste
<1>3. Separar(s, lugares) = P[N]
  BY DEF Separar, Passagem, Volta
<1> HIDE DEF P
<1>4. Boa(0)
  <2>1. P[0] = <<>>
    BY <1>1, <1>2 DEF Volta
  <2> DEFINE g == [i \in 1..0 |-> 0]
  <2>2. Feita(<<>>, g, 0)
    BY <1>1
  <2> HIDE DEF Feita, g
  <2> QED
    BY <2>1, <2>2
<1>5. ASSUME NEW n \in Nat, Boa(n) PROVE Boa(n + 1)
  <2> SUFFICES ASSUME n + 1 <= N PROVE \E g : Feita(P[n + 1], g, n + 1)
    OBVIOUS
  <2>1. n \in Nat /\ n <= N /\ n + 1 \in 1..N /\ n + 1 \in 0..N /\ (n + 1) - 1 = n /\ n + 1 # 0
    BY <1>1, <1>5
  <2>2. PICK g : Feita(P[n], g, n)
    BY <1>5, <2>1
  <2>3. P[n + 1] = IF n + 1 \in lugares THEN Append(P[n], s[n + 1]) ELSE P[n]
    BY <1>2, <2>1 DEF Volta
  <2> DEFINE t == P[n]
             l == Len(t)
  <2>4. /\ t \in Seq(Aviso) /\ l \in Nat /\ g \in [1..l -> lugares \cap 1..n]
        /\ \A i \in 1..l : t[i] = s[g[i]]
        /\ \A i, j \in 1..l : i < j => g[i] < g[j]
        /\ \A p \in lugares : p <= n => \E i \in 1..l : g[i] = p
    BY <2>2
  <2>5. CASE n + 1 \notin lugares
    <3>1. \A p \in lugares : p <= n + 1 => p <= n
      BY <1>1, <2>1, <2>5
    <3>2. g \in [1..l -> lugares \cap 1..(n + 1)]
      <4>1. lugares \cap 1..n \subseteq lugares \cap 1..(n + 1)
        BY <2>1
      <4>2. g \in [1..l -> lugares \cap 1..n]
        BY <2>4
      <4> HIDE DEF l
      <4> QED
        BY <4>1, <4>2
    <3>3. Feita(t, g, n + 1)
      BY <2>4, <3>1, <3>2
    <3> HIDE DEF Feita
    <3> QED
      BY <2>3, <2>5, <3>3
  <2>6. CASE n + 1 \in lugares
    <3> DEFINE u == Append(t, s[n + 1])
               h == [i \in 1..(l + 1) |-> IF i = l + 1 THEN n + 1 ELSE g[i]]
    <3>1. /\ u \in Seq(Aviso) /\ Len(u) = l + 1 /\ u[l + 1] = s[n + 1]
          /\ \A i \in 1..l : u[i] = t[i]
      BY <1>1, <2>1, <2>4
    <3>2. \A i \in 1..(l + 1) : i = l + 1 \/ i \in 1..l
      BY <2>4
    <3>3. \A i \in 1..l : g[i] \in lugares /\ g[i] \in 1..n /\ g[i] < n + 1 /\ g[i] \in 1..(n + 1)
      <4>1. \A i \in 1..l : g[i] \in lugares \cap 1..n
        BY <2>4
      <4>2. \A q \in 1..n : q < n + 1 /\ q \in 1..(n + 1)
        BY <2>1
      <4> QED
        BY <4>1, <4>2
    <3>4. h[l + 1] = n + 1 /\ \A i \in 1..l : h[i] = g[i]
      BY <2>4
    <3>5. h \in [1..(l + 1) -> lugares \cap 1..(n + 1)]
      BY <2>1, <2>6, <3>2, <3>3
    <3> HIDE DEF u, h
    <3>6. \A i \in 1..(l + 1) : u[i] = s[h[i]]
      BY <2>4, <3>1, <3>2, <3>4
    <3>7. ASSUME NEW i \in 1..(l + 1), NEW j \in 1..(l + 1), i < j PROVE h[i] < h[j]
      <4>1. i \in 1..l
        BY <2>4, <3>7
      <4> QED
        BY <2>4, <3>2, <3>3, <3>4, <3>7, <4>1
    <3>8. ASSUME NEW p \in lugares, p <= n + 1 PROVE \E i \in 1..(l + 1) : h[i] = p
      <4>1. CASE p = n + 1
        BY <2>4, <3>4, <4>1
      <4>2. CASE p # n + 1
        <5>1. p <= n
          BY <1>1, <2>1, <3>8, <4>2
        <5>2. PICK i \in 1..l : g[i] = p
          BY <2>4, <5>1
        <5>3. i \in 1..(l + 1)
          BY <2>4
        <5> QED
          BY <3>4, <5>2, <5>3
      <4> QED
        BY <4>1, <4>2
    <3>9. Feita(u, h, n + 1)
      BY <3>1, <3>5, <3>6, <3>7, <3>8
    <3> HIDE DEF Feita
    <3> QED
      BY <2>3, <2>6, <3>9 DEF u
  <2> QED
    BY <2>5, <2>6
<1> HIDE DEF Boa
<1>6. Boa(N)
  <2>1. S \in SUBSET Nat /\ 0 \in S /\ \A n \in S : n + 1 \in S
    BY <1>4, <1>5
  <2> HIDE DEF S
  <2>2. S = Nat
    BY <2>1, TodosOsNaturais
  <2> QED
    BY <1>1, <2>2 DEF S
<1>7. PICK g : Feita(P[N], g, N)
  <2>1. N <= N
    BY <1>1
  <2> HIDE DEF Feita, N
  <2> QED
    BY <1>6, <2>1 DEF Boa
<1> DEFINE r == P[N]
<1>8. r \in Seq(Aviso) /\ DOMAIN r = 1..Len(r)
  BY <1>7
<1>9. g \in [DOMAIN r -> lugares]
  BY <1>7, <1>8
<1>10. \A p \in lugares : \E i \in DOMAIN r : g[i] = p
  <2>1. \A p \in lugares : p <= N
    BY <1>1
  <2> QED
    BY <1>7, <1>8, <2>1
<1>11. /\ \A i \in DOMAIN r : r[i] = s[g[i]]
       /\ \A i, j \in DOMAIN r : i < j => g[i] < g[j]
  BY <1>7, <1>8
<1>12. Separar(s, lugares) = r
  BY <1>3
<1> HIDE DEF r
<1> QED
  BY <1>8, <1>9, <1>10, <1>11, <1>12

-----------------------------------------------------------------------------
(* A notice moves along the connection.                                    *)

LEMMA PassaDaReposicao ==
    ASSUME NEW k \in Conexoes, NEW f, NEW g, NEW x, NEW z, NEW n, NEW k1,
           Caminho(k, f, x, z, n), k.fase = "repondo", k.repor # <<>>,
           k1 = [k EXCEPT !.repor = Tail(k.repor)],
           \/ f = <<>> /\ g = <<Head(k.repor)>>
           \/ f = <<>> /\ g = <<Resync>>
           \/ g = f
    PROVE  Caminho(k1, g, x, z, n)
<1>1. k.repor \in Seq(Aviso) /\ k.canal \in Seq(Aviso)
  BY DEF Conexoes
<1>2. k1.fase = "repondo" /\ k1.repor = Tail(k.repor) /\ k1.canal = k.canal
  BY DEF Conexoes
<1>3. /\ Dados(k1.repor, x, z, n) /\ Dados(k1.canal, x, z, n)
      /\ Crescente(k1.repor) /\ Crescente(k1.canal) /\ Antes(k1.repor, k1.canal)
  BY <1>1, <1>2, CaudaEmOrdem DEF Caminho
<1>4. Dados(g, x, z, n) /\ Antes(g, k1.repor) /\ Antes(g, k1.canal)
  <2>1. CASE g = <<Head(k.repor)>>
    BY <1>1, <1>2, <2>1, CaudaEmOrdem DEF Caminho
  <2>2. CASE g = <<Resync>>
    BY <2>2, Vazias
  <2>3. CASE g = f
    BY <1>1, <1>2, <2>3, CaudaEmOrdem DEF Caminho
  <2> QED
    BY <2>1, <2>2, <2>3
<1>5. g = <<>> \/ Len(g) = 1
  <2>1. \A a : Len(<<a>>) = 1
    OBVIOUS
  <2> QED
    BY <2>1 DEF Caminho
<1> QED
  BY <1>2, <1>3, <1>4, <1>5 DEF Caminho

LEMMA DividaNaReposicao ==
    ASSUME NEW k \in Conexoes, NEW f, NEW g, NEW x, NEW m, NEW F, NEW k1,
           Garantida(k, f, x, m, F), k.fase = "repondo", k.repor # <<>>,
           k1 = [k EXCEPT !.repor = Tail(k.repor)],
           \/ f = <<>> /\ g = <<Head(k.repor)>>
           \/ f = <<>> /\ g = <<Resync>>
           \/ g = f /\ ~Traz(<<Head(k.repor)>>, m)
    PROVE  Garantida(k1, g, x, m, F)
<1>1. k.repor \in Seq(Aviso)
  BY DEF Conexoes
<1>2. /\ k1.fase = "repondo" /\ k1.repor = Tail(k.repor) /\ k1.canal = k.canal
      /\ k1.resync = k.resync
  BY DEF Conexoes
<1> DEFINE h == <<Head(k.repor)>>
<1>3. /\ Traz(k.repor, m) => Traz(h, m) \/ Traz(k1.repor, m)
      /\ Firmes(k.repor, m, F) => Firmes(h, m, F) /\ (Traz(h, m) \/ Firmes(k1.repor, m, F))
  <2>1. /\ Traz(k.repor, m) => Traz(h, m) \/ Traz(Tail(k.repor), m)
        /\ Firmes(k.repor, m, F) => Firmes(h, m, F) /\ (Traz(h, m) \/ Firmes(Tail(k.repor), m, F))
    BY <1>1, CaudaFirme
  <2> QED
    BY <1>2, <2>1
<1>4. Traz(<<Resync>>, m) /\ Firmes(<<Resync>>, m, F) /\ ~Traz(<<>>, m)
  BY Vazias
<1>5. /\ x \in F /\ Firmes(f, m, F)
      /\ k.resync \/ Traz(f, m) \/ Traz(k.repor, m) \/ Traz(k.canal, m)
      /\ Traz(f, m) \/ Firmes(k.repor, m, F)
      /\ k.resync \/ Traz(f, m) \/ Traz(k.repor, m) \/ Firmes(k.canal, m, F)
  BY DEF Garantida
<1> HIDE DEF h
<1>6. CASE f = <<>> /\ g = h
  BY <1>2, <1>3, <1>4, <1>5, <1>6, Zenon DEF Garantida
<1>7. CASE g = <<Resync>>
  BY <1>2, <1>4, <1>5, <1>7, Zenon DEF Garantida
<1>8. CASE g = f /\ ~Traz(h, m)
  BY <1>2, <1>3, <1>5, <1>8, Zenon DEF Garantida
<1> QED
  BY <1>6, <1>7, <1>8 DEF h

LEMMA PassaDoCanal ==
    ASSUME NEW k \in Conexoes, NEW f, NEW g, NEW x, NEW z, NEW n, NEW k1,
           Caminho(k, f, x, z, n), k.fase = "laco", k.canal # <<>>,
           k1.fase = k.fase, k1.repor = k.repor, k1.canal = Tail(k.canal),
           \/ f = <<>> /\ g = <<Head(k.canal)>>
           \/ f = <<>> /\ g = <<Resync>>
           \/ g = f
    PROVE  Caminho(k1, g, x, z, n)
<1>1. k.canal \in Seq(Aviso)
  BY DEF Conexoes
<1>2. k1.fase = "laco" /\ k1.repor = <<>> /\ k.repor = <<>>
  BY DEF Caminho
<1>3. /\ Dados(k1.repor, x, z, n) /\ Dados(k1.canal, x, z, n)
      /\ Crescente(k1.repor) /\ Crescente(k1.canal) /\ Antes(k1.repor, k1.canal)
  <2>1. Dados(k1.canal, x, z, n) /\ Crescente(k1.canal)
    BY <1>1, CaudaEmOrdem DEF Caminho
  <2> QED
    BY <1>2, <2>1, Vazias
<1>4. Dados(g, x, z, n) /\ Antes(g, k1.repor) /\ Antes(g, k1.canal)
  <2>1. CASE g = <<Head(k.canal)>>
    BY <1>1, <1>2, <2>1, CaudaEmOrdem, Vazias DEF Caminho
  <2>2. CASE g = <<Resync>>
    BY <2>2, Vazias
  <2>3. CASE g = f
    <3>1. Dados(f, x, z, n) /\ Antes(f, k.canal) /\ Antes(f, k.repor)
      BY DEF Caminho
    <3>2. Antes(f, k1.canal)
      BY <1>1, <3>1, CaudaEmOrdem
    <3> QED
      BY <2>3, <3>1, <3>2
  <2> QED
    BY <2>1, <2>2, <2>3
<1>5. g = <<>> \/ Len(g) = 1
  <2>1. \A a : Len(<<a>>) = 1
    OBVIOUS
  <2> QED
    BY <2>1 DEF Caminho
<1> QED
  BY <1>2, <1>3, <1>4, <1>5 DEF Caminho

LEMMA DividaNoCanal ==
    ASSUME NEW k \in Conexoes, NEW f, NEW g, NEW x, NEW m, NEW F, NEW k1,
           Garantida(k, f, x, m, F), k.fase = "laco", k.repor = <<>>, k.canal # <<>>,
           k1.fase = k.fase, k1.repor = k.repor, k1.canal = Tail(k.canal),
           \/ f = <<>> /\ g = <<Head(k.canal)>> /\ ~k.resync
           \/ f = <<>> /\ g = <<Resync>>
           \/ g = f /\ ~k.resync /\ ~Traz(<<Head(k.canal)>>, m)
    PROVE  Garantida(k1, g, x, m, F)
<1>1. k.canal \in Seq(Aviso)
  BY DEF Conexoes
<1> DEFINE h == <<Head(k.canal)>>
<1>2. k1.fase = "laco" /\ k1.repor = <<>> /\ ~Traz(k.repor, m) /\ Firmes(k1.repor, m, F)
  BY Vazias
<1>3. /\ Traz(k.canal, m) => Traz(h, m) \/ Traz(k1.canal, m)
      /\ Firmes(k.canal, m, F) => Firmes(h, m, F) /\ (Traz(h, m) \/ Firmes(k1.canal, m, F))
  BY <1>1, CaudaFirme
<1>4. Traz(<<Resync>>, m) /\ Firmes(<<Resync>>, m, F) /\ ~Traz(<<>>, m)
  BY Vazias
<1>5. /\ x \in F /\ Firmes(f, m, F)
      /\ k.resync \/ Traz(f, m) \/ Traz(k.repor, m) \/ Traz(k.canal, m)
      /\ k.resync \/ Traz(f, m) \/ Traz(k.repor, m) \/ Firmes(k.canal, m, F)
  BY DEF Garantida
<1> HIDE DEF h
<1>6. CASE f = <<>> /\ g = h /\ ~k.resync
  BY <1>2, <1>3, <1>4, <1>5, <1>6, Zenon DEF Garantida
<1>7. CASE g = <<Resync>>
  BY <1>2, <1>4, <1>5, <1>7, Zenon DEF Garantida
<1>8. CASE g = f /\ ~k.resync /\ ~Traz(h, m)
  BY <1>2, <1>3, <1>5, <1>8, Zenon DEF Garantida
<1> QED
  BY <1>6, <1>7, <1>8 DEF h

\* The hub hands a notice to a connection, or leaves the mark.
LEMMA EntregarFaz ==
    ASSUME NEW k \in Conexoes, NEW a \in Aviso
    PROVE  /\ Entregar(k, a) \in Conexoes
           /\ Entregar(k, a).fase = k.fase /\ Entregar(k, a).repor = k.repor
           /\ a.resync => Entregar(k, a).resync
           /\ k.resync => Entregar(k, a).resync
           /\ \/ Entregar(k, a).canal = Append(k.canal, a)
              \/ Entregar(k, a).canal = k.canal /\ Entregar(k, a).resync
<1>1. k.canal \in Seq(Aviso) /\ k.resync \in BOOLEAN
  BY DEF Conexoes
<1> DEFINE cheio == Len(k.canal) >= CapacidadePorAssinante
           canal == IF Len(k.canal) < CapacidadePorAssinante THEN Append(k.canal, a) ELSE k.canal
           marca == k.resync \/ a.resync \/ cheio
<1>2. Entregar(k, a) = [k EXCEPT !.canal = canal, !.resync = marca]
  BY DEF Entregar
<1>3. canal \in Seq(Aviso) /\ marca \in BOOLEAN
  BY <1>1
<1> USE TempoRealAssumption
<1>4. canal = Append(k.canal, a) \/ (canal = k.canal /\ marca)
  <2>1. Len(k.canal) \in Nat
    BY <1>1
  <2> QED
    BY <2>1
<1> HIDE DEF canal, marca
<1>5. /\ Entregar(k, a) \in Conexoes
      /\ Entregar(k, a).fase = k.fase /\ Entregar(k, a).repor = k.repor
      /\ Entregar(k, a).canal = canal /\ Entregar(k, a).resync = marca
  BY <1>2, <1>3 DEF Conexoes
<1> QED
  BY <1>4, <1>5 DEF marca

-----------------------------------------------------------------------------
(* The steps of one client.                                                *)

LEMMA Valores ==
    ASSUME TiposDoPainel, HubCerto
    PROVE  /\ hub \in Hubs /\ hub.buffer \in Seq(Aviso) /\ hub.cursor \in Nat /\ hub.base \in Nat
           /\ Teto \in Nat /\ Teto <= hub.cursor /\ hub.base <= Teto + 1 /\ Len(mudancas) \in Nat
           /\ escuta \in Escutas /\ escuta.fila \in Seq(Nat)
<1>1. hub.buffer \in Seq(Aviso) /\ hub.cursor \in Nat /\ hub.base \in Nat /\ hub \in Hubs
  BY DEF TiposDoPainel, Hubs
<1>2. Teto \in Nat /\ Teto <= hub.cursor /\ hub.base <= Teto + 1
  BY <1>1 DEF Teto, HubCerto
<1> QED
  BY <1>1, <1>2 DEF TiposDoPainel, Escutas

LEMMA ValoresDe ==
    ASSUME TiposDoPainel, NEW c \in Clientes
    PROVE  /\ con[c] \in Conexoes /\ con[c].repor \in Seq(Aviso) /\ con[c].canal \in Seq(Aviso)
           /\ con[c].fase \in {"fora", "repondo", "laco"}
           /\ fio[c] \in Seq(Aviso)
           /\ tela[c] \in Telas /\ tela[c].lido \in Nat /\ tela[c].vista \in Nat
           /\ tela[c].ultimoId \in Nat /\ tela[c].url \in Nat
           /\ tela[c].busca \in Seq(Nat)
           /\ furos[c] \in SUBSET Nat
BY DEF TiposDoPainel, Conexoes, Telas

LEMMA MesmoBanco ==
    ASSUME UNCHANGED <<mudancas, escuta, hub>>, NEW c, NEW m
    PROVE  /\ Teto' = Teto /\ Alcance(m)' = Alcance(m) /\ Feitas' = Feitas
           /\ (EscutaCerta' <=> EscutaCerta) /\ (HubCerto' <=> HubCerto)
           /\ (Interessa(c, m)' <=> Interessa(c, m)) /\ (VemDoBanco(m)' <=> VemDoBanco(m))
<1>1. Teto' = Teto /\ Alcance(m)' = Alcance(m) /\ Feitas' = Feitas
  BY DEF Teto, Alcance, Conectado, Feitas
<1>2. (EscutaCerta' <=> EscutaCerta) /\ (HubCerto' <=> HubCerto)
  BY DEF EscutaCerta, HubCerto, Feitas, Guardados
<1>3. (Interessa(c, m)' <=> Interessa(c, m)) /\ (VemDoBanco(m)' <=> VemDoBanco(m))
  BY DEF Interessa, Assina, VemDoBanco, NuncaEscutou
<1> QED
  BY <1>1, <1>2, <1>3

\* The step is of c: the database, the hub and the other clients stay as they are.
LEMMA SoUmCliente ==
    ASSUME PainelInv, TiposDoPainel', NEW c \in Clientes, UNCHANGED <<mudancas, escuta, hub>>,
           \A d \in Clientes : d # c => /\ con'[d] = con[d] /\ fio'[d] = fio[d]
                                        /\ tela'[d] = tela[d] /\ furos'[d] = furos[d],
           Caminho(con'[c], fio'[c], tela'[c].lido, Teto, Len(mudancas)),
           VoltaCerta(tela'[c], Teto), BuscaCerta(tela'[c], Len(mudancas)),
           \A m \in Feitas : Deve(c, m)' =>
               /\ Garantida(con'[c], fio'[c], tela'[c].lido, m, Alcance(m))
               /\ VoltaGarantida(tela'[c], Alcance(m))
    PROVE  PainelInv'
<1>1. EscutaCerta' /\ HubCerto' /\ Teto' = Teto /\ Feitas' = Feitas
  BY MesmoBanco DEF PainelInv
<1>2. ASSUME NEW d \in Clientes
      PROVE  /\ Caminho(con'[d], fio'[d], tela'[d].lido, Teto', Len(mudancas)')
             /\ VoltaCerta(tela'[d], Teto') /\ BuscaCerta(tela'[d], Len(mudancas)')
  BY <1>1 DEF PainelInv
<1>3. ASSUME NEW d \in Clientes, NEW m \in Feitas, Deve(d, m)'
      PROVE  /\ Garantida(con'[d], fio'[d], tela'[d].lido, m, Alcance(m)')
             /\ VoltaGarantida(tela'[d], Alcance(m)')
  <2>1. Alcance(m)' = Alcance(m)
    BY MesmoBanco
  <2>2. CASE d = c
    BY <1>3, <2>1, <2>2
  <2>3. CASE d # c
    <3>1. Deve(d, m)
      <4>1. Interessa(d, m)' <=> Interessa(d, m)
        BY MesmoBanco
      <4>2. VemDoBanco(m)' <=> VemDoBanco(m)
        BY MesmoBanco
      <4>3. tela'[d] = tela[d] /\ furos'[d] = furos[d]
        BY <2>3
      <4> QED
        BY <1>3, <4>1, <4>2, <4>3 DEF Deve, Atrasada, Desculpada, VemDaBusca
    <3> QED
      BY <2>1, <2>3, <3>1 DEF PainelInv
  <2> QED
    BY <2>2, <2>3
<1> QED
  BY <1>1, <1>2, <1>3 DEF PainelInv

\* Only the connection of c moves, and what it drops is counted: what it still owes, it
\* owed.
LEMMA SoAConexao ==
    ASSUME PainelInv, NEW c \in Clientes, UNCHANGED <<mudancas, escuta, hub, tela>>,
           TiposDoPainel', furos[c] \subseteq furos'[c],
           \A d \in Clientes : d # c => con'[d] = con[d] /\ fio'[d] = fio[d] /\ furos'[d] = furos[d],
           Caminho(con'[c], fio'[c], tela[c].lido, Teto, Len(mudancas)),
           \A m \in Feitas :
               /\ Deve(c, m) /\ Deve(c, m)'
               /\ Garantida(con[c], fio[c], tela[c].lido, m, Alcance(m))
               => Garantida(con'[c], fio'[c], tela[c].lido, m, Alcance(m))
    PROVE  PainelInv'
<1>1. \A m \in Feitas : Deve(c, m)' => Deve(c, m)
  <2> SUFFICES ASSUME NEW m \in Feitas, Deve(c, m)' PROVE Deve(c, m)
    OBVIOUS
  <2>1. (Interessa(c, m)' <=> Interessa(c, m)) /\ (VemDoBanco(m)' <=> VemDoBanco(m))
    BY MesmoBanco
  <2> QED
    BY <2>1 DEF Deve, Atrasada, Desculpada, VemDaBusca
<1>2. \A m \in Feitas : Deve(c, m)' =>
          /\ Garantida(con'[c], fio'[c], tela'[c].lido, m, Alcance(m))
          /\ VoltaGarantida(tela'[c], Alcance(m))
  BY <1>1 DEF PainelInv
<1>3. VoltaCerta(tela'[c], Teto) /\ BuscaCerta(tela'[c], Len(mudancas))
  BY DEF PainelInv
<1> QED
  BY <1>2, <1>3, SoUmCliente

LEMMA EscreverFaz ==
    ASSUME TiposDoPainel, NEW c \in Clientes, NEW a \in Aviso, Escrever(c, a)
    PROVE  /\ fio[c] = <<>> /\ fio'[c] = <<a>> /\ fio' \in [Clientes -> Seq(Aviso)]
           /\ \A d \in Clientes : d # c => fio'[d] = fio[d]
BY DEF Escrever, TiposDoPainel

LEMMA ResyncEAviso == Resync \in Aviso
BY DEF Resync, Aviso

\* What the handler does with a notice: written as it is, written as a resync, or not
\* written, and counted if the client is left without it.
LEMMA EntregaFaz ==
    ASSUME TiposDoPainel, NEW c \in Clientes, NEW a \in Aviso, EntregarAoCliente(c, a)
    PROVE  /\ fio' \in [Clientes -> Seq(Aviso)] /\ furos' \in [Clientes -> SUBSET Nat]
           /\ \A d \in Clientes : d # c => fio'[d] = fio[d] /\ furos'[d] = furos[d]
           /\ furos[c] \subseteq furos'[c]
           /\ \/ fio[c] = <<>> /\ fio'[c] = <<a>>
              \/ fio[c] = <<>> /\ fio'[c] = <<Resync>>
              \/ fio'[c] = fio[c] /\ SemBusca(c, {a.m}) \subseteq furos'[c]
<1>1. CASE Escrever(c, a) /\ UNCHANGED furos
  BY <1>1, EscreverFaz DEF TiposDoPainel
<1>2. CASE Escrever(c, Resync) /\ UNCHANGED furos
  BY <1>2, EscreverFaz, ResyncEAviso DEF TiposDoPainel
<1>3. CASE UNCHANGED fio /\ furos' = [furos EXCEPT ![c] = @ \cup SemBusca(c, {a.m})]
  <2>1. SemBusca(c, {a.m}) \in SUBSET Nat
    BY DEF SemBusca, Aviso
  <2> QED
    BY <1>3, <2>1 DEF TiposDoPainel
<1> QED
  BY <1>1, <1>2, <1>3 DEF EntregarAoCliente

\* What was not written is counted, or not of the client's interest.
LEMMA NaoEraDela ==
    ASSUME NEW c, NEW m, NEW a, UNCHANGED tela, Deve(c, m), Deve(c, m)',
           SemBusca(c, {a.m}) \subseteq furos'[c], ~a.resync
    PROVE  ~Traz(<<a>>, m)
<1>1. m \notin furos'[c] /\ Atrasada(c, m) /\ ~VemDaBusca(c, m)
  BY DEF Deve, Desculpada
<1>2. a.m # m
  BY <1>1 DEF SemBusca
<1> QED
  BY <1>2 DEF Traz

LEMMA AoRepor ==
    ASSUME PainelInv, NEW c \in Clientes, Repor(c)
    PROVE  PainelInv'
<1> DEFINE k == con[c]
           x == tela[c].lido
<1>1. TiposDoPainel /\ k \in Conexoes /\ k.fase = "repondo" /\ k.repor \in Seq(Aviso)
      /\ UNCHANGED <<mudancas, escuta, hub, presas, dono, tela>>
      /\ Caminho(k, fio[c], x, Teto, Len(mudancas))
  BY ValoresDe DEF PainelInv, Repor
<1>2. CASE k.repor = <<>>
  <2> DEFINE k1 == [k EXCEPT !.fase = "laco"]
  <2>1. con' = [con EXCEPT ![c] = k1] /\ fio' = fio /\ furos' = furos
    BY <1>2 DEF Repor
  <2>2. /\ k1 \in Conexoes /\ k1.fase = "laco" /\ k1.repor = k.repor /\ k1.canal = k.canal
        /\ k1.resync = k.resync
    BY <1>1 DEF Conexoes
  <2> HIDE DEF k1
  <2>3. TiposDoPainel' /\ con'[c] = k1 /\ \A d \in Clientes : d # c => con'[d] = con[d]
    BY <1>1, <2>1, <2>2 DEF TiposDoPainel
  <2>4. Caminho(k1, fio[c], x, Teto, Len(mudancas))
    BY <1>1, <1>2, <2>2 DEF Caminho
  <2>5. \A m, F : Garantida(k, fio[c], x, m, F) => Garantida(k1, fio[c], x, m, F)
    BY <1>1, <2>2 DEF Garantida
  <2> QED
    BY <1>1, <2>1, <2>3, <2>4, <2>5, SoAConexao
<1>3. CASE k.repor # <<>>
  <2> DEFINE k1 == [k EXCEPT !.repor = Tail(k.repor)]
             a == Head(k.repor)
  <2>1. /\ con' = [con EXCEPT ![c] = k1]
        /\ IF a.resync THEN Escrever(c, Resync) /\ UNCHANGED furos ELSE EntregarAoCliente(c, a)
    BY <1>3 DEF Repor
  <2>2. a \in Aviso /\ Tail(k.repor) \in Seq(Aviso)
    BY <1>1, <1>3, Cauda
  <2>3. k1 \in Conexoes
    BY <1>1, <2>2 DEF Conexoes
  <2>4. /\ fio' \in [Clientes -> Seq(Aviso)] /\ furos' \in [Clientes -> SUBSET Nat]
        /\ \A d \in Clientes : d # c => fio'[d] = fio[d] /\ furos'[d] = furos[d]
        /\ furos[c] \subseteq furos'[c]
        /\ \/ fio[c] = <<>> /\ fio'[c] = <<a>>
           \/ fio[c] = <<>> /\ fio'[c] = <<Resync>>
           \/ fio'[c] = fio[c] /\ SemBusca(c, {a.m}) \subseteq furos'[c] /\ ~a.resync
    <3>1. CASE a.resync
      BY <1>1, <2>1, <3>1, EscreverFaz, ResyncEAviso DEF TiposDoPainel
    <3>2. CASE ~a.resync
      BY <1>1, <2>1, <2>2, <3>2, EntregaFaz
    <3> QED
      BY <3>1, <3>2
  <2>5. TiposDoPainel' /\ con'[c] = k1 /\ \A d \in Clientes : d # c => con'[d] = con[d]
    <3> HIDE DEF k1
    <3> QED
      BY <1>1, <2>1, <2>3, <2>4 DEF TiposDoPainel
  <2> DEFINE g == fio'[c]
  <2>6. Caminho(k1, g, x, Teto, Len(mudancas))
    <3>1. \/ fio[c] = <<>> /\ g = <<Head(k.repor)>>
          \/ fio[c] = <<>> /\ g = <<Resync>>
          \/ g = fio[c]
      BY <2>4
    <3> HIDE DEF g, x, a
    <3> QED
      BY <1>1, <1>3, <3>1, PassaDaReposicao
  <2>7. ASSUME NEW m \in Feitas, Deve(c, m), Deve(c, m)', Garantida(k, fio[c], x, m, Alcance(m))
        PROVE  Garantida(k1, g, x, m, Alcance(m))
    <3>1. \/ fio[c] = <<>> /\ g = <<a>>
          \/ fio[c] = <<>> /\ g = <<Resync>>
          \/ g = fio[c] /\ ~Traz(<<a>>, m)
      BY <1>1, <2>4, <2>7, NaoEraDela
    <3> HIDE DEF g, x
    <3> QED
      BY <1>1, <1>3, <2>7, <3>1, DividaNaReposicao
  <2> HIDE DEF k1
  <2> QED
    BY <1>1, <2>4, <2>5, <2>6, <2>7, SoAConexao
<1> QED
  BY <1>2, <1>3

LEMMA AoLerAviso ==
    ASSUME PainelInv, NEW c \in Clientes, LerAviso(c)
    PROVE  PainelInv'
<1> DEFINE k == con[c]
           x == tela[c].lido
           a == Head(k.canal)
           marcado == ~a.resync /\ k.resync
           k1 == [k EXCEPT !.canal = Tail(k.canal), !.resync = k.resync /\ ~marcado]
<1>1. TiposDoPainel /\ k \in Conexoes /\ k.fase = "laco" /\ k.canal \in Seq(Aviso) /\ k.canal # <<>>
      /\ UNCHANGED <<mudancas, escuta, hub, presas, dono, tela>>
      /\ Caminho(k, fio[c], x, Teto, Len(mudancas)) /\ k.resync \in BOOLEAN
  BY ValoresDe DEF PainelInv, LerAviso, Conexoes
<1>2. /\ con' = [con EXCEPT ![c] = k1]
      /\ IF a.resync \/ marcado THEN Escrever(c, Resync) /\ UNCHANGED furos ELSE EntregarAoCliente(c, a)
  <2>1. con' = [con EXCEPT ![c].canal = Tail(k.canal), ![c].resync = k.resync /\ ~marcado]
    BY DEF LerAviso
  <2>2. [con EXCEPT ![c].canal = Tail(k.canal), ![c].resync = k.resync /\ ~marcado]
          = [con EXCEPT ![c] = k1]
    <3> HIDE DEF marcado
    <3> QED
      BY <1>1 DEF TiposDoPainel, Conexoes
  <2> QED
    BY <2>1, <2>2 DEF LerAviso
<1>3. a \in Aviso /\ Tail(k.canal) \in Seq(Aviso)
  BY <1>1, Cauda
<1>4. /\ k1 \in Conexoes /\ k1.fase = k.fase /\ k1.repor = k.repor /\ k1.canal = Tail(k.canal)
  BY <1>1, <1>3 DEF Conexoes
<1>5. /\ fio' \in [Clientes -> Seq(Aviso)] /\ furos' \in [Clientes -> SUBSET Nat]
      /\ \A d \in Clientes : d # c => fio'[d] = fio[d] /\ furos'[d] = furos[d]
      /\ furos[c] \subseteq furos'[c]
      /\ \/ fio[c] = <<>> /\ fio'[c] = <<a>> /\ ~k.resync
         \/ fio[c] = <<>> /\ fio'[c] = <<Resync>>
         \/ fio'[c] = fio[c] /\ SemBusca(c, {a.m}) \subseteq furos'[c] /\ ~a.resync /\ ~k.resync
  <2>1. CASE a.resync \/ marcado
    BY <1>1, <1>2, <2>1, EscreverFaz, ResyncEAviso DEF TiposDoPainel
  <2>2. CASE ~(a.resync \/ marcado)
    <3>1. ~a.resync /\ ~k.resync
      BY <2>2
    <3> QED
      BY <1>1, <1>2, <1>3, <2>2, <3>1, EntregaFaz
  <2> QED
    BY <2>1, <2>2
<1> HIDE DEF k1
<1>6. TiposDoPainel' /\ con'[c] = k1 /\ \A d \in Clientes : d # c => con'[d] = con[d]
  BY <1>1, <1>2, <1>4, <1>5 DEF TiposDoPainel
<1> DEFINE g == fio'[c]
<1> HIDE DEF x
<1>7. Caminho(k1, g, x, Teto, Len(mudancas))
  <2>1. \/ fio[c] = <<>> /\ g = <<Head(k.canal)>>
        \/ fio[c] = <<>> /\ g = <<Resync>>
        \/ g = fio[c]
    BY <1>5
  <2> HIDE DEF g, a
  <2> QED
    BY <1>1, <1>4, <2>1, PassaDoCanal
<1>8. ASSUME NEW m \in Feitas, Deve(c, m), Deve(c, m)', Garantida(k, fio[c], x, m, Alcance(m))
      PROVE  Garantida(k1, g, x, m, Alcance(m))
  <2>1. \/ fio[c] = <<>> /\ g = <<Head(k.canal)>> /\ ~k.resync
        \/ fio[c] = <<>> /\ g = <<Resync>>
        \/ g = fio[c] /\ ~k.resync /\ ~Traz(<<Head(k.canal)>>, m)
    BY <1>1, <1>5, <1>8, NaoEraDela
  <2>2. k.repor = <<>>
    BY <1>1 DEF Caminho
  <2> HIDE DEF g, a
  <2> QED
    BY <1>1, <1>4, <1>8, <2>1, <2>2, DividaNoCanal
<1> HIDE DEF g
<1> QED
  BY <1>1, <1>5, <1>6, <1>7, <1>8, SoAConexao DEF g, x

LEMMA AoBater ==
    ASSUME PainelInv, NEW c \in Clientes, Bater(c)
    PROVE  PainelInv'
<1> DEFINE k == con[c]
           x == tela[c].lido
           k1 == [k EXCEPT !.resync = FALSE]
<1>1. TiposDoPainel /\ k \in Conexoes /\ k.fase = "laco"
      /\ UNCHANGED <<mudancas, escuta, hub, presas, dono, tela, furos>>
      /\ con' = [con EXCEPT ![c] = k1] /\ Escrever(c, Resync)
      /\ Caminho(k, fio[c], x, Teto, Len(mudancas))
  BY ValoresDe DEF PainelInv, Bater
<1>2. k1 \in Conexoes /\ k1.fase = k.fase /\ k1.repor = k.repor /\ k1.canal = k.canal
  BY <1>1 DEF Conexoes
<1>3. /\ fio[c] = <<>> /\ fio'[c] = <<Resync>> /\ fio' \in [Clientes -> Seq(Aviso)]
      /\ \A d \in Clientes : d # c => fio'[d] = fio[d]
  BY <1>1, EscreverFaz, ResyncEAviso
<1> HIDE DEF k1, x
<1>4. TiposDoPainel' /\ con'[c] = k1 /\ \A d \in Clientes : d # c => con'[d] = con[d]
  BY <1>1, <1>2, <1>3 DEF TiposDoPainel
<1>5. \A z, n, t : /\ Dados(<<Resync>>, x, z, n) /\ Antes(<<Resync>>, t) /\ Len(<<Resync>>) = 1
  BY Vazias
<1>6. Caminho(k1, <<Resync>>, x, Teto, Len(mudancas))
  BY <1>1, <1>2, <1>5 DEF Caminho
<1>7. ASSUME NEW m, NEW F, Garantida(k, fio[c], x, m, F) PROVE Garantida(k1, <<Resync>>, x, m, F)
  <2>1. Traz(<<Resync>>, m) /\ Firmes(<<Resync>>, m, F)
    BY Vazias
  <2> QED
    BY <1>1, <1>2, <1>7, <2>1, Zenon DEF Garantida
<1> QED
  BY <1>1, <1>3, <1>4, <1>6, <1>7, SoAConexao DEF x

LEMMA AoCortar ==
    ASSUME PainelInv, NEW c \in Clientes, Cortar(c)
    PROVE  PainelInv'
<1> DEFINE x == tela[c].lido
<1>1. TiposDoPainel /\ UNCHANGED <<mudancas, escuta, hub, dono, tela, furos>>
      /\ con' = [con EXCEPT ![c] = Fora] /\ fio' = [fio EXCEPT ![c] = <<>>]
      /\ presas' = [presas EXCEPT ![c] = presas[c] + 1]
      /\ Caminho(con[c], fio[c], x, Teto, Len(mudancas))
  BY DEF PainelInv, Cortar
<1>2. Fora \in Conexoes /\ Fora.fase = "fora" /\ Fora.repor = <<>> /\ Fora.canal = <<>>
  BY DEF Fora, Conexoes
<1>3. /\ con'[c] = Fora /\ \A d \in Clientes : d # c => con'[d] = con[d]
      /\ fio'[c] = <<>> /\ \A d \in Clientes : d # c => fio'[d] = fio[d]
      /\ con' \in [Clientes -> Conexoes] /\ fio' \in [Clientes -> Seq(Aviso)]
      /\ presas' \in [Clientes -> Nat]
  BY <1>1, <1>2 DEF TiposDoPainel
<1>4. TiposDoPainel'
  BY <1>1, <1>3 DEF TiposDoPainel
<1> HIDE DEF x
<1>5. Caminho(Fora, <<>>, x, Teto, Len(mudancas))
  BY <1>1, <1>2, Vazias DEF Caminho
<1>6. \A m, F : Garantida(con[c], fio[c], x, m, F) => Garantida(Fora, <<>>, x, m, F)
  BY <1>2 DEF Garantida
<1> QED
  BY <1>1, <1>3, <1>4, <1>5, <1>6, SoAConexao DEF x

LEMMA AoCancelar ==
    ASSUME PainelInv, NEW c \in Clientes, Cancelar(c)
    PROVE  PainelInv'
<1>1. TiposDoPainel' /\ UNCHANGED <<mudancas, escuta, hub, con, fio, dono, tela, furos>>
  BY DEF PainelInv, TiposDoPainel, Cancelar
<1> QED
  BY <1>1, SoAConexao DEF PainelInv

\* The replay: notices of the buffer after x, in order; when it has m, whatever comes before
\* m leaves the client where m is still to be had.
LEMMA ReposicaoFaz ==
    ASSUME TiposDoPainel, HubCerto, NEW c \in Clientes, NEW x \in Nat
    PROVE  /\ Reposicao(c, x) \in Seq(Aviso) /\ Crescente(Reposicao(c, x))
           /\ Dados(Reposicao(c, x), x, hub.cursor, Len(mudancas))
           /\ \A m \in Nat :
                 /\ x > 0 /\ Assina(c, m)
                 /\ \E i \in DOMAIN hub.buffer : hub.buffer[i].cursor > x /\ hub.buffer[i].m = m
                 => /\ Traz(Reposicao(c, x), m)
                    /\ Teto = hub.cursor => Firmes(Reposicao(c, x), m, Alcance(m))
<1>1. CASE x = 0
  <2>1. Reposicao(c, x) = <<>>
    BY <1>1 DEF Reposicao
  <2>2. <<>> \in Seq(Aviso) /\ ~(x > 0)
    BY <1>1
  <2>3. Crescente(<<>>) /\ Dados(<<>>, x, hub.cursor, Len(mudancas))
    BY Vazias
  <2> QED
    BY <2>1, <2>2, <2>3
<1>2. CASE x # 0
  <2> DEFINE b == hub.buffer
             L == {n \in DOMAIN b : b[n].cursor > x /\ Assina(c, b[n].m)}
             r == Reposicao(c, x)
  <2>1. b \in Seq(Aviso) /\ L \in SUBSET (DOMAIN b) /\ r = Separar(b, L)
    BY <1>2, Valores DEF Reposicao
  <2>2. \A i \in DOMAIN b : b[i].cursor \in Nat /\ i \in Nat
    <3> HIDE DEF b
    <3>1. \A i \in DOMAIN b : b[i] \in Aviso /\ i \in Nat
      BY <2>1
    <3> QED
      BY <3>1 DEF Aviso
  <2>3. /\ \A n \in L : b[n].cursor > x
        /\ \A n \in DOMAIN b : b[n].cursor > x /\ Assina(c, b[n].m) => n \in L
    OBVIOUS
  <2>4. \A i \in DOMAIN b : ~b[i].resync /\ b[i].cursor <= hub.cursor /\ b[i].m \in 1..Len(mudancas)
    BY DEF HubCerto, Guardados
  <2>5. \A i, j \in DOMAIN b : j < i => b[j].cursor < b[i].cursor
    BY DEF HubCerto, Guardados
  <2> HIDE DEF L, r, b
  <2>6. r \in Seq(Aviso)
    BY <2>1, SepararEmOrdem
  <2>7. PICK g \in [DOMAIN r -> L] :
            /\ \A i \in DOMAIN r : r[i] = b[g[i]]
            /\ \A i, j \in DOMAIN r : i < j => g[i] < g[j]
            /\ \A p \in L : \E i \in DOMAIN r : g[i] = p
    BY <2>1, SepararEmOrdem
  <2>8. \A i \in DOMAIN r : g[i] \in L /\ g[i] \in DOMAIN b /\ r[i] = b[g[i]] /\ i \in Nat
    BY <2>1, <2>6, <2>7
  <2>9. Crescente(r)
    <3> SUFFICES ASSUME NEW i \in DOMAIN r, NEW j \in DOMAIN r, i < j PROVE r[i].cursor < r[j].cursor
      BY DEF Crescente
    <3> QED
      BY <2>5, <2>7, <2>8
  <2>10. Dados(r, x, hub.cursor, Len(mudancas))
    <3>1. \A i \in DOMAIN r : r[i].cursor > x /\ r[i].cursor <= hub.cursor /\ r[i].m \in 1..Len(mudancas)
      BY <2>3, <2>4, <2>8
    <3>2. \A i \in DOMAIN r : r[i].cursor \in Nat
      BY <2>2, <2>8
    <3> QED
      BY <3>1, <3>2 DEF Dados
  <2>11. ASSUME NEW m \in Nat, Assina(c, m), \E i \in DOMAIN b : b[i].cursor > x /\ b[i].m = m
         PROVE  Traz(r, m) /\ (Teto = hub.cursor => Firmes(r, m, Alcance(m)))
    <3>1. PICK p \in DOMAIN b : b[p].cursor > x /\ b[p].m = m
      BY <2>11
    <3>2. p \in L
      BY <2>3, <2>11, <3>1
    <3>3. PICK j \in DOMAIN r : g[j] = p
      BY <2>7, <3>2
    <3>4. r[j].m = m
      BY <2>8, <3>1, <3>3
    <3>5. ASSUME Teto = hub.cursor, NEW i \in DOMAIN r, ~(j <= i) PROVE r[i].cursor \in Alcance(m)
      <4>1. i < j
        BY <2>8, <3>5
      <4>2. g[i] < p
        BY <2>7, <3>3, <4>1
      <4>3. r[i].cursor < b[p].cursor /\ r[i].cursor \in Nat /\ r[i].cursor <= hub.cursor
        BY <2>2, <2>4, <2>5, <2>8, <4>2
      <4>4. r[i].cursor \in 0..Teto
        BY <3>5, <4>3, Valores
      <4>5. b[p].cursor > r[i].cursor
        BY <2>2, <4>3
      <4> QED
        BY <3>1, <4>4, <4>5 DEF Alcance, b
    <3>6. Teto = hub.cursor => Firmes(r, m, Alcance(m))
      BY <3>4, <3>5 DEF Firmes
    <3> QED
      BY <3>4, <3>6 DEF Traz
  <2> QED
    BY <2>6, <2>9, <2>10, <2>11 DEF r, b
<1> QED
  BY <1>1, <1>2

LEMMA ConexaoNova ==
    ASSUME NEW r \in Seq(Aviso), NEW k, k = [Fora EXCEPT !.fase = "repondo", !.repor = r]
    PROVE  /\ k \in Conexoes /\ k.fase = "repondo" /\ k.repor = r /\ k.canal = <<>> /\ ~k.resync
<1>1. ASSUME NEW z \in Seq(Aviso), Fora = [fase |-> "fora", repor |-> z, canal |-> z, resync |-> FALSE]
      PROVE  /\ k \in Conexoes /\ k.fase = "repondo" /\ k.repor = r /\ k.canal = z /\ ~k.resync
  BY <1>1 DEF Conexoes
<1>2. <<>> \in Seq(Aviso)
  OBVIOUS
<1> QED
  BY <1>1, <1>2 DEF Fora

LEMMA AoAssinar ==
    ASSUME PainelInv, NEW c \in Clientes, Assinar(c)
    PROVE  PainelInv'
<1> DEFINE x == Apresenta(c)
           r == IF SemAlcance(x) THEN <<Resync>> ELSE Reposicao(c, x)
           k1 == [Fora EXCEPT !.fase = "repondo", !.repor = r]
           perdidas == SemBusca(c, {m \in Feitas : ~VemDoBanco(m)})
           g == IF x > 0 THEN furos[c] ELSE furos[c] \cup perdidas
<1>1. /\ TiposDoPainel /\ HubCerto /\ EscutaCerta
      /\ UNCHANGED <<mudancas, dono, escuta, hub, presas, fio>>
      /\ con' = [con EXCEPT ![c] = k1] /\ furos' = [furos EXCEPT ![c] = g]
      /\ tela' = [tela EXCEPT ![c].lido = x]
      /\ Caminho(con[c], fio[c], tela[c].lido, Teto, Len(mudancas)) /\ con[c].fase = "fora"
      /\ x \in {tela[c].ultimoId, tela[c].url} /\ x \in Nat /\ x <= Teto
  <2>1. PainelInv /\ TiposDoPainel /\ HubCerto /\ EscutaCerta /\ VoltaCerta(tela[c], Teto)
    BY DEF PainelInv
  <2>2. Caminho(con[c], fio[c], tela[c].lido, Teto, Len(mudancas))
    BY DEF PainelInv
  <2>3. x \in {tela[c].ultimoId, tela[c].url} /\ x \in Nat /\ x <= Teto
    BY <2>1, ValoresDe DEF Apresenta, VoltaCerta
  <2>4. /\ UNCHANGED <<mudancas, dono, escuta, hub, presas, fio>>
        /\ con' = [con EXCEPT ![c] = k1] /\ furos' = [furos EXCEPT ![c] = g]
        /\ tela' = [tela EXCEPT ![c].lido = x] /\ con[c].fase = "fora"
    BY DEF Assinar, Assinante
  <2> HIDE DEF x, g, k1
  <2> QED
    BY <2>1, <2>2, <2>3, <2>4
<1>2. fio[c] = <<>>
  BY <1>1 DEF Caminho
<1>3. ~SemAlcance(x) /\ x > 0 => Conectado /\ hub.base <= x /\ Teto = hub.cursor
  BY <1>1, Valores DEF SemAlcance, Conectado, EscutaCerta, Teto
<1>4. r \in Seq(Aviso) /\ Crescente(r) /\ Dados(r, x, Teto, Len(mudancas))
  <2>1. CASE SemAlcance(x)
    <3>1. r = <<Resync>> /\ <<Resync>> \in Seq(Aviso)
      BY <2>1, ResyncEAviso
    <3> QED
      BY <3>1, Vazias
  <2>2. CASE ~SemAlcance(x) /\ x > 0
    <3>1. r = Reposicao(c, x)
      BY <2>2
    <3> HIDE DEF r, x
    <3> QED
      BY <1>1, <1>3, <2>2, <3>1, ReposicaoFaz
  <2>3. CASE x = 0
    <3>1. r = <<>>
      BY <2>3 DEF SemAlcance, Reposicao
    <3>2. <<>> \in Seq(Aviso)
      OBVIOUS
    <3> QED
      BY <3>1, <3>2, Vazias
  <2> QED
    BY <1>1, <2>1, <2>2, <2>3
<1>20. /\ tela' \in [Clientes -> Telas] /\ tela'[c].lido = x /\ \A d \in Clientes : d # c => tela'[d] = tela[d]
       /\ tela'[c].ultimoId = tela[c].ultimoId /\ tela'[c].url = tela[c].url
       /\ tela'[c].vista = tela[c].vista /\ tela'[c].agendada = tela[c].agendada
       /\ tela'[c].busca = tela[c].busca /\ tela'[c].pendente = tela[c].pendente
       /\ tela'[c].falha = tela[c].falha
  <2> HIDE DEF x
  <2> QED
    BY <1>1 DEF TiposDoPainel, Telas
<1> HIDE DEF r
<1>5. /\ k1 \in Conexoes /\ k1.fase = "repondo" /\ k1.repor = r /\ k1.canal = <<>> /\ ~k1.resync
  BY <1>4, ConexaoNova
<1> HIDE DEF k1
<1>6. g \in SUBSET Nat
  <2>1. perdidas \in SUBSET Nat
    BY DEF SemBusca, Feitas
  <2> HIDE DEF perdidas, x
  <2> QED
    BY <1>1, <2>1, ValoresDe
<1>7. furos[c] \subseteq g /\ (x = 0 => perdidas \subseteq g)
  OBVIOUS
<1> HIDE DEF g, perdidas
<1>8. /\ TiposDoPainel' /\ con'[c] = k1 /\ furos'[c] = g
      /\ \A d \in Clientes : d # c => con'[d] = con[d] /\ furos'[d] = furos[d]
  BY <1>1, <1>5, <1>6, <1>20 DEF TiposDoPainel
<1>9. Caminho(k1, <<>>, x, Teto, Len(mudancas))
  BY <1>1, <1>4, <1>5, Vazias DEF Caminho
<1>10. ASSUME NEW m \in Feitas, Deve(c, m)'
       PROVE  Garantida(k1, <<>>, x, m, Alcance(m)) /\ VoltaGarantida(tela'[c], Alcance(m))
  <2>1. (Interessa(c, m)' <=> Interessa(c, m)) /\ (VemDoBanco(m)' <=> VemDoBanco(m))
    BY <1>1, MesmoBanco
  <2>2. Atrasada(c, m) /\ Interessa(c, m) /\ m \notin g /\ ~VemDoBanco(m) /\ ~VemDaBusca(c, m)
    BY <1>8, <1>10, <1>20, <2>1 DEF Deve, Atrasada, Desculpada, VemDaBusca
  <2>3. Deve(c, m)
    BY <1>7, <1>8, <1>10, <1>20, <2>2 DEF Deve, Desculpada
  <2>4. x \in Alcance(m) /\ VoltaGarantida(tela'[c], Alcance(m))
    <3>1. VoltaGarantida(tela[c], Alcance(m))
      BY <2>3 DEF PainelInv
    <3> HIDE DEF x
    <3> QED
      BY <1>1, <1>20, <3>1 DEF VoltaGarantida
  <2>5. x > 0
    <3>1. m \in perdidas
      BY <2>2 DEF perdidas, SemBusca
    <3> QED
      BY <1>1, <1>7, <2>2, <3>1
  <2>6. CASE SemAlcance(x)
    <3>1. r = <<Resync>>
      BY <2>6 DEF r
    <3> QED
      BY <1>5, <2>4, <3>1, Vazias DEF Garantida
  <2>7. CASE ~SemAlcance(x)
    <3>1. r = Reposicao(c, x)
      BY <2>7 DEF r
    <3>2. \E i \in DOMAIN hub.buffer : hub.buffer[i].cursor > x /\ hub.buffer[i].m = m
      <4>1. ~(x < hub.base)
        BY <1>1, <1>3, <2>5, <2>7, Valores
      <4> QED
        BY <1>3, <2>4, <2>5, <2>7, <4>1 DEF Alcance
    <3>3. m \in Nat /\ Assina(c, m)
      BY <2>2 DEF Interessa, Feitas
    <3>4. Traz(r, m) /\ Firmes(r, m, Alcance(m))
      <4> HIDE DEF x
      <4> QED
        BY <1>1, <1>3, <2>5, <2>7, <3>1, <3>2, <3>3, ReposicaoFaz
    <3> QED
      BY <1>5, <2>4, <3>4, Vazias DEF Garantida
  <2> QED
    BY <2>6, <2>7
<1>11. fio'[c] = <<>> /\ \A d \in Clientes : fio'[d] = fio[d]
  BY <1>1, <1>2
<1>12. BuscaCerta(tela'[c], Len(mudancas)) /\ VoltaCerta(tela'[c], Teto)
  BY <1>20 DEF PainelInv, BuscaCerta, VoltaCerta
<1> HIDE DEF x
<1> QED
  BY <1>1, <1>8, <1>9, <1>10, <1>11, <1>12, <1>20, SoUmCliente

\* The client reads a notice: nothing of what comes next is before it.
LEMMA CaminhoLido ==
    ASSUME NEW k \in Conexoes, NEW f \in Seq(Aviso), NEW x \in Nat, NEW z \in Nat, NEW n \in Nat,
           Caminho(k, f, x, z, n), f # <<>>
    PROVE  /\ Head(f) \in Aviso /\ k.fase # "fora" /\ Caminho(k, <<>>, x, z, n)
           /\ ~Head(f).resync => Head(f).m \in 1..n /\ Caminho(k, <<>>, Head(f).cursor, z, n)
<1> DEFINE a == Head(f)
<1>1. /\ 1 \in DOMAIN f /\ f[1] = a /\ a \in Aviso /\ k.repor \in Seq(Aviso) /\ k.canal \in Seq(Aviso)
  BY Cauda DEF Conexoes
<1>2. /\ k.fase # "fora"
      /\ k.fase = "laco" => k.repor = <<>>
      /\ Dados(f, x, z, n) /\ Dados(k.repor, x, z, n) /\ Dados(k.canal, x, z, n)
      /\ Crescente(k.repor) /\ Crescente(k.canal)
      /\ Antes(f, k.repor) /\ Antes(f, k.canal) /\ Antes(k.repor, k.canal) /\ x <= z
  BY DEF Caminho
<1>3. Caminho(k, <<>>, x, z, n)
  BY <1>2, Vazias DEF Caminho
<1>4. ASSUME ~a.resync PROVE a.m \in 1..n /\ a.cursor <= z
  BY <1>1, <1>2, <1>4 DEF Dados
<1>5. ASSUME ~a.resync, NEW s \in Seq(Aviso), Dados(s, x, z, n), Antes(f, s)
      PROVE  Dados(s, a.cursor, z, n)
  <2> HIDE DEF a
  <2> QED
    BY <1>1, <1>5 DEF Dados, Antes
<1>6. ASSUME ~a.resync PROVE Caminho(k, <<>>, a.cursor, z, n)
  <2>1. Dados(k.repor, a.cursor, z, n) /\ Dados(k.canal, a.cursor, z, n)
    BY <1>1, <1>2, <1>5, <1>6
  <2> HIDE DEF a
  <2> QED
    BY <1>2, <1>4, <1>6, <2>1, Vazias DEF Caminho
<1>7. k.fase # "fora" /\ a \in Aviso
  BY <1>1, <1>2
<1> HIDE DEF a
<1> QED
  BY <1>3, <1>4, <1>6, <1>7 DEF a

\* It reads one that is not m: it is left where m is still to be had.
LEMMA DividaLida ==
    ASSUME NEW k, NEW f \in Seq(Aviso), NEW x, NEW m, NEW F, f # <<>>, f = <<>> \/ Len(f) = 1,
           Garantida(k, f, x, m, F), k.fase # "fora", ~Head(f).resync, Head(f).m # m
    PROVE  Garantida(k, <<>>, Head(f).cursor, m, F)
<1>1. 1 \in DOMAIN f /\ f[1] = Head(f) /\ DOMAIN f = {1}
  <2>1. Len(f) = 1 /\ DOMAIN f = 1..Len(f)
    OBVIOUS
  <2> QED
    BY <2>1, Cauda
<1>2. ~Traz(f, m)
  BY <1>1 DEF Traz
<1>3. Firmes(f, m, F)
  BY DEF Garantida
<1>4. Head(f).cursor \in F
  BY <1>1, <1>2, <1>3 DEF Firmes, Traz
<1>5. ~Traz(<<>>, m) /\ Firmes(<<>>, m, F)
  BY Vazias
<1> QED
  BY <1>2, <1>4, <1>5, Zenon DEF Garantida

LEMMA AoReceber ==
    ASSUME PainelInv, NEW c \in Clientes, Receber(c)
    PROVE  PainelInv'
<1> DEFINE k == con[c]
           x == tela[c].lido
           f == fio[c]
           a == Head(f)
           n == Len(mudancas)
<1>1. /\ TiposDoPainel /\ HubCerto /\ UNCHANGED <<mudancas, dono, escuta, hub, con, presas>>
      /\ fio' = [fio EXCEPT ![c] = <<>>] /\ f # <<>>
      /\ Caminho(k, f, x, Teto, n) /\ BuscaCerta(tela[c], n) /\ VoltaCerta(tela[c], Teto)
  BY DEF PainelInv, Receber
<1>2. /\ k \in Conexoes /\ f \in Seq(Aviso) /\ x \in Nat /\ Teto \in Nat /\ n \in Nat
      /\ tela[c] \in Telas /\ furos[c] \in SUBSET Nat
  BY <1>1, Valores, ValoresDe
<1> HIDE DEF n, x
<1>3. /\ a \in Aviso /\ k.fase # "fora" /\ Caminho(k, <<>>, x, Teto, n)
      /\ ~a.resync => a.m \in 1..n /\ Caminho(k, <<>>, a.cursor, Teto, n)
      /\ ~a.resync => a.cursor <= Teto
  <2>1. /\ a \in Aviso /\ k.fase # "fora" /\ Caminho(k, <<>>, x, Teto, n)
        /\ ~a.resync => a.m \in 1..n /\ Caminho(k, <<>>, a.cursor, Teto, n)
    BY <1>1, <1>2, CaminhoLido
  <2>2. ~a.resync => a.cursor <= Teto
    BY <2>1 DEF Caminho
  <2> QED
    BY <2>1, <2>2
<1>4. /\ fio'[c] = <<>> /\ \A d \in Clientes : d # c => fio'[d] = fio[d]
      /\ fio' \in [Clientes -> Seq(Aviso)]
  BY <1>1 DEF TiposDoPainel
<1>5. CASE a.resync
  <2> DEFINE z == [l \in Linhas |-> 0]
  <2>1. tela' = [tela EXCEPT ![c].vistos = z, ![c].agendada = TRUE] /\ furos' = furos
    BY <1>5 DEF Receber
  <2>2. z \in [Linhas -> Nat]
    OBVIOUS
  <2> HIDE DEF z
  <2>3. /\ tela' \in [Clientes -> Telas] /\ \A d \in Clientes : d # c => tela'[d] = tela[d]
        /\ tela'[c].lido = tela[c].lido /\ tela'[c].agendada
        /\ tela'[c].ultimoId = tela[c].ultimoId /\ tela'[c].url = tela[c].url
        /\ tela'[c].vista = tela[c].vista /\ tela'[c].busca = tela[c].busca
        /\ tela'[c].pendente = tela[c].pendente
    BY <1>1, <2>1, <2>2 DEF TiposDoPainel, Telas
  <2>4. TiposDoPainel'
    BY <1>1, <1>4, <2>1, <2>3 DEF TiposDoPainel
  <2>5. \A m : ~Deve(c, m)'
    BY <2>3 DEF Deve, Desculpada, VemDaBusca
  <2>6. BuscaCerta(tela'[c], n) /\ VoltaCerta(tela'[c], Teto)
    BY <1>1, <2>3 DEF BuscaCerta, VoltaCerta
  <2> QED
    BY <1>1, <1>3, <1>4, <2>1, <2>3, <2>4, <2>5, <2>6, SoUmCliente DEF n, x
<1>6. CASE ~a.resync
  <2> DEFINE e == mudancas[a.m]
             novidade == e.v > tela[c].vistos[e.linha]
             w == IF novidade THEN e.v ELSE tela[c].vistos[e.linha]
             g == IF novidade THEN furos[c] ELSE furos[c] \cup SemBusca(c, {a.m})
             q == tela[c].agendada \/ novidade
  <2>1. /\ tela' = [tela EXCEPT ![c].ultimoId = a.cursor, ![c].lido = a.cursor, ![c].agendada = q,
                            ![c].vistos[e.linha] = w]
        /\ furos' = [furos EXCEPT ![c] = g]
    BY <1>6 DEF Receber
  <2>2. e \in Commits /\ a.cursor \in Nat /\ a.m \in Nat
    <3>1. a.m \in 1..n /\ a.cursor \in Nat /\ a.m \in Nat
      BY <1>3, <1>6 DEF Aviso
    <3>2. \A i \in 1..n : mudancas[i] \in Commits
      <4>1. \A S : mudancas \in Seq(S) => \A i \in 1..Len(mudancas) : mudancas[i] \in S
        OBVIOUS
      <4> QED
        BY <1>1, <4>1 DEF TiposDoPainel, n
    <3> HIDE DEF a
    <3> QED
      BY <3>1, <3>2
  <2>3. w \in Nat /\ q \in BOOLEAN /\ e.linha \in Linhas
    BY <1>2, <2>2 DEF Telas, Commits
  <2>4. /\ q \/ SemBusca(c, {a.m}) \subseteq g
        /\ furos[c] \subseteq g /\ g \in SUBSET Nat /\ (tela[c].agendada => q)
    <3>1. SemBusca(c, {a.m}) \in SUBSET Nat
      BY <2>2 DEF SemBusca
    <3> QED
      BY <1>2, <3>1
  <2> HIDE DEF novidade, w, g, q, e
  <2>5. /\ tela' \in [Clientes -> Telas] /\ \A d \in Clientes : d # c => tela'[d] = tela[d]
        /\ tela'[c].lido = a.cursor /\ tela'[c].ultimoId = a.cursor /\ tela'[c].url = tela[c].url
        /\ tela'[c].agendada = q
        /\ tela'[c].vista = tela[c].vista /\ tela'[c].busca = tela[c].busca
        /\ tela'[c].falha = tela[c].falha /\ tela'[c].pendente = tela[c].pendente
    <3> DEFINE p == a.cursor
               h == [tela[c].vistos EXCEPT ![e.linha] = w]
               t == [tela[c] EXCEPT !.ultimoId = p, !.lido = p, !.agendada = q, !.vistos = h]
    <3>1. tela' = [tela EXCEPT ![c] = t]
      BY <1>2, <2>1 DEF Telas
    <3>2. p \in Nat /\ h \in [Linhas -> Nat]
      BY <1>2, <2>2, <2>3 DEF Telas
    <3> HIDE DEF p, h
    <3>3. /\ t \in Telas /\ t.lido = p /\ t.ultimoId = p /\ t.url = tela[c].url /\ t.agendada = q
          /\ t.vista = tela[c].vista /\ t.busca = tela[c].busca /\ t.falha = tela[c].falha
          /\ t.pendente = tela[c].pendente
      BY <1>2, <2>3, <3>2 DEF Telas
    <3> HIDE DEF t
    <3> QED
      BY <1>1, <3>1, <3>3 DEF TiposDoPainel, p
  <2>6. furos' \in [Clientes -> SUBSET Nat] /\ furos'[c] = g /\ \A d \in Clientes : d # c => furos'[d] = furos[d]
    BY <1>1, <2>1, <2>4 DEF TiposDoPainel
  <2>7. TiposDoPainel'
    BY <1>1, <1>4, <2>5, <2>6 DEF TiposDoPainel
  <2>8. ASSUME NEW m \in Feitas, Deve(c, m)'
        PROVE  Garantida(k, <<>>, a.cursor, m, Alcance(m)) /\ VoltaGarantida(tela'[c], Alcance(m))
    <3>1. (Interessa(c, m)' <=> Interessa(c, m)) /\ (VemDoBanco(m)' <=> VemDoBanco(m))
      BY <1>1, MesmoBanco
    <3>2. /\ Atrasada(c, m) /\ ~q /\ m \notin g /\ ~VemDoBanco(m)
          /\ ~(tela[c].falha /\ tela[c].busca = <<>>) /\ ~VemDaBusca(c, m)
      BY <2>4, <2>5, <2>6, <2>8, <3>1 DEF Deve, Atrasada, Desculpada, VemDaBusca
    <3>3. Deve(c, m)
      BY <2>4, <3>2 DEF Deve, Desculpada
    <3>4. Garantida(k, f, x, m, Alcance(m)) /\ VoltaGarantida(tela[c], Alcance(m))
      BY <3>3 DEF PainelInv, x
    <3>5. a.m # m
      BY <2>4, <3>2 DEF SemBusca
    <3>6. f = <<>> \/ Len(f) = 1
      BY <1>1 DEF Caminho
    <3>7. Garantida(k, <<>>, a.cursor, m, Alcance(m))
      <4> HIDE DEF f, k
      <4> QED
        BY <1>1, <1>2, <1>3, <1>6, <3>4, <3>5, <3>6, DividaLida
    <3> QED
      BY <2>5, <3>4, <3>7 DEF Garantida, VoltaGarantida
  <2>9. BuscaCerta(tela'[c], n) /\ VoltaCerta(tela'[c], Teto)
    BY <1>1, <1>3, <1>6, <2>5 DEF BuscaCerta, VoltaCerta
  <2> QED
    BY <1>1, <1>3, <1>4, <1>6, <2>5, <2>6, <2>7, <2>8, <2>9, SoUmCliente DEF n
<1> QED
  BY <1>5, <1>6

\* Only the tab of c moves: it owes what it owed, from the same cursors.
LEMMA SoATela ==
    ASSUME PainelInv, NEW c \in Clientes,
           UNCHANGED <<mudancas, dono, escuta, hub, con, presas, fio>>,
           tela' \in [Clientes -> Telas], furos' \in [Clientes -> SUBSET Nat],
           \A d \in Clientes : d # c => tela'[d] = tela[d] /\ furos'[d] = furos[d],
           tela'[c].lido = tela[c].lido, tela'[c].ultimoId = tela[c].ultimoId,
           tela'[c].url \in {tela[c].ultimoId, tela[c].url},
           BuscaCerta(tela'[c], Len(mudancas)),
           \A m \in Feitas : Deve(c, m)' => Deve(c, m)
    PROVE  PainelInv'
<1>1. TiposDoPainel' /\ \A d \in Clientes : con'[d] = con[d] /\ fio'[d] = fio[d]
  BY DEF PainelInv, TiposDoPainel
<1>2. VoltaCerta(tela'[c], Teto) /\ Caminho(con'[c], fio'[c], tela'[c].lido, Teto, Len(mudancas))
  BY <1>1 DEF PainelInv, VoltaCerta
<1>3. \A m \in Feitas : Deve(c, m)' =>
          /\ Garantida(con'[c], fio'[c], tela'[c].lido, m, Alcance(m))
          /\ VoltaGarantida(tela'[c], Alcance(m))
  BY <1>1 DEF PainelInv, VoltaGarantida
<1> QED
  BY <1>1, <1>2, <1>3, SoUmCliente

\* What the tab asked for, in the air or to come, is what it owes no more.
LEMMA DeveDaTela ==
    ASSUME UNCHANGED <<mudancas, escuta, hub>>, NEW c, NEW m, Deve(c, m)'
    PROVE  /\ Interessa(c, m) /\ ~VemDoBanco(m) /\ m \notin furos'[c] /\ m > tela'[c].vista
           /\ ~tela'[c].agendada /\ ~tela'[c].pendente
           /\ \A i \in DOMAIN tela'[c].busca : ~(tela'[c].busca[i] >= m)
           /\ ~(tela'[c].falha /\ tela'[c].busca = <<>>)
<1>1. (Interessa(c, m)' <=> Interessa(c, m)) /\ (VemDoBanco(m)' <=> VemDoBanco(m))
  BY MesmoBanco
<1> QED
  BY <1>1 DEF Deve, Desculpada, Atrasada, VemDaBusca

LEMMA AoMudarFonte ==
    ASSUME PainelInv, NEW c \in Clientes, NEW fonte \in Fontes,
           UNCHANGED <<mudancas, dono, escuta, hub, con, presas, fio, furos>>,
           tela' = [tela EXCEPT ![c].fonte = fonte]
    PROVE  PainelInv'
<1>1. TiposDoPainel /\ tela[c] \in Telas /\ BuscaCerta(tela[c], Len(mudancas))
  BY ValoresDe DEF PainelInv
<1>2. /\ tela' \in [Clientes -> Telas] /\ \A d \in Clientes : d # c => tela'[d] = tela[d]
      /\ tela'[c] = [tela[c] EXCEPT !.fonte = fonte]
  BY <1>1 DEF TiposDoPainel, Telas
<1>3. /\ tela'[c].lido = tela[c].lido /\ tela'[c].ultimoId = tela[c].ultimoId /\ tela'[c].url = tela[c].url
      /\ tela'[c].vista = tela[c].vista /\ tela'[c].agendada = tela[c].agendada
      /\ tela'[c].busca = tela[c].busca /\ tela'[c].pendente = tela[c].pendente
      /\ tela'[c].falha = tela[c].falha
  BY <1>1, <1>2 DEF Telas
<1>4. BuscaCerta(tela'[c], Len(mudancas))
  BY <1>1, <1>3 DEF BuscaCerta
<1>5. ASSUME NEW m \in Feitas, Deve(c, m)' PROVE Deve(c, m)
  BY <1>3, <1>5, DeveDaTela DEF Deve, Desculpada, Atrasada, VemDaBusca
<1>6. furos' \in [Clientes -> SUBSET Nat]
  BY <1>1 DEF TiposDoPainel
<1> QED
  BY <1>2, <1>3, <1>4, <1>5, <1>6, SoATela

LEMMA AoReconectar ==
    ASSUME PainelInv, NEW c \in Clientes, Reconectar(c)
    PROVE  PainelInv'
<1> DEFINE x == tela[c].lido
           u == tela[c].ultimoId
           z == <<>>
           p == IF Assinante(c) THEN presas[c] + 1 ELSE presas[c]
<1>1. TiposDoPainel /\ UNCHANGED <<mudancas, dono, escuta, hub, furos>>
      /\ con' = [con EXCEPT ![c] = Fora] /\ fio' = [fio EXCEPT ![c] = z]
      /\ presas' = [presas EXCEPT ![c] = p]
      /\ tela' = [tela EXCEPT ![c].fonte = "viva", ![c].url = u]
      /\ Caminho(con[c], fio[c], x, Teto, Len(mudancas))
      /\ VoltaCerta(tela[c], Teto) /\ BuscaCerta(tela[c], Len(mudancas))
  BY DEF PainelInv, Reconectar
<1>2. Fora \in Conexoes /\ Fora.fase = "fora" /\ Fora.repor = <<>> /\ Fora.canal = <<>>
  BY DEF Fora, Conexoes
<1>3. z \in Seq(Aviso) /\ p \in Nat /\ tela[c] \in Telas /\ u \in Nat
  <2>1. presas[c] \in Nat /\ z \in Seq(Aviso)
    BY <1>1 DEF TiposDoPainel
  <2> QED
    BY <1>1, <2>1, ValoresDe
<1> HIDE DEF p, z, u
<1>4. /\ con'[c] = Fora /\ fio'[c] = z
      /\ \A d \in Clientes : d # c => con'[d] = con[d] /\ fio'[d] = fio[d] /\ tela'[d] = tela[d]
      /\ con' \in [Clientes -> Conexoes] /\ fio' \in [Clientes -> Seq(Aviso)]
      /\ presas' \in [Clientes -> Nat] /\ tela' \in [Clientes -> Telas]
      /\ tela'[c] = [tela[c] EXCEPT !.fonte = "viva", !.url = u]
  BY <1>1, <1>2, <1>3 DEF TiposDoPainel, Telas, Fontes
<1>5. /\ tela'[c].lido = tela[c].lido /\ tela'[c].ultimoId = tela[c].ultimoId /\ tela'[c].url = u
      /\ tela'[c].vista = tela[c].vista /\ tela'[c].agendada = tela[c].agendada
      /\ tela'[c].busca = tela[c].busca /\ tela'[c].pendente = tela[c].pendente
      /\ tela'[c].falha = tela[c].falha
  BY <1>3, <1>4 DEF Telas
<1>6. TiposDoPainel'
  BY <1>1, <1>4 DEF TiposDoPainel
<1> HIDE DEF x
<1>7. Caminho(Fora, <<>>, x, Teto, Len(mudancas))
  BY <1>1, <1>2, Vazias DEF Caminho
<1>8. VoltaCerta(tela'[c], Teto) /\ BuscaCerta(tela'[c], Len(mudancas))
  BY <1>1, <1>5 DEF VoltaCerta, BuscaCerta, u
<1>9. ASSUME NEW m \in Feitas, Deve(c, m)'
      PROVE  Garantida(Fora, <<>>, x, m, Alcance(m)) /\ VoltaGarantida(tela'[c], Alcance(m))
  <2>1. Deve(c, m)
    BY <1>1, <1>5, <1>9, DeveDaTela DEF Deve, Desculpada, Atrasada, VemDaBusca
  <2>2. Garantida(con[c], fio[c], x, m, Alcance(m)) /\ VoltaGarantida(tela[c], Alcance(m))
    BY <2>1 DEF PainelInv, x
  <2> QED
    BY <1>2, <1>5, <2>2 DEF Garantida, VoltaGarantida, u
<1> QED
  BY <1>1, <1>4, <1>5, <1>6, <1>7, <1>8, <1>9, SoUmCliente DEF x, z

LEMMA AoVoltarParaFrente ==
    ASSUME PainelInv, NEW c \in Clientes, VoltarParaFrente(c)
    PROVE  PainelInv'
<1> DEFINE u == IF tela[c].fonte = "viva" THEN tela[c].url ELSE tela[c].ultimoId
<1>1. /\ TiposDoPainel /\ tela[c] \in Telas /\ BuscaCerta(tela[c], Len(mudancas))
      /\ UNCHANGED <<mudancas, dono, escuta, hub, con, presas, fio, furos>>
      /\ tela' = [tela EXCEPT ![c] = [tela[c] EXCEPT !.agendada = TRUE, !.fonte = "viva", !.url = u]]
  <2>1. TiposDoPainel /\ tela[c] \in Telas /\ BuscaCerta(tela[c], Len(mudancas))
    BY ValoresDe DEF PainelInv
  <2>2. UNCHANGED <<mudancas, dono, escuta, hub, con, presas, fio, furos>>
    BY DEF VoltarParaFrente
  <2>3. tela' = [tela EXCEPT ![c] = [tela[c] EXCEPT !.agendada = TRUE, !.fonte = "viva", !.url = u]]
    <3>1. tela' = [tela EXCEPT ![c].agendada = TRUE, ![c].fonte = "viva", ![c].url = u]
      BY DEF VoltarParaFrente
    <3> HIDE DEF u
    <3> QED
      BY <2>1, <3>1 DEF Telas
  <2> QED
    BY <2>1, <2>2, <2>3
<1>2. u \in Nat /\ u \in {tela[c].ultimoId, tela[c].url}
  BY <1>1, ValoresDe
<1> HIDE DEF u
<1>3. /\ tela' \in [Clientes -> Telas] /\ \A d \in Clientes : d # c => tela'[d] = tela[d]
      /\ tela'[c].lido = tela[c].lido /\ tela'[c].ultimoId = tela[c].ultimoId /\ tela'[c].url = u
      /\ tela'[c].agendada /\ tela'[c].vista = tela[c].vista /\ tela'[c].busca = tela[c].busca
      /\ tela'[c].pendente = tela[c].pendente
  BY <1>1, <1>2 DEF TiposDoPainel, Telas, Fontes
<1>4. BuscaCerta(tela'[c], Len(mudancas))
  BY <1>1, <1>3 DEF BuscaCerta
<1>5. \A m \in Feitas : ~Deve(c, m)'
  BY <1>3 DEF Deve, Desculpada, VemDaBusca
<1>6. furos' \in [Clientes -> SUBSET Nat] /\ furos' = furos
  BY <1>1 DEF TiposDoPainel
<1> QED
  BY <1>1, <1>2, <1>3, <1>4, <1>5, <1>6, SoATela

LEMMA Elementos ==
    ASSUME NEW s \in Seq(Nat)
    PROVE  DOMAIN s = 1..Len(s) /\ Head(s) = s[1] /\ \A i \in DOMAIN s : s[i] \in Nat
OBVIOUS

LEMMA DeUmSo ==
    ASSUME NEW s \in Seq(Nat), NEW l, l = Len(s), l = 1
    PROVE  DOMAIN s = {1} /\ Head(s) = s[1] /\ s[1] \in Nat
<1>1. DOMAIN s = 1..1
  BY Elementos
<1>2. DOMAIN s = {1}
  BY <1>1
<1> QED
  BY <1>2, Elementos, Zenon

\* The fetch in the air, if there is one, read the first p commits.
LEMMA UmaBusca ==
    ASSUME PainelInv, NEW c \in Clientes, tela[c].busca # <<>>
    PROVE  LET b == tela[c].busca IN
           /\ Head(b) \in Nat /\ b[1] = Head(b) /\ DOMAIN b = {1}
           /\ tela[c].vista <= Head(b) /\ Head(b) <= Len(mudancas)
<1> DEFINE b == tela[c].busca
<1>1. TiposDoPainel /\ b \in Seq(Nat) /\ BuscaCerta(tela[c], Len(mudancas))
  BY ValoresDe DEF PainelInv
<1>2. Len(b) = 1 /\ tela[c].vista <= b[1] /\ b[1] <= Len(mudancas)
  BY <1>1 DEF BuscaCerta
<1>3. DOMAIN b = {1} /\ Head(b) = b[1] /\ b[1] \in Nat
  <2> HIDE DEF b
  <2> QED
    BY <1>1, <1>2, DeUmSo
<1> QED
  BY <1>2, <1>3

LEMMA AVolta ==
    ASSUME PainelInv, NEW c \in Clientes, NEW u, u = OutraVolta(tela[c])
    PROVE  /\ u \in Seq(Nat) /\ Len(mudancas) \in Nat
           /\ IF tela[c].pendente THEN Len(u) = 1 /\ u[1] = Len(mudancas) /\ DOMAIN u = {1} ELSE u = <<>>
<1> DEFINE n == Len(mudancas)
<1>1. n \in Nat
  BY Valores DEF PainelInv
<1> HIDE DEF n
<1>2. <<n>> \in Seq(Nat) /\ Len(<<n>>) = 1 /\ <<n>>[1] = n /\ DOMAIN <<n>> = {1} /\ <<>> \in Seq(Nat)
  BY <1>1
<1>3. u = IF tela[c].pendente THEN <<n>> ELSE <<>>
  BY DEF OutraVolta, n
<1> QED
  BY <1>1, <1>2, <1>3 DEF n

LEMMA AoExecutar ==
    ASSUME PainelInv, NEW c \in Clientes, Executar(c)
    PROVE  PainelInv'
<1> DEFINE n == Len(mudancas)
           b == IF tela[c].busca = <<>> THEN <<n>> ELSE tela[c].busca
           q == IF tela[c].busca = <<>> THEN tela[c].pendente ELSE TRUE
<1>1. /\ TiposDoPainel /\ HubCerto /\ tela[c] \in Telas /\ BuscaCerta(tela[c], n)
      /\ UNCHANGED <<mudancas, dono, escuta, hub, con, presas, fio, furos>>
      /\ tela[c].busca \in Seq(Nat) /\ tela[c].vista \in Nat
  BY ValoresDe DEF PainelInv, Executar
<1>2. n \in Nat
  BY <1>1, Valores
<1>3. tela' = [tela EXCEPT ![c] = [tela[c] EXCEPT !.agendada = FALSE, !.busca = b, !.pendente = q]]
  <2>1. CASE tela[c].busca = <<>>
    <3>1. tela' = [tela EXCEPT ![c] = [tela[c] EXCEPT !.agendada = FALSE, !.busca = <<n>>]]
      BY <2>1 DEF Executar
    <3>2. [tela[c] EXCEPT !.agendada = FALSE, !.busca = <<n>>]
            = [tela[c] EXCEPT !.agendada = FALSE, !.busca = b, !.pendente = q]
      BY <1>1, <2>1 DEF Telas
    <3> QED
      BY <3>1, <3>2
  <2>2. CASE tela[c].busca # <<>>
    <3>1. tela' = [tela EXCEPT ![c] = [tela[c] EXCEPT !.agendada = FALSE, !.pendente = TRUE]]
      BY <2>2 DEF Executar
    <3>2. [tela[c] EXCEPT !.agendada = FALSE, !.pendente = TRUE]
            = [tela[c] EXCEPT !.agendada = FALSE, !.busca = b, !.pendente = q]
      BY <1>1, <2>2 DEF Telas
    <3> QED
      BY <3>1, <3>2
  <2> QED
    BY <2>1, <2>2
<1>4. /\ b \in Seq(Nat) /\ b # <<>> /\ q \in BOOLEAN
      /\ Len(b) = 1 /\ tela[c].vista <= b[1] /\ b[1] <= n /\ (q \/ (b[1] = n /\ 1 \in DOMAIN b))
  <2> HIDE DEF n
  <2>1. <<n>> \in Seq(Nat) /\ <<n>> # <<>> /\ Len(<<n>>) = 1 /\ <<n>>[1] = n /\ 1 \in DOMAIN <<n>>
    BY <1>2
  <2>2. tela[c].vista <= n /\ tela[c].pendente \in BOOLEAN
    BY <1>1 DEF BuscaCerta, Telas
  <2>3. CASE tela[c].busca = <<>>
    BY <1>2, <2>1, <2>2, <2>3
  <2>4. CASE tela[c].busca # <<>>
    BY <1>1, <2>4 DEF BuscaCerta
  <2> QED
    BY <2>3, <2>4
<1> HIDE DEF b, q
<1>5. /\ tela' \in [Clientes -> Telas] /\ \A d \in Clientes : d # c => tela'[d] = tela[d]
      /\ tela'[c].lido = tela[c].lido /\ tela'[c].ultimoId = tela[c].ultimoId
      /\ tela'[c].url = tela[c].url /\ tela'[c].vista = tela[c].vista
      /\ tela'[c].busca = b /\ tela'[c].pendente = q
  BY <1>1, <1>3, <1>4 DEF TiposDoPainel, Telas
<1>6. BuscaCerta(tela'[c], n)
  BY <1>1, <1>2, <1>4, <1>5 DEF BuscaCerta
<1>7. ASSUME NEW m \in Feitas PROVE ~Deve(c, m)'
  <2>1. n >= m
    BY <1>2 DEF Feitas
  <2> QED
    BY <1>4, <1>5, <2>1 DEF Deve, Desculpada, VemDaBusca
<1>8. furos' \in [Clientes -> SUBSET Nat] /\ furos' = furos
  BY <1>1 DEF TiposDoPainel
<1> QED
  BY <1>1, <1>5, <1>6, <1>7, <1>8, SoATela

LEMMA AoDesenhar ==
    ASSUME PainelInv, NEW c \in Clientes, Desenhar(c)
    PROVE  PainelInv'
<1> DEFINE n == Len(mudancas)
           p == Head(tela[c].busca)
           u == OutraVolta(tela[c])
           g == {m \in furos[c] : m > p}
<1>1. /\ TiposDoPainel /\ tela[c] \in Telas /\ BuscaCerta(tela[c], n) /\ tela[c].busca # <<>>
      /\ UNCHANGED <<mudancas, dono, escuta, hub, con, presas, fio>>
      /\ tela' = [tela EXCEPT ![c] = [tela[c] EXCEPT !.vista = p, !.falha = FALSE, !.busca = u,
                                                     !.pendente = FALSE]]
      /\ furos' = [furos EXCEPT ![c] = g] /\ tela[c].vista \in Nat /\ furos[c] \in SUBSET Nat
  BY ValoresDe DEF PainelInv, Desenhar
<1>2. p \in Nat /\ tela[c].vista <= p /\ p <= n /\ tela[c].busca[1] = p /\ DOMAIN tela[c].busca = {1}
  BY <1>1, UmaBusca
<1>3. /\ u \in Seq(Nat) /\ n \in Nat
      /\ IF tela[c].pendente THEN Len(u) = 1 /\ u[1] = n /\ DOMAIN u = {1} ELSE u = <<>>
  BY AVolta
<1> HIDE DEF p, u, n
<1>4. /\ tela' \in [Clientes -> Telas] /\ \A d \in Clientes : d # c => tela'[d] = tela[d]
      /\ tela'[c].lido = tela[c].lido /\ tela'[c].ultimoId = tela[c].ultimoId
      /\ tela'[c].url = tela[c].url /\ tela'[c].vista = p /\ tela'[c].agendada = tela[c].agendada
      /\ tela'[c].busca = u /\ tela'[c].pendente = FALSE /\ tela'[c].falha = FALSE
  BY <1>1, <1>2, <1>3 DEF TiposDoPainel, Telas
<1>5. BuscaCerta(tela'[c], n)
  BY <1>2, <1>3, <1>4 DEF BuscaCerta
<1>6. /\ furos' \in [Clientes -> SUBSET Nat] /\ furos'[c] = g
      /\ \A d \in Clientes : d # c => furos'[d] = furos[d]
  BY <1>1 DEF TiposDoPainel
<1>7. ASSUME NEW m \in Feitas, Deve(c, m)' PROVE Deve(c, m)
  <2>1. /\ Interessa(c, m) /\ ~VemDoBanco(m) /\ m \notin g /\ m > p
        /\ ~tela[c].agendada /\ \A i \in DOMAIN u : ~(u[i] >= m)
    BY <1>1, <1>4, <1>6, <1>7, DeveDaTela
  <2>2. m \in Nat /\ n >= m
    BY <1>3 DEF Feitas, n
  <2>3. ~tela[c].pendente
    BY <1>3, <2>1, <2>2
  <2>4. m > tela[c].vista /\ ~(p >= m) /\ m \notin furos[c]
    BY <1>1, <1>2, <2>1, <2>2
  <2> QED
    BY <1>1, <1>2, <2>1, <2>3, <2>4 DEF Deve, Atrasada, Desculpada, VemDaBusca
<1> QED
  BY <1>1, <1>4, <1>5, <1>6, <1>7, SoATela DEF n

LEMMA AoFalhar ==
    ASSUME PainelInv, NEW c \in Clientes, Falhar(c)
    PROVE  PainelInv'
<1> DEFINE n == Len(mudancas)
           u == OutraVolta(tela[c])
<1>1. /\ TiposDoPainel /\ tela[c] \in Telas /\ BuscaCerta(tela[c], n) /\ tela[c].busca # <<>>
      /\ UNCHANGED <<mudancas, dono, escuta, hub, con, presas, fio, furos>>
      /\ tela' = [tela EXCEPT ![c] = [tela[c] EXCEPT !.falha = TRUE, !.busca = u, !.pendente = FALSE]]
      /\ tela[c].vista \in Nat
  BY ValoresDe DEF PainelInv, Falhar
<1>2. /\ u \in Seq(Nat) /\ n \in Nat
      /\ IF tela[c].pendente THEN Len(u) = 1 /\ u[1] = n /\ DOMAIN u = {1} ELSE u = <<>>
  BY AVolta
<1> HIDE DEF u, n
<1>3. /\ tela' \in [Clientes -> Telas] /\ \A d \in Clientes : d # c => tela'[d] = tela[d]
      /\ tela'[c].lido = tela[c].lido /\ tela'[c].ultimoId = tela[c].ultimoId
      /\ tela'[c].url = tela[c].url /\ tela'[c].vista = tela[c].vista
      /\ tela'[c].busca = u /\ tela'[c].pendente = FALSE /\ tela'[c].falha = TRUE
  BY <1>1, <1>2 DEF TiposDoPainel, Telas
<1>4. BuscaCerta(tela'[c], n)
  BY <1>1, <1>2, <1>3 DEF BuscaCerta
<1>5. ASSUME NEW m \in Feitas PROVE ~Deve(c, m)'
  <2>1. n >= m
    BY <1>2 DEF Feitas, n
  <2> QED
    BY <1>2, <1>3, <2>1 DEF Deve, Desculpada, VemDaBusca
<1>6. furos' \in [Clientes -> SUBSET Nat] /\ furos' = furos
  BY <1>1 DEF TiposDoPainel
<1> QED
  BY <1>1, <1>3, <1>4, <1>5, <1>6, SoATela DEF n

LEMMA AoRejeitar ==
    ASSUME PainelInv, NEW c \in Clientes, Rejeitar(c)
    PROVE  PainelInv'
<1> DEFINE n == Len(mudancas)
           p == Head(tela[c].busca)
           z == <<>>
           perdidas == {m \in Feitas : Atrasada(c, m) /\ ~VemDoBanco(m) /\ (tela[c].pendente \/ m <= p)}
           g == furos[c] \cup perdidas
<1>1. /\ TiposDoPainel /\ tela[c] \in Telas /\ BuscaCerta(tela[c], n) /\ tela[c].busca # <<>>
      /\ UNCHANGED <<mudancas, dono, escuta, hub, con, presas, fio>>
      /\ tela' = [tela EXCEPT ![c] = [tela[c] EXCEPT !.busca = z, !.pendente = FALSE]]
      /\ furos' = [furos EXCEPT ![c] = g] /\ furos[c] \in SUBSET Nat
  BY ValoresDe DEF PainelInv, Rejeitar
<1>2. p \in Nat /\ tela[c].busca[1] = p /\ DOMAIN tela[c].busca = {1} /\ z \in Seq(Nat)
  BY <1>1, UmaBusca
<1>3. perdidas \in SUBSET Nat
  BY DEF Feitas
<1> HIDE DEF p, z, n, perdidas
<1>4. /\ tela' \in [Clientes -> Telas] /\ \A d \in Clientes : d # c => tela'[d] = tela[d]
      /\ tela'[c].lido = tela[c].lido /\ tela'[c].ultimoId = tela[c].ultimoId
      /\ tela'[c].url = tela[c].url /\ tela'[c].vista = tela[c].vista
      /\ tela'[c].agendada = tela[c].agendada /\ tela'[c].falha = tela[c].falha
      /\ tela'[c].busca = z /\ tela'[c].pendente = FALSE
  BY <1>1, <1>2 DEF TiposDoPainel, Telas
<1>5. BuscaCerta(tela'[c], n)
  BY <1>1, <1>4 DEF BuscaCerta, z
<1>6. /\ furos' \in [Clientes -> SUBSET Nat] /\ furos'[c] = g
      /\ \A d \in Clientes : d # c => furos'[d] = furos[d]
  BY <1>1, <1>3 DEF TiposDoPainel
<1>7. ASSUME NEW m \in Feitas, Deve(c, m)' PROVE Deve(c, m)
  <2>1. /\ Interessa(c, m) /\ ~VemDoBanco(m) /\ m \notin g /\ m > tela[c].vista
        /\ ~tela[c].agendada /\ ~tela[c].falha
    BY <1>1, <1>4, <1>6, <1>7, DeveDaTela DEF z
  <2>2. Atrasada(c, m) /\ m \notin furos[c] /\ m \notin perdidas /\ m \in Nat
    BY <2>1 DEF Atrasada, Feitas
  <2>3. ~tela[c].pendente /\ ~(m <= p)
    BY <2>1, <2>2 DEF perdidas
  <2>4. ~(p >= m)
    BY <1>2, <2>2, <2>3
  <2> QED
    BY <1>1, <1>2, <2>1, <2>2, <2>3, <2>4 DEF Deve, Desculpada, VemDaBusca
<1> QED
  BY <1>1, <1>4, <1>5, <1>6, <1>7, SoATela DEF n

-----------------------------------------------------------------------------
(* The steps of the database and of the hub.                               *)

LEMMA NoConjunto ==
    ASSUME NEW S, NEW s \in Seq(S)
    PROVE  /\ \A m : m \in ToSet(s) <=> \E i \in DOMAIN s : s[i] = m
           /\ \A m \in ToSet(s) : m \in S
BY DEF ToSet

LEMMA NoConjuntoComUm ==
    ASSUME NEW S, NEW s \in Seq(S), NEW e \in S
    PROVE  \A m : m \in ToSet(Append(s, e)) <=> m \in ToSet(s) \/ m = e
<1>1. /\ Append(s, e) \in Seq(S) /\ Len(s) \in Nat /\ DOMAIN s = 1..Len(s)
      /\ DOMAIN Append(s, e) = 1..(Len(s) + 1) /\ Append(s, e)[Len(s) + 1] = e
      /\ \A i \in DOMAIN s : i \in DOMAIN Append(s, e) /\ Append(s, e)[i] = s[i]
      /\ \A i \in DOMAIN Append(s, e) : i = Len(s) + 1 \/ i \in DOMAIN s
  OBVIOUS
<1> DEFINE u == Append(s, e)
<1>2. Len(s) + 1 \in DOMAIN u
  BY <1>1
<1> HIDE DEF u
<1>3. /\ u[Len(s) + 1] = e
      /\ \A i \in DOMAIN s : i \in DOMAIN u /\ u[i] = s[i]
      /\ \A i \in DOMAIN u : i = Len(s) + 1 \/ i \in DOMAIN s
  BY <1>1 DEF u
<1>4. \A m \in ToSet(u) : m \in ToSet(s) \/ m = e
  BY <1>3 DEF ToSet
<1>5. \A m \in ToSet(s) : m \in ToSet(u)
  BY <1>3 DEF ToSet
<1>6. e \in ToSet(u)
  BY <1>2, <1>3 DEF ToSet
<1> QED
  BY <1>4, <1>5, <1>6 DEF u

LEMMA NoConjuntoSemUm ==
    ASSUME NEW S, NEW s \in Seq(S), s # <<>>
    PROVE  /\ Head(s) \in S /\ Tail(s) \in Seq(S) /\ Head(s) \in ToSet(s)
           /\ \A m : m \in ToSet(s) <=> m \in ToSet(Tail(s)) \/ m = Head(s)
<1>1. /\ Head(s) \in S /\ Tail(s) \in Seq(S) /\ 1 \in DOMAIN s /\ s[1] = Head(s)
      /\ \A i \in DOMAIN Tail(s) : i + 1 \in DOMAIN s /\ Tail(s)[i] = s[i + 1]
      /\ \A i \in DOMAIN s : i = 1 \/ (i - 1 \in DOMAIN Tail(s) /\ Tail(s)[i - 1] = s[i])
  OBVIOUS
<1>2. ASSUME NEW m \in ToSet(s), m # Head(s) PROVE m \in ToSet(Tail(s))
  <2>1. PICK i \in DOMAIN s : s[i] = m
    BY DEF ToSet
  <2>2. i - 1 \in DOMAIN Tail(s) /\ Tail(s)[i - 1] = m
    BY <1>1, <1>2, <2>1
  <2> QED
    BY <2>2 DEF ToSet
<1>3. \A m \in ToSet(Tail(s)) : m \in ToSet(s)
  BY <1>1 DEF ToSet
<1>4. Head(s) \in ToSet(s)
  BY <1>1 DEF ToSet
<1> QED
  BY <1>1, <1>2, <1>3, <1>4

\* Within reach of everything given, every notice given leaves the client within reach.
LEMMA DadosFirmes ==
    ASSUME NEW s \in Seq(Aviso), NEW x, NEW z, NEW n, NEW m, NEW F, Dados(s, x, z, n), 0..z \subseteq F,
           z \in Nat
    PROVE  Firmes(s, m, F)
<1>1. \A i \in DOMAIN s : i <= i /\ s[i].cursor \in Nat
  <2>1. \A i \in DOMAIN s : s[i] \in Aviso /\ i \in Nat
    OBVIOUS
  <2> QED
    BY <2>1 DEF Aviso
<1>2. \A i \in DOMAIN s : s[i].resync \/ s[i].cursor \in 0..z
  BY <1>1 DEF Dados
<1> QED
  BY <1>1, <1>2 DEF Firmes

LEMMA CaminhoEntregue ==
    ASSUME NEW k \in Conexoes, NEW f \in Seq(Aviso), NEW x \in Nat, NEW z \in Nat, NEW n \in Nat,
           NEW z1 \in Nat, NEW n1 \in Nat, z <= z1, n <= n1, Caminho(k, f, x, z, n),
           NEW a \in Aviso, ~a.resync => z < a.cursor /\ a.cursor <= z1 /\ a.m \in 1..n1
    PROVE  Caminho(Entregar(k, a), f, x, z1, n1)
<1> DEFINE k1 == Entregar(k, a)
           u == Append(k.canal, a)
<1>1. /\ k1.fase = k.fase /\ k1.repor = k.repor /\ k1.canal \in {u, k.canal}
      /\ k.repor \in Seq(Aviso) /\ k.canal \in Seq(Aviso)
  BY EntregarFaz DEF Conexoes
<1>2. Caminho(k, f, x, z1, n1)
  BY MaisLonge
<1>3. Dados(k.canal, x, z, n) /\ Dados(f, x, z, n) /\ Dados(k.repor, x, z, n) /\ x <= z
      /\ Crescente(k.canal) /\ Antes(f, k.canal) /\ Antes(k.repor, k.canal)
  BY DEF Caminho
<1>4. Crescente(u) /\ Antes(f, u) /\ Antes(k.repor, u)
  BY <1>1, <1>3, AcrescimoEmOrdem
<1>5. Dados(u, x, z1, n1)
  <2>1. Dados(k.canal, x, z1, n1)
    BY <1>2 DEF Caminho
  <2>2. ~a.resync => x < a.cursor /\ a.cursor <= z1 /\ a.m \in 1..n1
    BY <1>3 DEF Aviso
  <2> QED
    BY <1>1, <2>1, <2>2, Acrescimo DEF Dados
<1> HIDE DEF k1, u
<1>6. Caminho(k1, f, x, z1, n1)
  <2>1. CASE k1.canal = u
    BY <1>1, <1>2, <1>4, <1>5, <2>1 DEF Caminho
  <2>2. CASE k1.canal = k.canal
    BY <1>1, <1>2, <2>2 DEF Caminho
  <2> QED
    BY <1>1, <2>1, <2>2
<1> QED
  BY <1>6 DEF k1

LEMMA GarantidaEntregue ==
    ASSUME NEW k \in Conexoes, NEW f, NEW x, NEW m, NEW F, NEW a \in Aviso, Garantida(k, f, x, m, F)
    PROVE  Garantida(Entregar(k, a), f, x, m, F)
<1> DEFINE k1 == Entregar(k, a)
           u == Append(k.canal, a)
<1>1. /\ k1.fase = k.fase /\ k1.repor = k.repor /\ (k.resync => k1.resync)
      /\ k1.canal = u \/ (k1.canal = k.canal /\ k1.resync)
      /\ k.canal \in Seq(Aviso)
  BY EntregarFaz DEF Conexoes
<1>2. /\ Traz(k.canal, m) => Traz(u, m)
      /\ Firmes(k.canal, m, F) /\ Traz(u, m) => Firmes(u, m, F)
  BY <1>1, AcrescimoFirme
<1> HIDE DEF k1, u
<1>3. Garantida(k1, f, x, m, F)
  BY <1>1, <1>2, Zenon DEF Garantida
<1> QED
  BY <1>3 DEF k1

\* What was not promised by the database before is not by the step.
LEMMA JaDevia ==
    ASSUME UNCHANGED <<mudancas, tela, furos>>, NEW c, NEW m, Deve(c, m)',
           VemDoBanco(m) => VemDoBanco(m)'
    PROVE  Deve(c, m)
<1>1. Interessa(c, m)' <=> Interessa(c, m)
  BY DEF Interessa, Assina
<1> QED
  BY <1>1 DEF Deve, Atrasada, Desculpada, VemDaBusca

\* Only the LISTEN connection and the hub move.
LEMMA SoOBanco ==
    ASSUME PainelInv, UNCHANGED <<mudancas, dono, con, presas, fio, tela, furos>>,
           escuta' \in Escutas, hub' \in Hubs, EscutaCerta', HubCerto', Teto <= Teto',
           \A m \in Feitas : \/ VemDoBanco(m)'
                             \/ (VemDoBanco(m) => VemDoBanco(m)') /\ Alcance(m) \subseteq Alcance(m)'
    PROVE  PainelInv'
<1>1. TiposDoPainel /\ TiposDoPainel' /\ HubCerto /\ Feitas' = Feitas
  BY DEF PainelInv, TiposDoPainel, Feitas
<1>2. Teto \in Nat /\ Len(mudancas) \in Nat
  BY <1>1, Valores
<1>3. Teto' \in Nat
  BY <1>1 DEF TiposDoPainel, Hubs, HubCerto, Teto
<1>4. ASSUME NEW c \in Clientes
      PROVE  /\ Caminho(con[c], fio[c], tela[c].lido, Teto', Len(mudancas))
             /\ VoltaCerta(tela[c], Teto') /\ BuscaCerta(tela[c], Len(mudancas))
  <2>1. /\ con[c] \in Conexoes /\ fio[c] \in Seq(Aviso) /\ tela[c].lido \in Nat
    BY <1>1, ValoresDe
  <2>2. /\ Caminho(con[c], fio[c], tela[c].lido, Teto, Len(mudancas))
        /\ BuscaCerta(tela[c], Len(mudancas))
    BY DEF PainelInv
  <2>3. Len(mudancas) <= Len(mudancas)
    BY <1>2
  <2> DEFINE x == tela[c].lido
             n == Len(mudancas)
             z == Teto
             z1 == Teto'
  <2>4. x \in Nat /\ n \in Nat /\ z \in Nat /\ z1 \in Nat /\ z <= z1 /\ n <= n /\ Caminho(con[c], fio[c], x, z, n)
    BY <1>2, <1>3, <2>1, <2>2, <2>3
  <2> HIDE DEF x, n, z, z1
  <2>5. Caminho(con[c], fio[c], x, z1, n)
    BY <2>1, <2>4, MaisLonge
  <2>6. VoltaCerta(tela[c], Teto')
    <3>1. VoltaCerta(tela[c], Teto) /\ tela[c].ultimoId \in Nat /\ tela[c].url \in Nat
      BY <1>1, ValoresDe DEF PainelInv
    <3> QED
      BY <1>2, <1>3, <3>1 DEF VoltaCerta
  <2> QED
    BY <2>2, <2>5, <2>6 DEF x, n, z1
<1>5. ASSUME NEW c \in Clientes, NEW m \in Feitas, Deve(c, m)'
      PROVE  Garantida(con[c], fio[c], tela[c].lido, m, Alcance(m)') /\ VoltaGarantida(tela[c], Alcance(m)')
  <2>1. ~VemDoBanco(m)'
    BY <1>5 DEF Deve, Desculpada
  <2>2. Alcance(m) \subseteq Alcance(m)' /\ Deve(c, m)
    BY <1>5, <2>1, JaDevia
  <2>3. Garantida(con[c], fio[c], tela[c].lido, m, Alcance(m)) /\ VoltaGarantida(tela[c], Alcance(m))
    BY <2>2 DEF PainelInv
  <2>4. VoltaGarantida(tela[c], Alcance(m)')
    BY <2>2, <2>3 DEF VoltaGarantida
  <2> QED
    BY <2>2, <2>3, <2>4, MaisPerto
<1> QED
  BY <1>1, <1>4, <1>5 DEF PainelInv

LEMMA AoAbrir ==
    ASSUME PainelInv, Abrir
    PROVE  PainelInv'
<1>1. /\ TiposDoPainel /\ EscutaCerta /\ HubCerto /\ escuta.estado = "fechada"
      /\ escuta' = [estado |-> "aberta", viva |-> TRUE, fila |-> <<>>]
      /\ UNCHANGED <<mudancas, dono, hub, con, presas, fio, tela, furos>>
  BY DEF PainelInv, Abrir
<1>2. /\ escuta'.estado = "aberta" /\ escuta'.viva /\ escuta'.fila = <<>>
      /\ escuta.fila = <<>> /\ ~escuta.viva
  BY <1>1 DEF EscutaCerta
<1>3. <<>> \in Seq(Nat) /\ DOMAIN <<>> = {}
  OBVIOUS
<1>4. escuta' \in Escutas /\ EscutaCerta'
  BY <1>1, <1>2, <1>3 DEF EscutaCerta, Escutas
<1>5. hub' \in Hubs /\ HubCerto'
  BY <1>1 DEF TiposDoPainel, HubCerto
<1>6. Teto' = Teto /\ ~Conectado /\ Teto \in Nat
  BY <1>1, <1>2, Valores DEF Teto, Conectado
<1>7. ~Conectado'
  BY <1>2 DEF Conectado
<1>8. \A m : Alcance(m)' = 0..Teto
  BY <1>6, <1>7 DEF Alcance
<1>9. ASSUME NEW m, VemDoBanco(m) PROVE VemDoBanco(m)'
  <2>1. ~hub.primeira
    BY <1>1, <1>2, <1>3, <1>9 DEF VemDoBanco, NuncaEscutou, ToSet
  <2> QED
    BY <1>1, <1>2, <2>1 DEF VemDoBanco
<1>10. \A m : Alcance(m) \subseteq Alcance(m)'
  BY <1>8 DEF Alcance
<1>11. Teto <= Teto'
  BY <1>6
<1> QED
  BY <1>1, <1>4, <1>5, <1>9, <1>10, <1>11, SoOBanco

LEMMA AoConsumir ==
    ASSUME PainelInv, Consumir
    PROVE  PainelInv'
<1>1. /\ TiposDoPainel /\ EscutaCerta /\ HubCerto /\ escuta.estado = "marcada"
      /\ escuta' = [escuta EXCEPT !.estado = "consumindo"]
      /\ UNCHANGED <<mudancas, dono, hub, con, presas, fio, tela, furos>>
  BY DEF PainelInv, Consumir
<1>2. /\ escuta'.estado = "consumindo" /\ escuta'.viva = escuta.viva /\ escuta'.fila = escuta.fila
      /\ escuta' \in Escutas /\ ~hub.primeira
  BY <1>1, Valores DEF EscutaCerta, Escutas
<1>3. EscutaCerta' /\ hub' \in Hubs /\ HubCerto'
  BY <1>1, <1>2 DEF EscutaCerta, Feitas, HubCerto, TiposDoPainel
<1>4. Teto = hub.base - 1 /\ Teto' = hub.cursor /\ hub.base \in Nat /\ hub.cursor \in Nat /\ Teto <= Teto'
  BY <1>1, <1>2, Valores DEF Teto, HubCerto
<1>5. \A m : VemDoBanco(m) => VemDoBanco(m)'
  BY <1>1, <1>2 DEF VemDoBanco, NuncaEscutou
<1>6. ASSUME NEW m, NEW x \in Alcance(m) PROVE x \in Alcance(m)'
  <2>1. x \in 0..Teto /\ x < hub.base /\ x \in 0..hub.cursor
    BY <1>4 DEF Alcance
  <2> QED
    BY <1>1, <1>4, <2>1 DEF Alcance
<1>7. \A m : Alcance(m) \subseteq Alcance(m)'
  BY <1>6
<1> QED
  BY <1>1, <1>2, <1>3, <1>4, <1>5, <1>7, SoOBanco

LEMMA AoMorrer ==
    ASSUME PainelInv, Morrer
    PROVE  PainelInv'
<1>1. /\ TiposDoPainel /\ EscutaCerta /\ HubCerto /\ escuta.viva
      /\ UNCHANGED <<mudancas, dono, hub, con, presas, fio, tela, furos>>
  BY DEF PainelInv, Morrer
<1>2. PICK n \in 0..Len(escuta.fila) : escuta' = [escuta EXCEPT !.viva = FALSE, !.fila = SubSeq(escuta.fila, 1, n)]
  BY DEF Morrer
<1> DEFINE s == escuta.fila
           t == SubSeq(s, 1, n)
<1>3. s \in Seq(Nat) /\ n \in 0..Len(s)
  BY <1>1, Valores
<1>4. /\ t \in Seq(Nat) /\ \A i \in DOMAIN t : i \in DOMAIN s /\ t[i] = s[i]
      /\ s = <<>> => t = <<>>
  <2> HIDE DEF s
  <2> QED
    BY <1>3
<1> HIDE DEF t
<1>5. /\ escuta'.estado = escuta.estado /\ ~escuta'.viva /\ escuta'.fila = t /\ escuta' \in Escutas
      /\ escuta.estado # "fechada"
  BY <1>1, <1>2, <1>4, Valores DEF Escutas, EscutaCerta, t
<1>6. EscutaCerta' /\ hub' \in Hubs /\ HubCerto'
  <2>1. \A i \in DOMAIN t : t[i] \in Feitas
    BY <1>1, <1>4 DEF EscutaCerta
  <2> QED
    BY <1>1, <1>5, <2>1 DEF EscutaCerta, Feitas, HubCerto, TiposDoPainel
<1>7. Teto' = Teto /\ Teto <= Teto'
  <2>1. Teto' = Teto
    BY <1>1, <1>5 DEF Teto
  <2> QED
    BY <1>1, <2>1, Valores
<1>8. \A m : VemDoBanco(m)'
  BY <1>5 DEF VemDoBanco, NuncaEscutou
<1> QED
  BY <1>1, <1>5, <1>6, <1>7, <1>8, SoOBanco

LEMMA AoFechar ==
    ASSUME PainelInv, Fechar
    PROVE  PainelInv'
<1>1. /\ TiposDoPainel /\ EscutaCerta /\ HubCerto /\ escuta.estado = "consumindo"
      /\ escuta' = [estado |-> "fechada", viva |-> FALSE, fila |-> <<>>]
      /\ UNCHANGED <<mudancas, dono, hub, con, presas, fio, tela, furos>>
  BY DEF PainelInv, Fechar, Conectado
<1>2. escuta'.estado = "fechada" /\ ~escuta'.viva /\ escuta'.fila = <<>> /\ ~hub.primeira
  BY <1>1 DEF EscutaCerta
<1>3. <<>> \in Seq(Nat) /\ DOMAIN <<>> = {}
  OBVIOUS
<1>4. escuta' \in Escutas /\ EscutaCerta' /\ hub' \in Hubs /\ HubCerto'
  BY <1>1, <1>2, <1>3 DEF EscutaCerta, Escutas, TiposDoPainel, HubCerto
<1>5. Teto' = Teto /\ Teto <= Teto'
  <2>1. Teto' = Teto
    BY <1>1, <1>2 DEF Teto
  <2> QED
    BY <1>1, <2>1, Valores
<1>6. \A m : VemDoBanco(m)'
  BY <1>1, <1>2 DEF VemDoBanco, NuncaEscutou
<1> QED
  BY <1>1, <1>4, <1>5, <1>6, SoOBanco

LEMMA AoComitar ==
    ASSUME PainelInv, NEW l \in Linhas, NEW v \in 1..MaxMudancas, NEW d \in Donatarios, Comitar(l, v, d)
    PROVE  PainelInv'
<1> DEFINE n == Len(mudancas)
           m0 == n + 1
           e == [linha |-> l, v |-> v, de |-> {dono[l], d}]
           s == escuta.fila
           t == Append(s, m0)
<1>1. /\ TiposDoPainel /\ EscutaCerta /\ HubCerto
      /\ mudancas' = Append(mudancas, e) /\ dono' = [dono EXCEPT ![l] = d]
      /\ escuta' = IF escuta.viva THEN [escuta EXCEPT !.fila = t] ELSE escuta
      /\ furos' = [c \in Clientes |-> IF Assinante(c) /\ NuncaEscutou
                                      THEN furos[c] \cup {m0} ELSE furos[c]]
      /\ UNCHANGED <<hub, con, presas, fio, tela>>
  BY DEF PainelInv, Comitar
<1>2. /\ n \in Nat /\ m0 \in Nat /\ Len(mudancas') = m0 /\ Feitas = 1..n /\ Feitas' = 1..m0
      /\ \A m \in 1..n : mudancas'[m] = mudancas[m]
      /\ mudancas' \in Seq(Commits) /\ dono' \in [Linhas -> Donatarios]
  <2>1. e \in Commits
    BY <1>1, TempoRealAssumption DEF Commits, TiposDoPainel
  <2> HIDE DEF e
  <2>2. \A S : mudancas \in Seq(S) /\ e \in S =>
            /\ Append(mudancas, e) \in Seq(S) /\ n \in Nat /\ Len(Append(mudancas, e)) = n + 1
            /\ \A m \in 1..n : Append(mudancas, e)[m] = mudancas[m]
    OBVIOUS
  <2>3. mudancas \in Seq(Commits) /\ dono \in [Linhas -> Donatarios]
    BY <1>1 DEF TiposDoPainel
  <2> QED
    BY <1>1, <2>1, <2>2, <2>3 DEF Feitas
<1> HIDE DEF n
<1>3. /\ s \in Seq(Nat) /\ t \in Seq(Nat) /\ \A i \in DOMAIN t : t[i] = m0 \/ (i \in DOMAIN s /\ t[i] = s[i])
      /\ \A m : m \in ToSet(s) => m \in ToSet(t)
      /\ m0 \in ToSet(t)
  <2>1. s \in Seq(Nat)
    BY <1>1, Valores
  <2> HIDE DEF s, m0
  <2>2. t \in Seq(Nat) /\ \A i \in DOMAIN t : t[i] = m0 \/ (i \in DOMAIN s /\ t[i] = s[i])
    <3>1. ASSUME NEW r \in Seq(Nat), NEW p \in Nat
          PROVE  /\ Append(r, p) \in Seq(Nat)
                 /\ \A i \in DOMAIN Append(r, p) :
                       Append(r, p)[i] = p \/ (i \in DOMAIN r /\ Append(r, p)[i] = r[i])
      OBVIOUS
    <3> QED
      BY <1>2, <2>1, <3>1
  <2> QED
    BY <1>2, <2>1, <2>2, NoConjuntoComUm
<1> HIDE DEF t, m0
<1>4. /\ escuta' \in Escutas /\ escuta'.estado = escuta.estado /\ escuta'.viva = escuta.viva
      /\ escuta.viva => escuta'.fila = t
      /\ ~escuta.viva => escuta'.fila = s
  BY <1>1, <1>3, Valores DEF Escutas
<1>5. EscutaCerta'
  <2>1. \A i \in DOMAIN s : s[i] \in Feitas'
    BY <1>1, <1>2 DEF EscutaCerta, m0
  <2>2. \A i \in DOMAIN t : t[i] \in Feitas'
    <3>1. m0 \in Feitas'
      BY <1>2 DEF m0
    <3> QED
      BY <1>3, <2>1, <3>1
  <2> QED
    BY <1>1, <1>4, <2>1, <2>2 DEF EscutaCerta
<1>6. HubCerto'
  <2>1. 1..n \subseteq 1..m0
    BY <1>2 DEF m0
  <2> QED
    BY <1>1, <1>2, <2>1 DEF HubCerto, Guardados, n
<1>7. furos' \in [Clientes -> SUBSET Nat] /\ \A c \in Clientes : furos[c] \subseteq furos'[c]
  BY <1>1, <1>2 DEF TiposDoPainel
<1>8. TiposDoPainel'
  BY <1>1, <1>2, <1>4, <1>7 DEF TiposDoPainel
<1>9. Teto' = Teto /\ Teto \in Nat /\ n <= m0 /\ Teto <= Teto /\ \A m : Alcance(m)' = Alcance(m)
  <2>1. Teto' = Teto
    BY <1>1, <1>4 DEF Teto
  <2> QED
    BY <1>1, <1>2, <1>4, <2>1, Valores DEF Alcance, Conectado, m0
<1>10. ASSUME NEW c \in Clientes
       PROVE  /\ Caminho(con[c], fio[c], tela[c].lido, Teto, m0)
              /\ VoltaCerta(tela[c], Teto) /\ BuscaCerta(tela[c], m0)
  <2> DEFINE x == tela[c].lido
             z == Teto
  <2>1. /\ con[c] \in Conexoes /\ fio[c] \in Seq(Aviso) /\ x \in Nat /\ tela[c].busca \in Seq(Nat)
        /\ tela[c].vista \in Nat
    BY <1>1, ValoresDe
  <2>2. Caminho(con[c], fio[c], x, z, n) /\ BuscaCerta(tela[c], n) /\ VoltaCerta(tela[c], z)
    BY DEF PainelInv, n
  <2>3. BuscaCerta(tela[c], m0)
    BY <1>2, <2>1, <2>2 DEF BuscaCerta, m0
  <2>4. z \in Nat /\ z <= z
    BY <1>9
  <2> HIDE DEF x, z
  <2>5. Caminho(con[c], fio[c], x, z, m0)
    BY <1>2, <1>9, <2>1, <2>2, <2>4, MaisLonge
  <2> QED
    BY <2>2, <2>3, <2>5 DEF x, z
<1>11. ASSUME NEW c \in Clientes, NEW m \in 1..m0, Deve(c, m)'
       PROVE  Garantida(con[c], fio[c], tela[c].lido, m, Alcance(m)) /\ VoltaGarantida(tela[c], Alcance(m))
  <2>1. ~VemDoBanco(m)'
    BY <1>11 DEF Deve, Desculpada
  <2>2. CASE m \in 1..n
    <3>1. Interessa(c, m)' <=> Interessa(c, m)
      BY <1>2, <2>2 DEF Interessa, Assina
    <3>2. VemDoBanco(m) => VemDoBanco(m)'
      BY <1>1, <1>3, <1>4 DEF VemDoBanco, NuncaEscutou, s
    <3>3. Deve(c, m)
      BY <1>1, <1>7, <1>11, <2>1, <3>1, <3>2 DEF Deve, Atrasada, Desculpada, VemDaBusca
    <3> QED
      BY <1>2, <2>2, <3>3 DEF PainelInv
  <2>3. CASE m = m0
    <3>1. ~escuta.viva
      BY <1>3, <1>4, <2>1, <2>3 DEF VemDoBanco
    <3>2. NuncaEscutou
      BY <1>1, <1>4, <2>1, <3>1 DEF VemDoBanco, NuncaEscutou
    <3>3. ~Assinante(c)
      BY <1>1, <1>11, <2>3, <3>2 DEF Deve, Desculpada
    <3>4. tela[c].lido \in 0..Teto /\ tela[c].ultimoId \in 0..Teto /\ tela[c].url \in 0..Teto
      BY <1>1, <1>9, <1>10, ValoresDe DEF Caminho, VoltaCerta
    <3>5. 0..Teto \subseteq Alcance(m)
      BY <3>2 DEF Alcance, NuncaEscutou, Conectado
    <3> QED
      BY <3>3, <3>4, <3>5 DEF Garantida, VoltaGarantida, Assinante
  <2> QED
    BY <1>2, <2>2, <2>3 DEF m0
<1>12. \A c \in Clientes : con'[c] = con[c] /\ fio'[c] = fio[c] /\ tela'[c] = tela[c]
  BY <1>1
<1>13. /\ \A c \in Clientes : /\ Caminho(con'[c], fio'[c], tela'[c].lido, Teto', Len(mudancas'))
                              /\ VoltaCerta(tela'[c], Teto') /\ BuscaCerta(tela'[c], Len(mudancas'))
  BY <1>2, <1>9, <1>10, <1>12
<1>14. \A c \in Clientes : \A m \in Feitas' : Deve(c, m)' =>
            Garantida(con'[c], fio'[c], tela'[c].lido, m, Alcance(m)') /\ VoltaGarantida(tela'[c], Alcance(m)')
  BY <1>2, <1>9, <1>11, <1>12
<1> QED
  BY <1>5, <1>6, <1>8, <1>13, <1>14 DEF PainelInv

LEMMA AoMarcarLacuna ==
    ASSUME PainelInv, MarcarLacuna
    PROVE  PainelInv'
<1>1. /\ TiposDoPainel /\ EscutaCerta /\ HubCerto /\ escuta.estado = "aberta"
      /\ escuta' = [escuta EXCEPT !.estado = "marcada"]
      /\ UNCHANGED <<mudancas, dono, presas, fio, tela, furos>>
  BY DEF PainelInv, MarcarLacuna
<1>2. /\ escuta'.estado = "marcada" /\ escuta'.viva = escuta.viva /\ escuta'.fila = escuta.fila
      /\ escuta' \in Escutas
  BY <1>1, Valores DEF Escutas
<1>3. /\ hub \in Hubs /\ hub.cursor \in Nat /\ hub.base \in Nat /\ Teto \in Nat /\ Len(mudancas) \in Nat
      /\ ~Conectado /\ ~Conectado'
  BY <1>1, <1>2, Valores DEF Conectado
<1>4. \A m : Alcance(m) = 0..Teto /\ Alcance(m)' = 0..(Teto')
  BY <1>3 DEF Alcance
<1>5. CASE hub.primeira
  <2>1. hub' = [hub EXCEPT !.primeira = FALSE] /\ con' = con
    BY <1>5 DEF MarcarLacuna
  <2>2. /\ hub' \in Hubs /\ hub'.cursor = hub.cursor /\ hub'.base = hub.base /\ hub'.buffer = hub.buffer
        /\ ~hub'.primeira
    BY <1>3, <2>1 DEF Hubs
  <2>3. HubCerto' /\ EscutaCerta'
    BY <1>1, <1>2, <2>2 DEF HubCerto, EscutaCerta, Feitas
  <2>4. Teto' = Teto /\ Teto <= Teto'
    <3>1. Teto' = Teto
      BY <1>2, <1>5, <2>2 DEF Teto
    <3> QED
      BY <1>3, <3>1
  <2>5. \A m : VemDoBanco(m) => VemDoBanco(m)'
    BY <1>1, <1>2, <1>5, <2>2 DEF VemDoBanco, NuncaEscutou
  <2>6. \A m : Alcance(m) \subseteq Alcance(m)'
    BY <1>4, <2>4
  <2> QED
    BY <1>1, <1>2, <2>1, <2>2, <2>3, <2>4, <2>5, <2>6, SoOBanco
<1>6. CASE ~hub.primeira
  <2> DEFINE z == <<>>
             k1(c) == Entregar(con[c], Resync)
             n == Len(mudancas)
  <2>1. /\ hub' = [hub EXCEPT !.buffer = z, !.cursor = hub.cursor + 1, !.base = hub.cursor + 1]
        /\ con' = [c \in Clientes |-> IF Assinante(c) THEN k1(c) ELSE con[c]]
    BY <1>6 DEF MarcarLacuna, LacunaAvisada
  <2>2. z \in Seq(Aviso) /\ DOMAIN z = {}
    OBVIOUS
  <2>3. /\ hub' \in Hubs /\ hub'.cursor = hub.cursor + 1 /\ hub'.base = hub.cursor + 1 /\ hub'.buffer = z
        /\ ~hub'.primeira
    <3> DEFINE p == hub.cursor + 1
    <3>1. p \in Nat /\ hub' = [hub EXCEPT !.buffer = z, !.cursor = p, !.base = p]
      BY <1>3, <2>1
    <3> HIDE DEF z, p
    <3>2. /\ hub' \in Hubs /\ hub'.cursor = p /\ hub'.base = p /\ hub'.buffer = z
          /\ hub'.primeira = hub.primeira
      BY <1>3, <2>2, <3>1 DEF Hubs
    <3> QED
      BY <1>6, <3>2 DEF p
  <2>4. HubCerto'
    BY <1>3, <2>2, <2>3 DEF HubCerto, Guardados
  <2>5. EscutaCerta'
    BY <1>1, <1>2, <2>3 DEF EscutaCerta, Feitas
  <2>6. Teto = hub.cursor /\ Teto' = hub.cursor
    <3>1. Teto = hub.cursor /\ Teto' = (hub.cursor + 1) - 1
      BY <1>1, <1>2, <1>6, <2>3 DEF Teto
    <3> QED
      BY <1>3, <3>1
  <2>7. ASSUME NEW c \in Clientes
        PROVE  /\ con'[c] \in Conexoes /\ con'[c] = IF Assinante(c) THEN k1(c) ELSE con[c]
               /\ k1(c) \in Conexoes /\ k1(c).fase = con[c].fase /\ k1(c).resync /\ k1(c).repor = con[c].repor
    <3>1. con[c] \in Conexoes
      BY <1>1, ValoresDe
    <3>2. /\ k1(c) \in Conexoes /\ k1(c).fase = con[c].fase /\ k1(c).resync /\ k1(c).repor = con[c].repor
      BY <3>1, ResyncEAviso, EntregarFaz DEF Resync
    <3> HIDE DEF k1
    <3> QED
      BY <2>1, <3>1, <3>2
  <2>8. TiposDoPainel'
    <3> HIDE DEF k1, z
    <3>1. con' \in [Clientes -> Conexoes]
      BY <2>1, <2>7
    <3> QED
      BY <1>1, <1>2, <2>3, <3>1 DEF TiposDoPainel
  <2>9. ASSUME NEW c \in Clientes PROVE Caminho(con'[c], fio[c], tela[c].lido, Teto, n)
    <3> DEFINE x == tela[c].lido
               t == Teto
    <3>1. con[c] \in Conexoes /\ fio[c] \in Seq(Aviso) /\ x \in Nat /\ Caminho(con[c], fio[c], x, t, n)
      BY <1>1, ValoresDe DEF PainelInv
    <3>2. n \in Nat /\ t \in Nat /\ n <= n /\ t <= t /\ Resync \in Aviso /\ Resync.resync
      BY <1>3, ResyncEAviso DEF Resync
    <3> HIDE DEF x, t, n
    <3>3. Caminho(k1(c), fio[c], x, t, n)
      BY <3>1, <3>2, CaminhoEntregue
    <3> HIDE DEF k1
    <3> QED
      BY <2>7, <3>1, <3>3 DEF x, t, n
  <2>10. ASSUME NEW c \in Clientes, NEW m
         PROVE  Garantida(con'[c], fio[c], tela[c].lido, m, 0..Teto) /\ VoltaGarantida(tela[c], 0..Teto)
    <3> DEFINE x == tela[c].lido
               F == 0..Teto
               t == Teto
    <3>1. x \in Nat /\ con[c].repor \in Seq(Aviso) /\ fio[c] \in Seq(Aviso)
      BY <1>1, ValoresDe
    <3>2. x <= t /\ Dados(fio[c], x, t, n) /\ Dados(con[c].repor, x, t, n)
      BY DEF PainelInv, Caminho
    <3>3. x \in F /\ 0..t \subseteq F /\ t \in Nat
      BY <1>3, <3>1, <3>2
    <3>7. VoltaGarantida(tela[c], F)
      <4>1. VoltaCerta(tela[c], t) /\ tela[c].ultimoId \in Nat /\ tela[c].url \in Nat
        BY <1>1, ValoresDe DEF PainelInv
      <4> QED
        BY <3>3, <4>1 DEF VoltaCerta, VoltaGarantida
    <3> HIDE DEF x, F, t, n, k1
    <3>4. Firmes(fio[c], m, F) /\ Firmes(con[c].repor, m, F)
      BY <3>1, <3>2, <3>3, DadosFirmes
    <3>5. Assinante(c) => Garantida(con'[c], fio[c], x, m, F)
      BY <2>7, <3>3, <3>4, Zenon DEF Garantida
    <3>6. ~Assinante(c) => Garantida(con'[c], fio[c], x, m, F)
      BY <2>7, <3>3 DEF Garantida, Assinante
    <3> QED
      BY <3>5, <3>6, <3>7 DEF x, F
  <2>11. \A c \in Clientes :
            /\ Caminho(con'[c], fio'[c], tela'[c].lido, Teto', Len(mudancas'))
            /\ VoltaCerta(tela'[c], Teto') /\ BuscaCerta(tela'[c], Len(mudancas'))
    <3>1. \A c \in Clientes : BuscaCerta(tela[c], n) /\ VoltaCerta(tela[c], Teto)
      BY DEF PainelInv
    <3> QED
      BY <1>1, <2>6, <2>9, <3>1
  <2>12. \A c \in Clientes : \A m \in Feitas' : Deve(c, m)' =>
            Garantida(con'[c], fio'[c], tela'[c].lido, m, Alcance(m)') /\ VoltaGarantida(tela'[c], Alcance(m)')
    BY <1>1, <1>4, <2>6, <2>10
  <2> QED
    BY <2>4, <2>5, <2>8, <2>11, <2>12 DEF PainelInv
<1> QED
  BY <1>5, <1>6

LEMMA AoReiniciar ==
    ASSUME PainelInv, Reiniciar
    PROVE  PainelInv'
<1> DEFINE n == Len(mudancas)
           z == <<>>
<1>1. /\ TiposDoPainel /\ EscutaCerta /\ HubCerto
      /\ escuta' = [estado |-> "fechada", viva |-> FALSE, fila |-> z]
      /\ hub' = [cursor |-> hub.cursor + 1, base |-> hub.cursor + 1, buffer |-> z, primeira |-> TRUE]
      /\ con' = [c \in Clientes |-> Fora] /\ presas' = [c \in Clientes |-> 0]
      /\ fio' = [c \in Clientes |-> z] /\ UNCHANGED <<mudancas, dono, tela, furos>>
  BY DEF PainelInv, Reiniciar
<1>2. /\ hub.cursor \in Nat /\ Teto \in Nat /\ Teto <= hub.cursor /\ n \in Nat
  BY <1>1, Valores
<1>3. z \in Seq(Aviso) /\ z \in Seq(Nat) /\ DOMAIN z = {}
  OBVIOUS
<1>4. Fora \in Conexoes /\ Fora.fase = "fora" /\ Fora.repor = <<>> /\ Fora.canal = <<>>
  BY DEF Fora, Conexoes
<1>5. TiposDoPainel'
  <2> HIDE DEF z
  <2>1. hub' \in Hubs /\ escuta' \in Escutas
    BY <1>1, <1>2, <1>3 DEF Hubs, Escutas
  <2>2. con' \in [Clientes -> Conexoes] /\ fio' \in [Clientes -> Seq(Aviso)] /\ presas' \in [Clientes -> Nat]
    BY <1>1, <1>3, <1>4
  <2> QED
    BY <1>1, <2>1, <2>2 DEF TiposDoPainel
<1>6. EscutaCerta' /\ HubCerto'
  BY <1>1, <1>2, <1>3 DEF EscutaCerta, HubCerto, Guardados
<1>7. Teto' = hub.cursor
  BY <1>1, <1>2 DEF Teto
<1>8. \A m : Alcance(m)' = 0..hub.cursor
  BY <1>1, <1>7 DEF Alcance, Conectado
<1>9. ASSUME NEW c \in Clientes
      PROVE  /\ con'[c] = Fora /\ fio'[c] = <<>> /\ tela[c].lido \in Nat
             /\ tela[c].lido <= hub.cursor /\ BuscaCerta(tela[c], n)
             /\ VoltaCerta(tela[c], hub.cursor) /\ VoltaGarantida(tela[c], 0..hub.cursor)
  <2>1. tela[c].lido \in Nat /\ tela[c].lido <= Teto /\ BuscaCerta(tela[c], n)
    BY <1>1, ValoresDe DEF PainelInv, Caminho
  <2>2. /\ tela[c].ultimoId \in Nat /\ tela[c].ultimoId <= Teto
        /\ tela[c].url \in Nat /\ tela[c].url <= Teto
    BY <1>1, ValoresDe DEF PainelInv, VoltaCerta
  <2>3. VoltaCerta(tela[c], hub.cursor) /\ VoltaGarantida(tela[c], 0..hub.cursor)
    BY <1>2, <2>2 DEF VoltaCerta, VoltaGarantida
  <2> QED
    BY <1>1, <1>2, <2>1, <2>3
<1>10. ASSUME NEW c \in Clientes PROVE Caminho(Fora, <<>>, tela[c].lido, hub.cursor, n)
  BY <1>4, <1>9, Vazias DEF Caminho
<1>11. \A c \in Clientes : \A m : Garantida(Fora, <<>>, tela[c].lido, m, 0..hub.cursor)
  BY <1>2, <1>4, <1>9 DEF Garantida
<1>12. \A c \in Clientes :
          /\ Caminho(con'[c], fio'[c], tela'[c].lido, Teto', Len(mudancas'))
          /\ VoltaCerta(tela'[c], Teto') /\ BuscaCerta(tela'[c], Len(mudancas'))
  BY <1>1, <1>7, <1>9, <1>10
<1>13. \A c \in Clientes : \A m \in Feitas' : Deve(c, m)' =>
          Garantida(con'[c], fio'[c], tela'[c].lido, m, Alcance(m)') /\ VoltaGarantida(tela'[c], Alcance(m)')
  BY <1>1, <1>8, <1>9, <1>11
<1> QED
  BY <1>5, <1>6, <1>12, <1>13 DEF PainelInv

\* The window and the ceiling: the newcomer stays, the base goes up to what was dropped.
PodaCerta(a, d) ==
    LET b == Append(hub.buffer, a)
        s == SubSeq(b, d + 1, Len(b))
        q == BaseValida(b, d, hub.base)
    IN  /\ s \in Seq(Aviso) /\ q \in Nat /\ hub.base <= q /\ q <= hub.cursor + 1
        /\ \A i \in DOMAIN s : q < s[i].cursor
        /\ Guardados(s, hub.cursor + 1, Len(mudancas))
        /\ \E i \in DOMAIN s : s[i] = a
        /\ \A i \in DOMAIN hub.buffer :
              hub.buffer[i].cursor <= q \/ \E j \in DOMAIN s : s[j] = hub.buffer[i]

LEMMA PodaFaz ==
    ASSUME TiposDoPainel, HubCerto, NEW a \in Aviso,
           ~a.resync, a.cursor = hub.cursor + 1, a.m \in 1..Len(mudancas),
           NEW d \in Podas(Append(hub.buffer, a))
    PROVE  PodaCerta(a, d)
<1> DEFINE b == hub.buffer
           cursor == hub.cursor
           base == hub.base
           n == Len(mudancas)
<1>13. /\ b \in Seq(Aviso) /\ cursor \in Nat /\ n \in Nat /\ base \in Nat
       /\ Guardados(b, cursor, n) /\ \A i \in DOMAIN b : base < b[i].cursor
       /\ base <= cursor /\ a.cursor = cursor + 1 /\ a.m \in 1..n
  BY Valores DEF HubCerto
<1> DEFINE u == Append(b, a)
           l == Len(b)
           s == SubSeq(u, d + 1, Len(u))
           q == BaseValida(u, d, base)
<1>1. /\ u \in Seq(Aviso) /\ l \in Nat /\ DOMAIN b = 1..l /\ DOMAIN u = 1..(l + 1) /\ Len(u) = l + 1
      /\ u[l + 1] = a /\ \A i \in 1..l : u[i] = b[i]
      /\ \A i \in 1..(l + 1) : i = l + 1 \/ i \in 1..l
  <2> HIDE DEF b
  <2> QED
    BY <1>13
<1>2. d \in 0..l
  BY <1>1 DEF Podas
<1> HIDE DEF u, cursor, base, n, s, q
<1>3. /\ s \in Seq(Aviso) /\ DOMAIN s = 1..((l + 1) - d)
      /\ \A i \in 1..((l + 1) - d) : s[i] = u[i + d] /\ i + d \in 1..(l + 1)
  <2>1. s = SubSeq(u, d + 1, l + 1)
    BY <1>1 DEF s
  <2> HIDE DEF l
  <2>2. \A i \in 1..((l + 1) - d) : i + d \in 1..(l + 1) /\ (d + 1) + i - 1 = i + d
    BY <1>1, <1>2
  <2>3. d + 1 \in Int /\ l + 1 \in Int /\ \A i \in (d + 1)..(l + 1) : u[i] \in Aviso
    BY <1>1, <1>2
  <2>4. /\ s \in Seq(Aviso) /\ Len(s) = IF d + 1 <= l + 1 THEN (l + 1) - (d + 1) + 1 ELSE 0
        /\ \A i \in 1..((l + 1) - (d + 1) + 1) : s[i] = u[(d + 1) + i - 1]
    <3> DEFINE p == d + 1
               r == l + 1
    <3>1. p \in Int /\ r \in Int /\ \A i \in p..r : u[i] \in Aviso
      BY <2>3
    <3> HIDE DEF p, r
    <3>2. /\ SubSeq(u, p, r) \in Seq(Aviso) /\ Len(SubSeq(u, p, r)) = IF p <= r THEN r - p + 1 ELSE 0
          /\ \A i \in 1..(r - p + 1) : SubSeq(u, p, r)[i] = u[p + i - 1]
      BY <3>1, SubSeqProperties
    <3> QED
      BY <2>1, <3>2 DEF p, r
  <2>5. d + 1 <= l + 1 /\ (l + 1) - (d + 1) + 1 = (l + 1) - d
    BY <1>1, <1>2
  <2>6. Len(s) = (l + 1) - d /\ DOMAIN s = 1..Len(s)
    BY <2>4, <2>5
  <2> QED
    BY <2>2, <2>4, <2>5, <2>6
<1>4. \A i \in 1..(l + 1) : /\ ~u[i].resync /\ u[i].cursor <= cursor + 1 /\ u[i].m \in 1..n
                            /\ base < u[i].cursor /\ u[i].cursor \in Nat
  <2> SUFFICES ASSUME NEW i \in 1..(l + 1)
               PROVE  /\ ~u[i].resync /\ u[i].cursor <= cursor + 1 /\ u[i].m \in 1..n
                      /\ base < u[i].cursor /\ u[i].cursor \in Nat
    OBVIOUS
  <2>1. u[i].cursor \in Nat
    <3>1. u[i] \in Aviso
      BY <1>1
    <3> QED
      BY <3>1 DEF Aviso
  <2>2. CASE i = l + 1
    BY <1>1, <1>13, <2>1, <2>2
  <2>3. CASE i \in 1..l
    <3>1. i \in DOMAIN b /\ u[i] = b[i]
      BY <1>1, <2>3
    <3>2. ~b[i].resync /\ b[i].cursor <= cursor /\ b[i].m \in 1..n /\ base < b[i].cursor
      BY <1>13, <3>1 DEF Guardados
    <3> QED
      BY <1>13, <2>1, <3>1, <3>2
  <2> QED
    BY <1>1, <2>2, <2>3
<1>5. \A i, j \in 1..(l + 1) : j < i => u[j].cursor < u[i].cursor
  <2> SUFFICES ASSUME NEW i \in 1..(l + 1), NEW j \in 1..(l + 1), j < i PROVE u[j].cursor < u[i].cursor
    OBVIOUS
  <2>1. j \in 1..l
    BY <1>1
  <2>2. CASE i = l + 1
    <3>1. u[j] = b[j] /\ j \in DOMAIN b /\ u[i].cursor = cursor + 1
      BY <1>1, <1>13, <2>1, <2>2
    <3>2. b[j].cursor <= cursor
      BY <1>13, <3>1 DEF Guardados
    <3> QED
      BY <1>4, <1>13, <3>1, <3>2
  <2>3. CASE i \in 1..l
    BY <1>1, <1>13, <2>1, <2>3 DEF Guardados
  <2> QED
    BY <1>1, <2>2, <2>3
<1>6. q = IF d = 0 THEN base ELSE u[d].cursor
  BY DEF BaseValida, q
<1> HIDE DEF l, b
<1>7. q \in Nat /\ base <= q /\ q <= cursor + 1
  <2>1. CASE d = 0
    BY <1>6, <1>13, <2>1
  <2>2. CASE d # 0
    <3>1. d \in 1..(l + 1)
      BY <1>1, <1>2, <2>2
    <3> QED
      BY <1>4, <1>6, <1>13, <2>2, <3>1
  <2> QED
    BY <2>1, <2>2
<1>8. ASSUME NEW i \in DOMAIN s PROVE q < s[i].cursor
  <2>1. s[i] = u[i + d] /\ i + d \in 1..(l + 1)
    BY <1>3
  <2>2. CASE d = 0
    BY <1>4, <1>6, <2>1, <2>2
  <2>3. CASE d # 0
    <3>1. d \in 1..(l + 1) /\ d < i + d
      BY <1>1, <1>2, <1>3, <2>3
    <3> QED
      BY <1>5, <1>6, <2>1, <2>3, <3>1
  <2> QED
    BY <2>2, <2>3
<1>9. Guardados(s, cursor + 1, n)
  <2>1. ASSUME NEW i \in DOMAIN s PROVE ~s[i].resync /\ s[i].cursor <= cursor + 1 /\ s[i].m \in 1..n
    <3>1. s[i] = u[i + d] /\ i + d \in 1..(l + 1)
      BY <1>3
    <3> QED
      BY <1>4, <3>1
  <2>2. ASSUME NEW i \in DOMAIN s, NEW j \in DOMAIN s, j < i PROVE s[j].cursor < s[i].cursor
    <3>1. s[i] = u[i + d] /\ i + d \in 1..(l + 1) /\ s[j] = u[j + d] /\ j + d \in 1..(l + 1)
      BY <1>3
    <3>2. j + d < i + d
      BY <1>1, <1>2, <1>3, <2>2
    <3> QED
      BY <1>5, <3>1, <3>2
  <2> QED
    BY <2>1, <2>2 DEF Guardados
<1>10. ASSUME NEW i \in 1..(l + 1), d < i PROVE \E j \in DOMAIN s : s[j] = u[i]
  <2>1. i - d \in DOMAIN s /\ (i - d) + d = i
    BY <1>1, <1>2, <1>3, <1>10
  <2>2. s[i - d] = u[i]
    BY <1>3, <2>1
  <2> QED
    BY <2>1, <2>2
<1>11. \E i \in DOMAIN s : s[i] = a
  <2>1. l + 1 \in 1..(l + 1) /\ d < l + 1
    BY <1>1, <1>2
  <2> QED
    BY <1>1, <1>10, <2>1
<1>12. ASSUME NEW i \in DOMAIN b PROVE b[i].cursor <= q \/ \E j \in DOMAIN s : s[j] = b[i]
  <2>1. i \in 1..l /\ i \in 1..(l + 1) /\ u[i] = b[i]
    BY <1>1
  <2>2. CASE d < i
    BY <1>10, <2>1, <2>2
  <2>3. CASE i <= d
    <3>1. d \in 1..(l + 1) /\ q = u[d].cursor
      BY <1>1, <1>2, <1>6, <2>1, <2>3
    <3>2. CASE i = d
      BY <1>4, <2>1, <3>1, <3>2
    <3>3. CASE i < d
      <4>1. u[i].cursor < u[d].cursor
        BY <1>5, <2>1, <3>1, <3>3
      <4> QED
        BY <1>4, <2>1, <3>1, <4>1
    <3> QED
      BY <1>1, <1>2, <2>1, <2>3, <3>2, <3>3
  <2> QED
    BY <1>1, <1>2, <2>1, <2>2, <2>3
<1> QED
  BY <1>3, <1>7, <1>8, <1>9, <1>11, <1>12 DEF PodaCerta, b, cursor, base, n, s, q, u

LEMMA AoPublicar ==
    ASSUME PainelInv, Publicar
    PROVE  PainelInv'
<1> DEFINE s == escuta.fila
           m0 == Head(s)
           cursor == hub.cursor
           a == Evento(cursor + 1, m0)
           n == Len(mudancas)
           b == hub.buffer
           k1(c) == Entregar(con[c], a)
           Dela(c) == Assinante(c) /\ Assina(c, m0)
<1>1. /\ TiposDoPainel /\ EscutaCerta /\ HubCerto /\ escuta.estado = "consumindo" /\ s # <<>>
      /\ escuta' = [escuta EXCEPT !.fila = Tail(s)]
      /\ con' = [c \in Clientes |-> IF Dela(c) THEN k1(c) ELSE con[c]]
      /\ UNCHANGED <<mudancas, dono, presas, fio, tela, furos>>
  BY DEF PainelInv, Publicar, Conectado
<1>2. PICK d \in Podas(Append(b, a)) :
         hub' = [hub EXCEPT !.cursor = cursor + 1, !.base = BaseValida(Append(b, a), d, hub.base),
                            !.buffer = SubSeq(Append(b, a), d + 1, Len(Append(b, a)))]
  BY DEF Publicar
<1> DEFINE q == BaseValida(Append(b, a), d, hub.base)
           r == SubSeq(Append(b, a), d + 1, Len(Append(b, a)))
<1>3. /\ hub \in Hubs /\ b \in Seq(Aviso) /\ cursor \in Nat /\ hub.base \in Nat /\ hub.base <= cursor
      /\ n \in Nat /\ s \in Seq(Nat) /\ escuta \in Escutas /\ ~hub.primeira
      /\ Guardados(b, cursor, n) /\ \A i \in DOMAIN b : hub.base < b[i].cursor
  BY <1>1, Valores DEF HubCerto, EscutaCerta
<1> HIDE DEF s
<1>4. /\ m0 \in Nat /\ Tail(s) \in Seq(Nat) /\ m0 \in ToSet(s)
      /\ \A m : m \in ToSet(s) <=> m \in ToSet(Tail(s)) \/ m = m0
  BY <1>1, <1>3, NoConjuntoSemUm
<1>5. /\ m0 \in 1..n
      /\ \A i \in DOMAIN Tail(s) : Tail(s)[i] \in Feitas
  <2>1. \A i \in DOMAIN s : s[i] \in 1..n
    BY <1>1 DEF EscutaCerta, Feitas, s
  <2>2. /\ 1 \in DOMAIN s /\ s[1] = Head(s)
        /\ \A i \in DOMAIN Tail(s) : i + 1 \in DOMAIN s /\ Tail(s)[i] = s[i + 1]
    BY <1>1, <1>3
  <2> QED
    BY <2>1, <2>2 DEF Feitas
<1> HIDE DEF m0, n, cursor
<1>6. a \in Aviso /\ ~a.resync /\ a.cursor = cursor + 1 /\ a.m = m0
  BY <1>3, <1>4 DEF Evento, Aviso
<1> HIDE DEF a, b
<1>7. d \in Podas(Append(b, a))
  OBVIOUS
<1> HIDE DEF q, r
<1>8. /\ r \in Seq(Aviso) /\ q \in Nat /\ hub.base <= q /\ q <= cursor + 1
      /\ \A i \in DOMAIN r : q < r[i].cursor
      /\ Guardados(r, cursor + 1, n)
      /\ \E i \in DOMAIN r : r[i] = a
      /\ \A i \in DOMAIN b : b[i].cursor <= q \/ \E j \in DOMAIN r : r[j] = b[i]
  <2>1. a.m \in 1..Len(mudancas) /\ a.cursor = hub.cursor + 1 /\ d \in Podas(Append(hub.buffer, a))
    BY <1>5, <1>6, <1>7 DEF n, cursor, b
  <2>2. PodaCerta(a, d)
    BY <1>1, <1>6, <2>1, PodaFaz
  <2> QED
    BY <2>2 DEF PodaCerta, cursor, n, b, q, r
<1>9. /\ hub' \in Hubs /\ hub'.cursor = cursor + 1 /\ hub'.base = q /\ hub'.buffer = r /\ ~hub'.primeira
  <2> DEFINE p == cursor + 1
  <2>1. p \in Nat /\ hub' = [hub EXCEPT !.cursor = p, !.base = q, !.buffer = r]
    BY <1>2, <1>3 DEF q, r
  <2> HIDE DEF p
  <2>2. /\ hub' \in Hubs /\ hub'.cursor = p /\ hub'.base = q /\ hub'.buffer = r
        /\ hub'.primeira = hub.primeira
    BY <1>3, <1>8, <2>1 DEF Hubs
  <2> QED
    BY <1>3, <2>2 DEF p
<1>10. HubCerto'
  <2>1. 1 <= q
    BY <1>1, <1>3, <1>8 DEF HubCerto
  <2> QED
    BY <1>1, <1>8, <1>9, <2>1 DEF HubCerto, n
<1>11. /\ escuta' \in Escutas /\ escuta'.estado = "consumindo" /\ escuta'.viva = escuta.viva
       /\ escuta'.fila = Tail(s)
  BY <1>1, <1>3, <1>4 DEF Escutas
<1>12. EscutaCerta'
  BY <1>1, <1>5, <1>9, <1>11 DEF EscutaCerta, Feitas
<1>13. ASSUME NEW c \in Clientes
       PROVE  /\ con[c] \in Conexoes /\ k1(c) \in Conexoes
              /\ con'[c] = IF Dela(c) THEN k1(c) ELSE con[c]
  <2>1. con[c] \in Conexoes
    BY <1>1, ValoresDe
  <2> QED
    BY <1>1, <1>6, <2>1, EntregarFaz
<1> HIDE DEF k1, Dela
<1>14. TiposDoPainel'
  <2>1. con' \in [Clientes -> Conexoes]
    BY <1>1, <1>13
  <2> QED
    BY <1>1, <1>9, <1>11, <2>1 DEF TiposDoPainel
<1>15. Teto = cursor /\ Teto' = cursor + 1
  BY <1>1, <1>3, <1>9, <1>11 DEF Teto, cursor
<1>16. ASSUME NEW c \in Clientes
       PROVE  Caminho(con'[c], fio[c], tela[c].lido, cursor + 1, n)
  <2> DEFINE x == tela[c].lido
             z == cursor
             z1 == cursor + 1
  <2>1. /\ con[c] \in Conexoes /\ fio[c] \in Seq(Aviso) /\ x \in Nat /\ Caminho(con[c], fio[c], x, z, n)
    BY <1>1, <1>15, ValoresDe DEF PainelInv, n
  <2>2. z \in Nat /\ z1 \in Nat /\ z <= z1 /\ n <= n /\ z < a.cursor /\ a.cursor <= z1 /\ a.m \in 1..n
    BY <1>3, <1>5, <1>6
  <2> HIDE DEF x, z, z1
  <2>3. Caminho(con[c], fio[c], x, z1, n)
    BY <1>3, <2>1, <2>2, MaisLonge
  <2>4. Caminho(k1(c), fio[c], x, z1, n)
    BY <1>3, <1>6, <2>1, <2>2, CaminhoEntregue DEF k1
  <2> QED
    BY <1>13, <2>3, <2>4 DEF x, z1
\* Whoever could have m from the buffer still can, or is out of its reach now.
<1>17. ASSUME NEW m, NEW x \in Alcance(m) PROVE x \in Alcance(m)'
  <2>1. x \in 0..cursor /\ x \in 0..(cursor + 1) /\ x \in Nat
    BY <1>3, <1>15 DEF Alcance
  <2>2. CASE x < hub.base
    BY <1>3, <1>8, <1>9, <1>15, <2>1, <2>2 DEF Alcance
  <2>3. CASE \E i \in DOMAIN b : b[i].cursor > x /\ b[i].m = m
    <3>1. PICK i \in DOMAIN b : b[i].cursor > x /\ b[i].m = m
      BY <2>3
    <3>2. b[i].cursor \in Nat
      <4>1. b[i] \in Aviso
        BY <1>3
      <4> QED
        BY <4>1 DEF Aviso
    <3>3. CASE b[i].cursor <= q
      BY <1>8, <1>9, <1>15, <2>1, <3>1, <3>2, <3>3 DEF Alcance
    <3>4. CASE \E j \in DOMAIN r : r[j] = b[i]
      BY <1>9, <1>15, <2>1, <3>1, <3>4 DEF Alcance
    <3> QED
      BY <1>8, <3>3, <3>4
  <2> QED
    BY <1>1, <2>2, <2>3 DEF Alcance, Conectado, b
\* And everybody can have the newcomer.
<1>18. ASSUME NEW m, m = m0, NEW x \in 0..cursor PROVE x \in Alcance(m)'
  <2>1. x \in 0..(cursor + 1) /\ cursor + 1 > x
    BY <1>3
  <2>2. \E i \in DOMAIN r : r[i].cursor > x /\ r[i].m = m
    BY <1>6, <1>8, <1>18, <2>1
  <2> QED
    BY <1>9, <1>15, <2>1, <2>2 DEF Alcance
<1>19. ASSUME NEW c \in Clientes, NEW m \in Feitas, Deve(c, m)'
       PROVE  Garantida(con'[c], fio[c], tela[c].lido, m, Alcance(m)') /\ VoltaGarantida(tela[c], Alcance(m)')
  <2> DEFINE x == tela[c].lido
             f == fio[c]
             F == Alcance(m)'
  <2>1. CASE m # m0
    <3>1. VemDoBanco(m) => VemDoBanco(m)'
      BY <1>1, <1>3, <1>4, <1>9, <1>11, <2>1 DEF VemDoBanco, NuncaEscutou, s
    <3>2. Deve(c, m)
      BY <1>1, <1>19, <3>1, JaDevia
    <3>3. Garantida(con[c], f, x, m, Alcance(m)) /\ Alcance(m) \subseteq F /\ VoltaGarantida(tela[c], F)
      BY <1>17, <3>2 DEF PainelInv, VoltaGarantida
    <3> HIDE DEF x, f, F
    <3>4. Garantida(con[c], f, x, m, F)
      BY <3>3, MaisPerto
    <3>5. Garantida(k1(c), f, x, m, F)
      BY <1>6, <1>13, <3>4, GarantidaEntregue DEF k1
    <3> QED
      BY <1>13, <3>3, <3>4, <3>5 DEF x, f, F
  <2>2. CASE m = m0
    <3>1. Assina(c, m0)
      BY <1>1, <1>19, <2>2 DEF Deve, Atrasada, Interessa, Assina
    <3>2. /\ x \in Nat /\ x <= cursor /\ Dados(f, x, cursor, n) /\ Dados(con[c].repor, x, cursor, n)
          /\ Dados(con[c].canal, x, cursor, n)
          /\ f \in Seq(Aviso) /\ con[c].repor \in Seq(Aviso) /\ con[c].canal \in Seq(Aviso)
      BY <1>1, <1>15, ValoresDe DEF PainelInv, Caminho, n
    <3>3. x \in 0..cursor /\ x \in F /\ 0..cursor \subseteq F
      <4>1. x \in 0..cursor
        BY <1>3, <3>2
      <4>2. 0..cursor \subseteq F
        BY <1>18, <2>2
      <4> QED
        BY <4>1, <4>2
    <3>6. VoltaGarantida(tela[c], F)
      <4>1. /\ tela[c].ultimoId \in Nat /\ tela[c].ultimoId <= cursor
            /\ tela[c].url \in Nat /\ tela[c].url <= cursor
        BY <1>1, <1>15, ValoresDe DEF PainelInv, VoltaCerta
      <4> QED
        BY <1>3, <3>3, <4>1 DEF VoltaGarantida
    <3> HIDE DEF x, f, F
    <3>4. CASE ~Assinante(c)
      BY <1>13, <3>3, <3>4, <3>6, Zenon DEF Garantida, Assinante, Dela, x, f, F
    <3>5. CASE Assinante(c)
      <4> DEFINE k == k1(c)
                 u == Append(con[c].canal, a)
      <4>1. /\ con'[c] = k /\ k.repor = con[c].repor
            /\ k.canal = u \/ k.resync
        BY <1>6, <1>13, <3>1, <3>5, EntregarFaz DEF Dela, k1
      <4>2. Firmes(f, m, F) /\ Firmes(k.repor, m, F) /\ Firmes(con[c].canal, m, F)
        BY <1>3, <3>2, <3>3, <4>1, DadosFirmes
      <4>3. Traz(u, m) /\ Firmes(u, m, F)
        BY <1>6, <2>2, <3>2, <4>2, AcrescimoFirme
      <4> HIDE DEF k, u
      <4>4. Garantida(k, f, x, m, F)
        BY <3>3, <4>1, <4>2, <4>3, Zenon DEF Garantida
      <4> QED
        BY <3>6, <4>1, <4>4 DEF x, f, F
    <3> QED
      BY <3>4, <3>5
  <2> QED
    BY <2>1, <2>2
<1>20. \A c \in Clientes :
          /\ Caminho(con'[c], fio'[c], tela'[c].lido, Teto', Len(mudancas'))
          /\ VoltaCerta(tela'[c], Teto') /\ BuscaCerta(tela'[c], Len(mudancas'))
  <2>1. \A c \in Clientes : BuscaCerta(tela[c], Len(mudancas))
    BY DEF PainelInv
  <2>2. ASSUME NEW c \in Clientes PROVE VoltaCerta(tela[c], cursor + 1)
    <3>1. /\ tela[c].ultimoId \in Nat /\ tela[c].ultimoId <= cursor
          /\ tela[c].url \in Nat /\ tela[c].url <= cursor
      BY <1>1, <1>15, ValoresDe DEF PainelInv, VoltaCerta
    <3> QED
      BY <1>3, <3>1 DEF VoltaCerta
  <2> QED
    BY <1>1, <1>15, <1>16, <2>1, <2>2 DEF n
<1>21. \A c \in Clientes : \A m \in Feitas' : Deve(c, m)' =>
          Garantida(con'[c], fio'[c], tela'[c].lido, m, Alcance(m)') /\ VoltaGarantida(tela'[c], Alcance(m)')
  BY <1>1, <1>19 DEF Feitas
<1> QED
  BY <1>10, <1>12, <1>14, <1>20, <1>21 DEF PainelInv

-----------------------------------------------------------------------------
(* The invariant, and what follows from it.                                *)

LEMMA PainelComeca == InitTempoReal => PainelInv
<1> SUFFICES ASSUME InitTempoReal PROVE PainelInv
  OBVIOUS
<1> DEFINE z == <<>>
           vistos0 == [l \in Linhas |-> 0]
           t == [fonte |-> "viva", ultimoId |-> 0, url |-> 0, lido |-> 0, vistos |-> vistos0, vista |-> 0,
                 agendada |-> FALSE, busca |-> z, pendente |-> FALSE, falha |-> FALSE]
<1>1. /\ mudancas = z /\ escuta = [estado |-> "fechada", viva |-> FALSE, fila |-> z]
      /\ hub = [cursor |-> 1, base |-> 1, buffer |-> z, primeira |-> TRUE]
      /\ con = [c \in Clientes |-> Fora] /\ presas = [c \in Clientes |-> 0]
      /\ fio = [c \in Clientes |-> z] /\ tela = [c \in Clientes |-> t]
      /\ furos = [c \in Clientes |-> {}] /\ dono = DonoNoInicio
  BY DEF InitTempoReal, Aba
<1>2. /\ z \in Seq(Commits) /\ z \in Seq(Aviso) /\ z \in Seq(Nat)
      /\ DOMAIN z = {} /\ Len(z) = 0
  OBVIOUS
<1>3. Fora \in Conexoes /\ Fora.fase = "fora" /\ Fora.repor = <<>> /\ Fora.canal = <<>>
  BY DEF Fora, Conexoes
<1>4. vistos0 \in [Linhas -> Nat]
  OBVIOUS
<1> HIDE DEF vistos0
<1>5. /\ t \in Telas /\ t.lido = 0 /\ t.ultimoId = 0 /\ t.url = 0 /\ t.vista = 0
      /\ t.busca = z /\ ~t.pendente
  BY <1>2, <1>4 DEF Telas, Fontes
<1> HIDE DEF t, z
<1>6. TiposDoPainel
  <2>1. escuta \in Escutas /\ hub \in Hubs
    BY <1>1, <1>2 DEF Escutas, Hubs
  <2>2. con \in [Clientes -> Conexoes] /\ presas \in [Clientes -> Nat] /\ fio \in [Clientes -> Seq(Aviso)]
        /\ furos \in [Clientes -> SUBSET Nat]
    BY <1>1, <1>2, <1>3
  <2>3. tela \in [Clientes -> Telas]
    BY <1>1, <1>5
  <2>4. dono \in [Linhas -> Donatarios]
    BY <1>1, TempoRealAssumption DEF Donatarios
  <2> QED
    BY <1>1, <1>2, <2>1, <2>2, <2>3, <2>4 DEF TiposDoPainel
<1>7. EscutaCerta /\ HubCerto
  BY <1>1, <1>2 DEF EscutaCerta, HubCerto, Guardados, z
<1>8. Teto = 0 /\ Len(mudancas) = 0 /\ Feitas = {}
  BY <1>1, <1>2 DEF Teto, Feitas
<1>9. ASSUME NEW c \in Clientes
      PROVE  /\ Caminho(con[c], fio[c], tela[c].lido, Teto, Len(mudancas))
             /\ VoltaCerta(tela[c], Teto) /\ BuscaCerta(tela[c], Len(mudancas))
  <2>1. /\ con[c] = Fora /\ fio[c] = <<>> /\ tela[c].lido = 0 /\ tela[c].vista = 0
        /\ tela[c].busca = <<>> /\ ~tela[c].pendente /\ tela[c].ultimoId = 0 /\ tela[c].url = 0
    BY <1>1, <1>5 DEF z
  <2> QED
    BY <1>3, <1>8, <2>1, Vazias DEF Caminho, VoltaCerta, BuscaCerta
<1> QED
  BY <1>6, <1>7, <1>8, <1>9 DEF PainelInv

LEMMA PainelSegue == PainelInv /\ [NextTempoReal]_varsTempoReal => PainelInv'
<1> SUFFICES ASSUME PainelInv, [NextTempoReal]_varsTempoReal PROVE PainelInv'
  OBVIOUS
<1>1. CASE \E l \in Linhas, v \in 1..MaxMudancas, d \in Restritos \cup {Ninguem} : Comitar(l, v, d)
  BY <1>1, AoComitar DEF Donatarios
<1>2. CASE Abrir \/ MarcarLacuna \/ Consumir \/ Publicar \/ Morrer \/ Fechar \/ Reiniciar
  BY <1>2, AoAbrir, AoMarcarLacuna, AoConsumir, AoPublicar, AoMorrer, AoFechar, AoReiniciar
<1>3. ASSUME NEW c \in Clientes,
             \/ Assinar(c) \/ Repor(c) \/ LerAviso(c) \/ Bater(c) \/ Cortar(c) \/ Cancelar(c)
             \/ Receber(c) \/ Executar(c) \/ Desenhar(c) \/ Falhar(c) \/ Rejeitar(c)
      PROVE  PainelInv'
  BY <1>3, AoAssinar, AoRepor, AoLerAviso, AoBater, AoCortar, AoCancelar, AoReceber, AoExecutar,
     AoDesenhar, AoFalhar, AoRejeitar
<1>5. ASSUME NEW c \in Clientes,
             Recusar(c) \/ Renovar(c) \/ ReabrirFonte(c) \/ VoltarParaFrente(c)
      PROVE  PainelInv'
  <2>1. CASE Recusar(c)
    BY <2>1, AoMudarFonte DEF Recusar, Fontes
  <2>2. CASE Renovar(c)
    BY <2>2, AoReconectar, AoMudarFonte DEF Renovar, Fontes
  <2>3. CASE ReabrirFonte(c)
    BY <2>3, AoReconectar DEF ReabrirFonte
  <2> QED
    BY <1>5, <2>1, <2>2, <2>3, AoVoltarParaFrente
<1>4. CASE UNCHANGED varsTempoReal
  <2>1. /\ UNCHANGED <<mudancas, escuta, hub, con, fio, tela, furos>>
        /\ UNCHANGED <<dono, presas>>
    BY <1>4 DEF varsTempoReal
  <2>2. TiposDoPainel'
    BY <2>1 DEF PainelInv, TiposDoPainel
  <2>3. EscutaCerta' /\ HubCerto' /\ Teto' = Teto /\ Feitas' = Feitas
    BY <2>1, MesmoBanco DEF PainelInv
  <2>4. \A c \in Clientes, m \in Feitas : Deve(c, m)' => Deve(c, m)
    <3> SUFFICES ASSUME NEW c \in Clientes, NEW m \in Feitas, Deve(c, m)' PROVE Deve(c, m)
      OBVIOUS
    <3>1. VemDoBanco(m)' <=> VemDoBanco(m)
      BY <2>1, MesmoBanco
    <3> QED
      BY <2>1, <3>1, JaDevia
  <2>5. \A m : Alcance(m)' = Alcance(m)
    BY <2>1, MesmoBanco
  <2> QED
    BY <2>1, <2>2, <2>3, <2>4, <2>5 DEF PainelInv
<1> QED
  BY <1>1, <1>2, <1>3, <1>4, <1>5 DEF NextTempoReal

LEMMA SempreNoPainel == SpecTempoReal => []PainelInv
BY PainelComeca, PainelSegue, PTL DEF SpecTempoReal

LEMMA JuntasEmOrdem ==
    ASSUME NEW s \in Seq(Aviso), NEW t \in Seq(Aviso), Crescente(s), Crescente(t), Antes(s, t)
    PROVE  /\ s \o t \in Seq(Aviso) /\ Crescente(s \o t)
           /\ \A x, z, n : Dados(s, x, z, n) /\ Dados(t, x, z, n) => Dados(s \o t, x, z, n)
           /\ \A u : Antes(s, u) /\ Antes(t, u) => Antes(s \o t, u)
<1> DEFINE w == s \o t
           l == Len(s)
<1>1. /\ w \in Seq(Aviso) /\ l \in Nat /\ DOMAIN s = 1..l /\ DOMAIN w \subseteq Nat
      /\ \A i \in DOMAIN w : \/ i \in DOMAIN s /\ w[i] = s[i]
                             \/ i - l \in DOMAIN t /\ w[i] = t[i - l] /\ l < i
      /\ \A i \in DOMAIN s : i <= l
  OBVIOUS
<1> HIDE DEF w, l
<1>2. Crescente(w)
  <2> SUFFICES ASSUME NEW i \in DOMAIN w, NEW j \in DOMAIN w, i < j, ~w[i].resync, ~w[j].resync
               PROVE  w[i].cursor < w[j].cursor
    BY DEF Crescente
  <2>1. i \in Nat /\ j \in Nat
    BY <1>1
  <2>2. CASE j \in DOMAIN s /\ w[j] = s[j]
    <3>1. i \in DOMAIN s /\ w[i] = s[i]
      BY <1>1, <2>1, <2>2
    <3> QED
      BY <2>2, <3>1 DEF Crescente
  <2>3. CASE j - l \in DOMAIN t /\ w[j] = t[j - l] /\ i \in DOMAIN s /\ w[i] = s[i]
    BY <2>3 DEF Antes
  <2>4. CASE j - l \in DOMAIN t /\ w[j] = t[j - l] /\ i - l \in DOMAIN t /\ w[i] = t[i - l]
    <3>1. i - l < j - l
      BY <1>1, <2>1
    <3> QED
      BY <2>4, <3>1 DEF Crescente
  <2> QED
    BY <1>1, <2>2, <2>3, <2>4
<1>3. \A x, z, n : Dados(s, x, z, n) /\ Dados(t, x, z, n) => Dados(w, x, z, n)
  BY <1>1 DEF Dados
<1>4. \A u : Antes(s, u) /\ Antes(t, u) => Antes(w, u)
  BY <1>1 DEF Antes
<1> QED
  BY <1>1, <1>2, <1>3, <1>4 DEF w

LEMMA PainelEmOrdem == PainelInv => CursoresEmOrdem
<1> SUFFICES ASSUME PainelInv, NEW c \in Clientes
             PROVE  LET caminho == fio[c] \o con[c].repor \o con[c].canal IN
                    \A i \in DOMAIN caminho : ~caminho[i].resync =>
                      /\ caminho[i].cursor > tela[c].lido
                      /\ \A j \in 1..(i - 1) : ~caminho[j].resync => caminho[j].cursor < caminho[i].cursor
  BY DEF CursoresEmOrdem
<1> DEFINE f == fio[c]
           r == con[c].repor
           k == con[c].canal
           x == tela[c].lido
           n == Len(mudancas)
           z == Teto
<1>1. /\ TiposDoPainel /\ f \in Seq(Aviso) /\ r \in Seq(Aviso) /\ k \in Seq(Aviso) /\ x \in Nat
      /\ f = <<>> \/ Len(f) = 1
      /\ Dados(f, x, z, n) /\ Dados(r, x, z, n) /\ Dados(k, x, z, n)
      /\ Crescente(r) /\ Crescente(k) /\ Antes(f, r) /\ Antes(f, k) /\ Antes(r, k)
  BY ValoresDe DEF PainelInv, Caminho
<1> HIDE DEF f, r, k, x, n, z
<1>2. Crescente(f)
  <2>1. \A i, j \in DOMAIN f : ~(i < j)
    BY <1>1
  <2> QED
    BY <2>1 DEF Crescente
<1> DEFINE g == f \o r
           caminho == g \o k
<1>3. g \in Seq(Aviso) /\ Crescente(g) /\ Dados(g, x, z, n) /\ Antes(g, k)
  BY <1>1, <1>2, JuntasEmOrdem
<1> HIDE DEF g
<1>4. caminho \in Seq(Aviso) /\ Crescente(caminho) /\ Dados(caminho, x, z, n)
  BY <1>1, <1>3, JuntasEmOrdem
<1> HIDE DEF caminho
<1>5. ASSUME NEW i \in DOMAIN caminho, ~caminho[i].resync
      PROVE  /\ caminho[i].cursor > x
             /\ \A j \in 1..(i - 1) : ~caminho[j].resync => caminho[j].cursor < caminho[i].cursor
  <2>1. x < caminho[i].cursor
    BY <1>4, <1>5 DEF Dados
  <2>2. caminho[i].cursor \in Nat
    <3>1. caminho[i] \in Aviso
      BY <1>4
    <3> QED
      BY <3>1 DEF Aviso
  <2>3. \A j \in 1..(i - 1) : j \in DOMAIN caminho /\ j < i
    BY <1>4
  <2> QED
    BY <1>1, <1>4, <1>5, <2>1, <2>2, <2>3 DEF Crescente
<1> QED
  BY <1>5 DEF caminho, g, f, r, k, x

\* A cursor from which m is still to be had brings it, or is answered with a resync.
LEMMA AlcanceTraz ==
    ASSUME TiposDoPainel, HubCerto, NEW c \in Clientes, NEW m \in Feitas, Interessa(c, m),
           NEW x \in Nat, x > 0, x \in Alcance(m)
    PROVE  VemDe(c, m, x)
<1>1. CASE SemAlcance(x)
  BY <1>1 DEF VemDe
<1>2. CASE ~SemAlcance(x)
  <2>1. \E i \in DOMAIN hub.buffer : hub.buffer[i].cursor > x /\ hub.buffer[i].m = m
    BY <1>2 DEF Alcance, SemAlcance
  <2>2. m \in Nat /\ Assina(c, m)
    BY DEF Feitas, Interessa
  <2> QED
    BY <2>1, <2>2, ReposicaoFaz DEF VemDe
<1> QED
  BY <1>1, <1>2

LEMMA PainelSemPerda == PainelInv => PerdaSoPelosFuros
<1> SUFFICES ASSUME PainelInv, NEW c \in Clientes, NEW m \in Feitas, Atrasada(c, m),
                    ~Avisada(c, m), m \notin furos[c], Assinante(c) \/ tela[c].ultimoId # 0
             PROVE  FALSE
  BY DEF PerdaSoPelosFuros
<1>1. ~VemDaBusca(c, m) /\ ~tela[c].falha /\ ~VemDoBanco(m)
      /\ ~(IF Assinante(c) THEN VemDaConexao(c, m) ELSE VemNaVolta(c, m))
  BY DEF Avisada
<1>2. Deve(c, m)
  BY <1>1 DEF Deve, Desculpada
<1>3. Garantida(con[c], fio[c], tela[c].lido, m, Alcance(m)) /\ VoltaGarantida(tela[c], Alcance(m))
  BY <1>2 DEF PainelInv
<1>4. CASE Assinante(c)
  BY <1>1, <1>3, <1>4, Zenon DEF Garantida, VemDaConexao, Assinante
<1>5. CASE ~Assinante(c)
  <2> DEFINE u == tela[c].ultimoId
             x == Apresenta(c)
  <2>1. u \in Nat /\ tela[c].url \in Nat /\ u > 0 /\ TiposDoPainel /\ HubCerto
    BY <1>5, ValoresDe DEF PainelInv
  <2>2. x \in Nat /\ x > 0 /\ u \in Alcance(m) /\ x \in Alcance(m)
    BY <1>3, <2>1 DEF Apresenta, VoltaGarantida
  <2>3. Interessa(c, m)
    BY DEF Atrasada
  <2> HIDE DEF u, x
  <2>4. VemDe(c, m, u) /\ VemDe(c, m, x)
    BY <2>1, <2>2, <2>3, AlcanceTraz
  <2> QED
    BY <1>1, <1>5, <2>4 DEF VemNaVolta, u, x
<1> QED
  BY <1>4, <1>5

\* Whatever the number of tabs, rows, commits, changes of owner, drops, cuts, refusals and
\* restarts, and whatever the window and the channel hold: what is still to be read comes in
\* order, each notice once on one connection, after the cursor that connection began at; and
\* whoever is behind will be told, or told to fetch, but for the five holes (hub.go Assinar,
\* reposicaoDe, publicar, marcarLacuna; handler.go laco; escopo.go PodeEntregar; proxy.ts;
\* eventos.ts; atualizacao.ts executar).
THEOREM OFioEhHonesto == SpecTempoReal => []FioHonesto
<1>1. PainelInv => FioHonesto
  BY PainelEmOrdem, PainelSemPerda DEF FioHonesto
<1> QED
  BY <1>1, SempreNoPainel, PTL
=============================================================================
