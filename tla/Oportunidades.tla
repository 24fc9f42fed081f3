----------------------------- MODULE Oportunidades -----------------------------
(***************************************************************************)
(* The sales funnel (modules/crm) with the quotes it wins by (modules/     *)
(* disponibilidade): a lead becomes a card, the card moves over stages,    *)
(* quotes are issued for it and one of them, as it was issued, becomes the *)
(* reservation when the card is won.                                       *)
(*                                                                         *)
(* Each request is a READ COMMITTED transaction.  A statement that waits   *)
(* for a row lock keeps the snapshot it began with: when the lock comes,   *)
(* PostgreSQL reads again only the locked row, so what it joined to that   *)
(* row or selected beside it is as old as the wait.  `pedido' keeps what   *)
(* the statement saw.  All quotes are for the same dates of the same       *)
(* product.  A request may be refused, or fall, at any point (Cair).            *)
(***************************************************************************)
EXTENDS Naturals, FiniteSets

CONSTANTS Leads,        \* rows of crm_leads
          Cards,        \* rows of crm_opportunities
          Orcamentos,   \* rows of quotes
          Contatos,     \* rows of contacts
          Etapas,       \* stages of the funnel that are not terminal
          ComTarefa,    \* of these, the ones with an automatic task
          Pedidos,      \* requests in course at the same time
          MaxTabela,    \* bound: versions of the rate table published
          Nada          \* NULL

ASSUME OportunidadesAssumption ==
    /\ MaxTabela \in Nat \ {0}
    /\ ComTarefa \subseteq Etapas /\ {"ganho", "perdido", "ausente"} \cap Etapas = {}
    /\ Nada \notin Leads \cup Cards \cup Orcamentos \cup Contatos \cup Etapas \cup Pedidos

VARIABLES tabela,      \* the rate table in force
          lead, card, orcamento,
          reserva,     \* the reservation won by each quote (crm-win-quote-<id>)
          ocupada,     \* the dates are sold
          naEspera,    \* leads changed on a view of their cards older than their lock
          trocados,    \* leads whose converted card an edit took away
          pedido

vars == <<tabela, lead, card, orcamento, reserva, ocupada, naEspera, trocados, pedido>>
negocio == <<tabela, lead, card, orcamento, reserva, ocupada, naEspera, trocados>>

CardAusente == [etapa |-> "ausente", contato |-> Nada, lead |-> Nada, origem |-> Nada,
                valor |-> 0, partido |-> FALSE, tarefa |-> "nenhuma"]
SemOrcamento == [estado |-> "ausente", card |-> Nada, contato |-> Nada, total |-> 0]
OrcamentoGasto == [SemOrcamento EXCEPT !.estado = "gasto"]
SemReserva == [total |-> 0, contato |-> Nada]
Livre == [passo |-> "livre", card |-> Nada, lead |-> Nada, orcamento |-> Nada, de |-> Nada,
          semCard |-> FALSE, total |-> 0, contato |-> Nada, travas |-> {}]

\* No card yet; some leads are gone and some quotes are spent on other sales.
Init ==
    /\ tabela = 1
    /\ lead \in [Leads -> {"novo", "apagado"}]
    /\ card = [c \in Cards |-> CardAusente]
    /\ orcamento \in [Orcamentos -> {SemOrcamento, OrcamentoGasto}]
    /\ reserva = [q \in Orcamentos |-> SemReserva]
    /\ ocupada = FALSE
    /\ naEspera = {} /\ trocados = {}
    /\ pedido = [p \in Pedidos |-> Livre]

----------------------------------------------------------------------------
(* Rows and their locks.                                                   *)

Existe(c) == card[c].etapa # "ausente"
\* A new row's id was never used: nobody is after it.
Nova(c) == ~Existe(c) /\ \A p \in Pedidos : pedido[p].card # c
Aberta(c) == card[c].etapa \in Etapas
\* The sub-select of TravarLead: no card of the lead.
SemOportunidade(l) == \A c \in Cards : card[c].lead # l

Trava(tipo, x) == {<<tipo, x, "exclusiva">>}
\* What a foreign key takes of the row it points to.
Chave(tipo, x) == IF x = Nada THEN {} ELSE {<<tipo, x, "chave">>}

Choca(a, b) == a[1] = b[1] /\ a[2] = b[2] /\ "exclusiva" \in {a[3], b[3]}
Concedidas(p, travas) ==
    \A r \in Pedidos \ {p} : \A a \in travas : \A b \in pedido[r].travas : ~Choca(a, b)

Seguir(p, travas, novo) ==
    pedido' = [pedido EXCEPT ![p] = [novo EXCEPT !.travas = @ \cup travas]]
Terminar(p) == pedido' = [pedido EXCEPT ![p] = Livre]

Comecar(p, travas, novo, espera) ==
    /\ pedido[p] = Livre
    /\ IF Concedidas(p, travas) THEN Seguir(p, travas, novo)
       ELSE Seguir(p, {}, [novo EXCEPT !.passo = espera])
    /\ UNCHANGED negocio

\* Every action on a card begins with its row, FOR UPDATE, joined to its stage; a
\* closed card refuses them all.
TravarOportunidade(p, c) ==
    /\ Aberta(c)
    /\ Comecar(p, Trava("card", c),
               [Livre EXCEPT !.passo = "card", !.card = c, !.de = card[c].etapa], "esperaCard")

\* Mutant: the wait is not followed by a second look at the stage.
LinhaSemReler(r) == TRUE

\* After a wait the row is read again, and must still join the stage first seen.
Linha(r) == card[r.card].etapa = r.de

ObterOportunidade(p) ==
    /\ pedido[p].passo = "esperaCard"
    /\ LET r == pedido[p] IN
       /\ Concedidas(p, Trava("card", r.card))
       /\ IF Linha(r) THEN Seguir(p, Trava("card", r.card), [r EXCEPT !.passo = "card"])
          ELSE Terminar(p)
    /\ UNCHANGED negocio

\* The lead FOR UPDATE, with the first of its cards beside it.
TravarLead(p, l) ==
    /\ lead[l] # "apagado"
    /\ Comecar(p, Trava("lead", l),
               [Livre EXCEPT !.passo = "lead", !.lead = l, !.semCard = SemOportunidade(l)],
               "esperaLead")

ObterLead(p) ==
    /\ pedido[p].passo = "esperaLead"
    /\ LET r == pedido[p] IN
       /\ Concedidas(p, Trava("lead", r.lead))
       /\ IF lead[r.lead] # "apagado"
          THEN Seguir(p, Trava("lead", r.lead), [r EXCEPT !.passo = "lead"])
          ELSE Terminar(p)
    /\ UNCHANGED negocio

----------------------------------------------------------------------------
(* A card is created, by hand or from a lead.                              *)

\* The movement is recorded with the stage.  `partido' (history): the movement did
\* not leave from where the one before had arrived.
RegistrarMovimento(k, de, e) == [k EXCEPT !.etapa = e, !.partido = @ \/ de # k.etapa]

\* The automatic task of a stage: ON CONFLICT DO NOTHING where one is pending.
CriarTarefaAutomatica(k, e) ==
    IF e \in ComTarefa /\ k.tarefa = "nenhuma" THEN [k EXCEPT !.tarefa = "pendente"] ELSE k

EntrarNaEtapa(k, de, e) == CriarTarefaAutomatica(RegistrarMovimento(k, de, e), e)

\* A terminal stage has no closing date here, and the table refuses it.
CriarOportunidade(c, k, l, origem) ==
    \E e \in Etapas :
        card' = [card EXCEPT ![c] = CriarTarefaAutomatica(
           [CardAusente EXCEPT !.etapa = e, !.contato = k, !.lead = l, !.origem = origem], e)]

\* POST /crm/opportunities: the INSERT takes the key of the lead...
InserirOportunidade(p, l) ==
    /\ pedido[p] = Livre
    /\ l \in Leads => lead[l] # "apagado"
    /\ Concedidas(p, Chave("lead", l))
    /\ Seguir(p, Chave("lead", l), [Livre EXCEPT !.passo = "criando", !.lead = l])
    /\ UNCHANGED negocio

\* ... and the card appears at COMMIT.
Criar(p, c, k) ==
    /\ pedido[p].passo = "criando" /\ Nova(c)
    /\ CriarOportunidade(c, k, pedido[p].lead, Nada)
    /\ Terminar(p)
    /\ UNCHANGED <<tabela, lead, orcamento, reserva, ocupada, naEspera, trocados>>

\* Mutant: a lead that already has its card is converted again.
SemConferirConversao(r) == TRUE

\* The refusal of Converter and ExcluirLead: by the card the statement saw.
SemCardNaLeitura(r) == r.semCard

\* History: the request saw another set of cards than the one there is now.
MarcarEspera(r) == naEspera' = IF r.semCard = SemOportunidade(r.lead) THEN naEspera
                               ELSE naEspera \cup {r.lead}

Converter(p, c, k) ==
    /\ pedido[p].passo = "lead" /\ Nova(c)
    /\ SemCardNaLeitura(pedido[p])
    /\ LET l == pedido[p].lead IN
       /\ CriarOportunidade(c, k, l, l)
       /\ lead' = [lead EXCEPT ![l] = "convertido"]
       /\ MarcarEspera(pedido[p])
    /\ Terminar(p)
    /\ UNCHANGED <<tabela, orcamento, reserva, ocupada, trocados>>

\* The cards of a deleted lead stay, without it (ON DELETE SET NULL): their rows are
\* written too, and waited for.
ExcluirLead(p) ==
    /\ pedido[p].passo = "lead"
    /\ SemCardNaLeitura(pedido[p])
    /\ LET l == pedido[p].lead
           seus == {c \in Cards : card[c].lead = l}
       IN  /\ Concedidas(p, UNION {Trava("card", c) : c \in seus})
           /\ lead' = [lead EXCEPT ![l] = "apagado"]
           /\ card' = [c \in Cards |-> IF c \in seus THEN [card[c] EXCEPT !.lead = Nada] ELSE card[c]]
           /\ MarcarEspera(pedido[p])
    /\ Terminar(p)
    /\ UNCHANGED <<tabela, orcamento, reserva, ocupada, trocados>>

----------------------------------------------------------------------------
(* The open card.                                                          *)

MudarEtapa(p, e) ==
    /\ pedido[p].passo = "card" /\ e # pedido[p].de
    /\ LET r == pedido[p] IN
       card' = [card EXCEPT ![r.card] = EntrarNaEtapa(@, r.de, e)]
    /\ Terminar(p)
    /\ UNCHANGED <<tabela, lead, orcamento, reserva, ocupada, naEspera, trocados>>

\* PATCH and PUT may name another lead, or none: the UPDATE takes the new lead's key...
TrocarLead(p, l) ==
    /\ pedido[p].passo = "card"
    /\ l # card[pedido[p].card].lead
    /\ l \in Leads => lead[l] # "apagado"
    /\ Concedidas(p, Chave("lead", l))
    /\ Seguir(p, Chave("lead", l), [pedido[p] EXCEPT !.passo = "trocando", !.lead = l])
    /\ UNCHANGED negocio

\* ... and at COMMIT the card has its contact, its lead and an amount somebody typed.
AtualizarOportunidade(p, k) ==
    /\ pedido[p].passo \in {"card", "trocando"}
    /\ LET r == pedido[p]
           velho == card[r.card].lead
           novo == IF r.passo = "card" THEN velho ELSE r.lead
       IN  /\ card' = [card EXCEPT ![r.card] = [@ EXCEPT !.contato = k, !.lead = novo, !.valor = 0]]
           /\ trocados' = IF novo = velho THEN trocados
                          ELSE trocados \cup ({velho} \cap {card[r.card].origem} \cap Leads)
    /\ Terminar(p)
    /\ UNCHANGED <<tabela, lead, orcamento, reserva, ocupada, naEspera>>

\* The quotes of a deleted card become loose (ON DELETE SET NULL).
ExcluirOportunidade(p) ==
    /\ pedido[p].passo = "card"
    /\ LET c == pedido[p].card
           soltos == {q \in Orcamentos : orcamento[q].card = c}
       IN  /\ Concedidas(p, UNION {Trava("orcamento", q) : q \in soltos})
           /\ card' = [card EXCEPT ![c] = CardAusente]
           /\ orcamento' = [q \in Orcamentos |->
                 IF q \in soltos THEN [orcamento[q] EXCEPT !.card = Nada] ELSE orcamento[q]]
    /\ Terminar(p)
    /\ UNCHANGED <<tabela, lead, reserva, ocupada, naEspera, trocados>>

CancelarTarefasAutomaticas(k) ==
    [k EXCEPT !.tarefa = IF @ = "pendente" THEN "cancelada" ELSE @]
ConcluirTarefasAutomaticas(k) == [k EXCEPT !.tarefa = "nenhuma"]

\* Stage, status and date in one UPDATE.  Of a lost card only the tasks are read again.
Perder(p) ==
    /\ pedido[p].passo = "card"
    /\ LET r == pedido[p] IN
       card' = [card EXCEPT ![r.card] = RegistrarMovimento(
             CancelarTarefasAutomaticas([@ EXCEPT !.valor = 0, !.contato = Nada]), r.de, "perdido")]
    /\ Terminar(p)
    /\ UNCHANGED <<tabela, lead, orcamento, reserva, ocupada, naEspera, trocados>>

----------------------------------------------------------------------------
(* Quotes.                                                                 *)

\* POST /quotes with persist: the card is read without a lock, the price comes from
\* the table in force, and the contact is the card's.  Bound: a quote for no card
\* names no contact; one that lost its card may name one.
Emitir(p, c) ==
    /\ pedido[p] = Livre
    /\ c \in Cards => Existe(c)
    /\ Seguir(p, {}, [Livre EXCEPT !.passo = "emitindo", !.card = c, !.total = tabela,
                                   !.contato = IF c = Nada THEN Nada ELSE card[c].contato])
    /\ UNCHANGED negocio

\* The amount of the card, where the card is still open.
AtualizarValorEsperado(k, total) == IF k.etapa \in Etapas THEN [k EXCEPT !.valor = total] ELSE k

\* INSERT, whose key of the card waits for whoever acts on it, the card's amount, COMMIT.
InserirOrcamento(p, q) ==
    /\ pedido[p].passo = "emitindo" /\ orcamento[q].estado = "ausente"
    /\ LET r == pedido[p] IN
       /\ Concedidas(p, Chave("card", r.card))
       /\ r.card \in Cards => Existe(r.card)
       /\ orcamento' = [orcamento EXCEPT ![q] =
             [estado |-> "aberto", card |-> r.card, contato |-> r.contato, total |-> r.total]]
       /\ card' = [c \in Cards |-> IF c = r.card THEN AtualizarValorEsperado(card[c], r.total)
                                   ELSE card[c]]
    /\ Terminar(p)
    /\ UNCHANGED <<tabela, lead, reserva, ocupada, naEspera, trocados>>

----------------------------------------------------------------------------
(* Winning.                                                                *)

\* The quote chosen is not sold, is of this card or of none, of this contact or of
\* none.  It is read before anything of it is locked; an expired one is one refusal
\* more (Cair).
OrcamentoParaGanhar(p, q) ==
    /\ pedido[p].passo = "card"
    /\ LET r == pedido[p]
           o == orcamento[q]
       IN  /\ o.estado = "aberto"
           /\ o.card \in {Nada, r.card}
           /\ o.contato \in {Nada, card[r.card].contato}
           /\ Seguir(p, {}, [r EXCEPT !.passo = "orcamento", !.orcamento = q, !.total = o.total,
                                      !.contato = card[r.card].contato])
    /\ UNCHANGED negocio

\* A loose quote is linked to the card, which waits for who is selling it; the
\* internal key of the sale is the quote's, so the second sale of a quote waits for
\* the first and gets its reservation; another sale of the dates is waited for, and
\* refuses.
EmitirDoOrcamento(p) ==
    /\ pedido[p].passo = "orcamento"
    /\ LET r == pedido[p]
           travas == Trava("orcamento", r.orcamento) \cup Trava("datas", Nada)
           repete == reserva[r.orcamento] # SemReserva
       IN  /\ Concedidas(p, travas)
           /\ IF repete \/ ~ocupada THEN Seguir(p, travas, [r EXCEPT !.passo = "vendido"])
              ELSE Terminar(p)
    /\ UNCHANGED negocio

\* Mutant: the UPDATE does not ask for a quote without a reservation.
ConvertidoDeNovo(q) == FALSE

\* WHERE reservation_id IS NULL touches no row.
MarcarConvertido(q) == orcamento[q].estado = "convertido"

\* The reservation copies the quote, cent by cent; MarcarOrcamentoConvertido, the amount, the closing, COMMIT.
Ganhar(p) ==
    /\ pedido[p].passo = "vendido"
    /\ LET r == pedido[p]
           q == r.orcamento
       IN  IF MarcarConvertido(q) THEN UNCHANGED negocio
           ELSE /\ reserva' = IF reserva[q] = SemReserva
                              THEN [reserva EXCEPT ![q] = [total |-> r.total,
                                                           contato |-> r.contato]]
                              ELSE reserva
                /\ orcamento' = [orcamento EXCEPT ![q].estado = "convertido", ![q].card = r.card]
                /\ card' = [card EXCEPT ![r.card] =
                      RegistrarMovimento(
                      ConcluirTarefasAutomaticas([@ EXCEPT !.valor = r.total]), r.de, "ganho")]
                /\ ocupada' = TRUE
                /\ UNCHANGED <<tabela, lead, naEspera, trocados>>
    /\ Terminar(p)

----------------------------------------------------------------------------
(* Around the funnel.                                                      *)

\* A pending task is done, deleted or called off by hand; of the ones called off, the
\* one of a lost card is followed, which may be reopened.
Concluir(c) ==
    /\ card[c].tarefa \in {"pendente", "reaberta"}
    /\ card' = [card EXCEPT ![c].tarefa = "nenhuma"]
    /\ UNCHANGED <<tabela, lead, orcamento, reserva, ocupada, naEspera, trocados, pedido>>

Reabrir(c) ==
    /\ card[c].tarefa = "cancelada"
    /\ card' = [card EXCEPT ![c].tarefa = "reaberta"]
    /\ UNCHANGED <<tabela, lead, orcamento, reserva, ocupada, naEspera, trocados, pedido>>

PublicarTabela ==
    /\ tabela < MaxTabela
    /\ tabela' = tabela + 1
    /\ UNCHANGED <<lead, card, orcamento, reserva, ocupada, naEspera, trocados, pedido>>

\* The dates are sold by another channel, or the reservation there is cancelled.
MudarCalendario ==
    /\ \A p \in Pedidos : Trava("datas", Nada) \cap pedido[p].travas = {}
    /\ ocupada' = ~ocupada
    /\ UNCHANGED <<tabela, lead, card, orcamento, reserva, naEspera, trocados, pedido>>

Cair(p) == pedido[p] # Livre /\ Terminar(p) /\ UNCHANGED negocio

Next ==
    \/ \E p \in Pedidos :
         \/ \E c \in Cards : \/ TravarOportunidade(p, c)
                             \/ \E k \in Contatos : Criar(p, c, k) \/ Converter(p, c, k)
         \/ \E l \in Leads : TravarLead(p, l)
         \/ \E l \in Leads \cup {Nada} : InserirOportunidade(p, l) \/ TrocarLead(p, l)
         \/ \E c \in Cards \cup {Nada} : Emitir(p, c)
         \/ \E e \in Etapas : MudarEtapa(p, e)
         \/ \E k \in Contatos : AtualizarOportunidade(p, k)
         \/ \E q \in Orcamentos : InserirOrcamento(p, q) \/ OrcamentoParaGanhar(p, q)
         \/ ObterOportunidade(p) \/ ObterLead(p) \/ ExcluirLead(p)
         \/ ExcluirOportunidade(p) \/ Perder(p) \/ EmitirDoOrcamento(p) \/ Ganhar(p) \/ Cair(p)
    \/ \E c \in Cards : Concluir(c) \/ Reabrir(c)
    \/ PublicarTabela \/ MudarCalendario

Spec == Init /\ [][Next]_vars

----------------------------------------------------------------------------
(* Properties.                                                             *)

\* A won card and a sold quote are one sale: each won card has exactly one quote,
\* sold to it; each sold quote has its won card, and the reservation, the quote and
\* the card agree on price and contact whatever is published, typed, issued or tried
\* twice (service_oportunidades.go, ganhar; repository_orcamentos.go, MarcarConvertido).
VendaDoCard ==
    /\ \A c \in Cards : card[c].etapa = "ganho" =>
          Cardinality({q \in Orcamentos : orcamento[q].estado = "convertido"
                                          /\ orcamento[q].card = c}) = 1
    /\ \A q \in Orcamentos : orcamento[q].estado = "convertido" =>
          /\ card[orcamento[q].card].etapa = "ganho"
          /\ orcamento[q].total = reserva[q].total
          /\ card[orcamento[q].card].valor = reserva[q].total
          /\ card[orcamento[q].card].contato = reserva[q].contato
          /\ orcamento[q].contato \in {Nada, reserva[q].contato}

\* A lead gives one card, and the card keeps its lead, but in two ways: a second
\* request waited for the lead's row and decided on the cards seen before the wait, or
\* an edit took the card away from the lead, which can then be converted again
\* (service_leads.go, Converter and ExcluirLead; repository_leads.go, TravarLead;
\* service_oportunidades.go, AtualizarOportunidade).
OrigemSoSePerdeAssim ==
    \A c \in Cards : card[c].origem \notin naEspera \cup trocados \cup {Nada} =>
        /\ card[c].lead = card[c].origem
        /\ \A d \in Cards \ {c} : card[d].origem # card[c].origem

\* The recorded movements of a card are a chain: each one leaves from where the one
\* before arrived, and the last one arrived where the card is
\* (repository_oportunidades.go, TravarOportunidade; service_oportunidades.go, MudarEtapa).
HistoricoEncadeado == \A c \in Cards : ~card[c].partido

\* Nothing automatic is pending on a closed card but a task somebody reopened
\* (service_oportunidades.go, ganhar and Perder; crm_activities_auto_idx).
FechadoNaoCobra ==
    \A c \in Cards : Existe(c) /\ ~Aberta(c) => card[c].tarefa # "pendente"

\* The story of a card can be told from its rows: each movement begins where the one
\* before ended, and nothing reminds of a card that ended (repository_oportunidades.go
\* TravarOportunidade, service_oportunidades.go Mover, ganhar, Perder).
CardContaAHistoria == HistoricoEncadeado /\ FechadoNaoCobra
=============================================================================
