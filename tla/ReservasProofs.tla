--------------------------- MODULE ReservasProofs ---------------------------
(***************************************************************************)
(* Theorems about Reservas for every set of units, products, prices and    *)
(* tiers, any wait for a lock and any bound: no night is promised twice;   *)
(* the tables reservations, stay_blocks and reservation_units, which every *)
(* handler moves one by one, never tell different stories; whoever rented  *)
(* the whole house has all of it, alone; a stay leaves its trace; the      *)
(* money closes; and all of it implements Exclusividade.                   *)
(***************************************************************************)
EXTENDS RefinaExclusividade, FiniteSetTheorems, WellFoundedInduction, TLAPS

-----------------------------------------------------------------------------
(* Typing of the helpers.                                                  *)

LEMMA BlocoTipado ==
    ASSUME NEW r \in Ids, NEW u \in Unidades, NEW p \in Pedido,
           NEW e \in Vivos, NEW exp \in Prazo
    PROVE  BlocoDeReserva(r, u, p, StatusDoBlocoPara(e), exp) \in Bloco
  BY DEF BlocoDeReserva, StatusDoBlocoPara, Vivos, Bloco, Pedido

\* Moving blocks keeps the rows' domains.
LEMMA MoverTipado ==
    ASSUME NEW bs \in SUBSET Bloco, NEW r, NEW de,
           NEW para \in {"confirmed", "cancelled", "completed"}
    PROVE  MoverBlocosDaReserva(bs, r, de, para) \subseteq Bloco
  BY DEF MoverBlocosDaReserva, Bloco, Prazo, SemPrazo

LEMMA AlocacaoTipada ==
    ASSUME NEW bs, NEW pedido \in Pedido, NEW us \in Alocacoes(bs, pedido)
    PROVE  us \subseteq Unidades /\ us # {}
  BY ConstantesA DEF Alocacoes, Pedido

\* Whatever the number of days, the refunded percentage is one of the tiers'.
LEMMA PercentualTipado ==
    ASSUME NEW dias \in Int
    PROVE  Percentual(dias) \in 0..100
  <1> DEFINE Faixa == [min : Int, max : Int, pct : 0..100]
  <1>0. \A i \in DOMAIN Faixas : Faixas[i] \in Faixa
    <2> HIDE DEF Faixa
    <2>1. Faixas \in Seq(Faixa)
      BY FaixasA DEF Faixa
    <2>2. QED BY <2>1
  <1>1. \A i \in DOMAIN Faixas : Faixas[i].pct \in 0..100
    BY <1>0
  <1>2. Decisivas(dias) \subseteq DOMAIN Faixas
    BY DEF Decisivas, Aplicaveis
  <1>3. Decisivas(dias) # {} => (CHOOSE i \in Decisivas(dias) : TRUE) \in DOMAIN Faixas
    BY <1>2
  <1>4. QED BY <1>1, <1>3 DEF Percentual

LEMMA CancelamentoTipado ==
    ASSUME NEW c \in Conta, NEW dias \in Int
    PROVE  CalcularCancelamento(c, dias) \in Conta
  <1>1. Menor(c.pago, c.total) \in Nat
    BY DEF Conta, Menor
  <1>2. Devolucao(Menor(c.pago, c.total), dias) \in Int
    <2> DEFINE base == Menor(c.pago, c.total)
    <2>1. Percentual(dias) \in Int
      BY PercentualTipado
    <2>2. base * Percentual(dias) + 50 \in Int
      BY <1>1, <2>1
    <2>3. QED BY <2>2 DEF Devolucao
  <1> DEFINE base == Menor(c.pago, c.total)
             devolvido == Devolucao(base, dias)
             aberto == c.credito + (c.pago - base)
  <1>3. base - devolvido \in Int /\ aberto \in Int
    BY <1>1, <1>2 DEF Conta
  <1> HIDE DEF base, devolvido, aberto
  <1>4. [c EXCEPT !.devolvido = devolvido, !.retido = base - devolvido, !.aberto = aberto]
            \in Conta
    BY <1>2, <1>3, Zenon DEF Conta, devolvido, base
  <1>5. QED BY <1>4 DEF CalcularCancelamento, devolvido, base, aberto

-----------------------------------------------------------------------------
(* TypeOK is inductive.                                                    *)

LEMMA TipoInicial == Init => TypeOK
  <1> SUFFICES ASSUME Init PROVE TypeOK
    OBVIOUS
  <1>1. SemEstadia \in Pedido
    <2>1. PICK p \in Produtos : TRUE
      BY ConstantesA
    <2>2. [produto |-> p, de |-> 0, ate |-> Horizonte] \in Pedido
      BY <2>1, ConstantesA DEF Pedido, Dias
    <2>3. QED BY <2>2 DEF SemEstadia
  <1>2. ContaVazia \in Conta /\ SemAgenda \in Agenda
    BY DEF ContaVazia, Conta, SemAgenda, Agenda, EstadoDoEvento
  <1>3. 0 \in Dias /\ SemPrazo \in Prazo /\ "inexistente" \in Estados
    BY ConstantesA DEF Dias, Prazo, Estados, Transicoes
  <1>4. QED BY <1>1, <1>2, <1>3 DEF Init, TypeOK

\* Issuing a sale on well-typed rows leaves well-typed rows.
LEMMA EmitirTipado ==
    ASSUME TypeOK,
           NEW base, NEW t \in Inicios, NEW r \in Ids, NEW pedido \in Pedido,
           NEW estado \in {"hold", "confirmed"},
           NEW origem \in Ids \cup {Nenhuma}, NEW saldo \in Nat,
           base.status \in [Ids -> Estados], base.prazo \in [Ids -> Prazo],
           base.agenda \in [Ids -> Agenda], base.blocos \subseteq Bloco,
           Emitir(base, t, r, pedido, estado, origem, saldo)
    PROVE  TypeOK'
  <1> USE DEF TypeOK
  <1>1. PICK us \in Alocacoes(base.blocos, pedido), total \in Totais :
          LET expira   == IF estado = "hold" THEN t + HoldHoras ELSE SemPrazo
              aplicado == Menor(saldo, total)
          IN  /\ status' = [base.status EXCEPT ![r] = estado]
              /\ prazo' = [base.prazo EXCEPT ![r] = expira]
              /\ blocos' = base.blocos \cup
                     {BlocoDeReserva(r, u, pedido, StatusDoBlocoPara(estado), expira) : u \in us}
              /\ unidadesDe' = [unidadesDe EXCEPT ![r] = us]
              /\ conta' = [conta EXCEPT ![r] = [ContaVazia EXCEPT
                     !.total   = total,
                     !.pago    = aplicado,
                     !.herdado = (saldo > 0),
                     !.credito = saldo - aplicado]]
    BY DEF Emitir
  <1> DEFINE expira == IF estado = "hold" THEN t + HoldHoras ELSE SemPrazo
             aplicado == Menor(saldo, total)
  <1>2. expira \in Prazo
    BY ConstantesA DEF Emitir, CabeNoRelogio, Inicios, Dias, Prazo
  <1>3. us \subseteq Unidades
    BY AlocacaoTipada
  <1>4. status' \in [Ids -> Estados] /\ prazo' \in [Ids -> Prazo]
    BY <1>1, <1>2 DEF Estados, Transicoes
  <1>5. blocos' \subseteq Bloco
    <2>1. \A u \in us : BlocoDeReserva(r, u, pedido, StatusDoBlocoPara(estado), expira) \in Bloco
      BY <1>2, <1>3, BlocoTipado DEF Vivos
    <2>2. QED BY <1>1, <2>1
  <1>6. conta' \in [Ids -> Conta]
    <2> DEFINE resto == saldo - aplicado
    <2>1. total \in Nat
      BY ConstantesA
    <2>2. aplicado \in Nat /\ resto \in Nat
      BY <2>1 DEF Menor
    <2>3. (saldo > 0) \in BOOLEAN
      OBVIOUS
    <2> HIDE DEF aplicado, resto
    <2>4. [ContaVazia EXCEPT !.total = total, !.pago = aplicado,
                             !.herdado = (saldo > 0), !.credito = resto] \in Conta
      <3>1. ContaVazia \in Conta
        BY DEF ContaVazia, Conta
      <3>2. QED BY <2>1, <2>2, <2>3, <3>1, Zenon DEF Conta
    <2>5. QED BY <1>1, <2>4 DEF resto, aplicado
  <1>7. agenda' \in [Ids -> Agenda]
    <2>1. Plan(pedido) \in Agenda
      BY DEF Plan, Agenda, EstadoDoEvento, Pedido, Dias
    <2>2. QED BY <2>1 DEF Emitir
  <1>8. QED BY <1>1, <1>3, <1>4, <1>5, <1>6, <1>7 DEF Emitir

\* Every hook of the agenda returns an agenda.
LEMMA AgendaTipada ==
    ASSUME NEW a \in Agenda, NEW e \in Pedido, NEW dia \in Int, NEW hospedado \in BOOLEAN
    PROVE  /\ Plan(e) \in Agenda
           /\ OnCheckIn(a) \in Agenda
           /\ OnCheckOut(a, dia, e) \in Agenda
           /\ OnCancel(a, hospedado, dia) \in Agenda
  <1> USE DEF Agenda, EstadoDoEvento, SeAgendado
  <1>1. Plan(e) \in Agenda
    BY DEF Plan, Pedido, Dias
  <1>2. OnCheckIn(a) \in Agenda
    BY DEF OnCheckIn
  <1>3. \A b \in Agenda : TrazerLimpeza(b, dia) \in Agenda
    BY DEF TrazerLimpeza
  <1>4. OnCheckOut(a, dia, e) \in Agenda
    <2>1. [a EXCEPT !.saida = SeAgendado(a.saida, "concluido")] \in Agenda
      OBVIOUS
    <2>2. QED BY <1>3, <2>1 DEF OnCheckOut
  <1>5. OnCancel(a, hospedado, dia) \in Agenda
    <2> DEFINE b == [a EXCEPT !.entrada = SeAgendado(a.entrada, "cancelado"),
                              !.saida   = SeAgendado(a.saida, "cancelado")]
    <2>1. b \in Agenda
      OBVIOUS
    <2>2. [b EXCEPT !.limpeza = SeAgendado(a.limpeza, "cancelado")] \in Agenda
      BY <2>1
    <2>3. QED BY <1>3, <2>1, <2>2 DEF OnCancel
  <1>6. QED BY <1>1, <1>2, <1>4, <1>5

\* Instants and days of the parameters are integers.
LEMMA InicioTipado ==
    ASSUME NEW t \in Inicios PROVE t \in Dias /\ t \in Int
  BY ConstantesA DEF Inicios, Dias

LEMMA TipoCriar == TypeOK /\ Criar => TypeOK'
  <1> SUFFICES ASSUME TypeOK, Criar PROVE TypeOK'
    OBVIOUS
  <1>1. PICK t \in Inicios, r \in Livres, pedido \in Pedido :
            Emitir(Atual, t, r, pedido, "hold", Nenhuma, 0)
    BY DEF Criar
  <1>2. /\ Atual.status \in [Ids -> Estados] /\ Atual.prazo \in [Ids -> Prazo]
        /\ Atual.agenda \in [Ids -> Agenda] /\ Atual.blocos \subseteq Bloco
    BY DEF Atual, TypeOK
  <1>3. r \in Ids
    BY DEF Livres
  <1>4. QED BY <1>1, <1>2, <1>3, EmitirTipado

LEMMA TipoConfirmar ==
    ASSUME TypeOK, NEW r \in Ids, NEW t \in Inicios, NEW pago \in 1..conta[r].total,
           Confirmar(r, t, pago)
    PROVE  TypeOK'
  <1> USE DEF TypeOK
  <1>1. blocos' \subseteq Bloco
    BY MoverTipado DEF Confirmar
  <1>2. status' \in [Ids -> Estados] /\ prazo' \in [Ids -> Prazo]
    BY DEF Confirmar, Estados, Transicoes, Prazo
  <1>3. agenda' \in [Ids -> Agenda]
    BY DEF Confirmar, Plan, Agenda, EstadoDoEvento, Pedido, Dias
  <1>4. conta' \in [Ids -> Conta]
    <2>1. pago \in Nat
      BY DEF Conta
    <2>2. [conta[r] EXCEPT !.pago = pago] \in Conta
      BY <2>1, Zenon DEF Conta
    <2>3. QED BY <2>2 DEF Confirmar
  <1>5. QED BY <1>1, <1>2, <1>3, <1>4 DEF Confirmar

LEMMA TipoCancelar ==
    ASSUME TypeOK, NEW r \in Ids, NEW t \in Inicios,
           NEW destino \in {"cancelled", "no_show"}, Cancelar(r, t, destino)
    PROVE  TypeOK'
  <1> USE DEF TypeOK
  <1> DEFINE antecedencia == estadia[r].de - t
             dias == IF destino = "no_show" THEN Menor(antecedencia, 0) ELSE antecedencia
  <1>1. t \in Int
    BY InicioTipado
  <1>2. dias \in Int
    BY <1>1 DEF Pedido, Dias, Menor
  <1>3. conta' \in [Ids -> Conta]
    <2>1. CalcularCancelamento(conta[r], dias) \in Conta
      BY <1>2, CancelamentoTipado
    <2>2. QED BY <2>1 DEF Cancelar
  <1>4. blocos' \subseteq Bloco
    BY MoverTipado DEF Cancelar, DestinoDoBloco
  <1>5. agenda' \in [Ids -> Agenda]
    <2>1. OnCancel(agenda[r], status[r] = "checked_in", t) \in Agenda
      BY <1>1, AgendaTipada
    <2>2. QED BY <2>1 DEF Cancelar
  <1>6. status' \in [Ids -> Estados] /\ prazo' \in [Ids -> Prazo]
    BY DEF Cancelar, Estados, Transicoes, Prazo
  <1>7. QED BY <1>3, <1>4, <1>5, <1>6 DEF Cancelar

LEMMA TipoRemarcar ==
    ASSUME TypeOK, NEW r \in Ids, NEW t \in Inicios, NEW nova \in Livres,
           NEW pedido \in Pedido, Remarcar(r, t, nova, pedido)
    PROVE  TypeOK'
  <1> DEFINE base ==
        [status |-> [status EXCEPT ![r] = "cancelled"],
         prazo  |-> [prazo EXCEPT ![r] = SemPrazo],
         agenda |-> [agenda EXCEPT ![r] = OnCancel(agenda[r], FALSE, t)],
         blocos |-> MoverBlocosDaReserva(blocos, r, Bloqueiam, "cancelled")]
  <1>1. base.status \in [Ids -> Estados] /\ base.prazo \in [Ids -> Prazo]
    BY DEF TypeOK, Estados, Transicoes, Prazo
  <1>2. base.agenda \in [Ids -> Agenda]
    <2>1. OnCancel(agenda[r], FALSE, t) \in Agenda
      BY InicioTipado, AgendaTipada DEF TypeOK
    <2>2. QED BY <2>1 DEF TypeOK
  <1>3. base.blocos \subseteq Bloco
    BY MoverTipado DEF TypeOK
  <1>4. nova \in Ids /\ status[r] \in {"hold", "confirmed"} /\ SaldoHerdado(r) \in Nat
    BY DEF TypeOK, Livres, Remarcar, SaldoHerdado, Conta
  <1>5. Emitir(base, t, nova, pedido, status[r], r, SaldoHerdado(r))
    BY DEF Remarcar, EstadoDaNova
  <1> HIDE DEF base
  <1>6. QED BY <1>1, <1>2, <1>3, <1>4, <1>5, EmitirTipado

LEMMA TipoEstadia ==
    ASSUME TypeOK, NEW r \in Ids, NEW dia \in Dias,
           RegistrarCheckIn(r, dia) \/ RegistrarCheckOut(r, dia)
    PROVE  TypeOK'
  <1> USE DEF TypeOK
  <1>1. dia \in Int
    BY DEF Dias
  <1>2. CASE RegistrarCheckIn(r, dia)
    <2>1. OnCheckIn(agenda[r]) \in Agenda
      BY <1>1, AgendaTipada
    <2>2. agenda' \in [Ids -> Agenda]
      BY <1>2, <2>1 DEF RegistrarCheckIn
    <2>3. status' \in [Ids -> Estados]
      BY <1>2 DEF RegistrarCheckIn, Estados, Transicoes
    <2>4. QED BY <1>2, <2>2, <2>3 DEF RegistrarCheckIn
  <1>3. CASE RegistrarCheckOut(r, dia)
    <2>1. OnCheckOut(agenda[r], dia, estadia[r]) \in Agenda
      BY <1>1, AgendaTipada
    <2>2. agenda' \in [Ids -> Agenda]
      BY <1>3, <2>1 DEF RegistrarCheckOut
    <2>3. status' \in [Ids -> Estados]
      BY <1>3 DEF RegistrarCheckOut, Estados, Transicoes
    <2>4. blocos' \subseteq Bloco
      BY <1>3, MoverTipado DEF RegistrarCheckOut
    <2>5. QED BY <1>3, <2>2, <2>3, <2>4 DEF RegistrarCheckOut
  <1>4. QED BY <1>2, <1>3

LEMMA TipoRealocar ==
    ASSUME TypeOK, NEW r \in Ids, NEW t \in Inicios, NEW de \in Unidades,
           NEW para \in Unidades, Realocar(r, t, de, para)
    PROVE  TypeOK'
  <1> USE DEF TypeOK
  <1> DEFINE soltos == {IF b.dono = r /\ b.unidade = de /\ Ativo(b)
                        THEN [b EXCEPT !.status = "cancelled", !.expira = SemPrazo]
                        ELSE b : b \in blocos}
  <1>1. soltos \subseteq Bloco
    BY DEF Bloco, Prazo, SemPrazo
  <1>2. BlocoDeReserva(r, para, estadia[r], StatusDoBlocoPara(status[r]), prazo[r]) \in Bloco
    BY BlocoTipado DEF Realocar
  <1>3. blocos' \subseteq Bloco
    BY <1>1, <1>2 DEF Realocar
  <1>4. unidadesDe' \in [Ids -> SUBSET Unidades]
    BY DEF Realocar
  <1>5. QED BY <1>3, <1>4 DEF Realocar

LEMMA TipoEstenderHold ==
    ASSUME TypeOK, NEW r \in Ids, NEW t \in Inicios, NEW horas \in HorasExtra,
           EstenderHold(r, t, horas)
    PROVE  TypeOK'
  <1> USE DEF TypeOK
  <1>1. t + horas \in Prazo
    BY ConstantesA DEF EstenderHold, CabeNoRelogio, Inicios, Dias, Prazo
  <1>2. blocos' \subseteq Bloco
    BY <1>1 DEF EstenderHold, Bloco
  <1>3. prazo' \in [Ids -> Prazo] /\ extensoes' \in [Ids -> Nat]
    BY <1>1 DEF EstenderHold
  <1>4. QED BY <1>2, <1>3 DEF EstenderHold

LEMMA TipoExpirar == TypeOK /\ Expirar => TypeOK'
  <1> SUFFICES ASSUME TypeOK, Expirar PROVE TypeOK'
    OBVIOUS
  <1> USE DEF TypeOK
  <1>0. PICK t \in Inicios : \E lote \in SUBSET Vencidas(t) : ExpirarLote(t, lote)
    BY DEF Expirar
  <1>1. PICK lote \in SUBSET Vencidas(t) : ExpirarLote(t, lote)
    BY <1>0
  <1>2. blocos' \subseteq Bloco
    <2>1. \A b \in Bloco : [b EXCEPT !.status = "expired", !.expira = SemPrazo] \in Bloco
      BY DEF Bloco, Prazo
    <2>2. QED BY <1>1, <2>1 DEF ExpirarLote
  <1>3. status' \in [Ids -> Estados] /\ prazo' \in [Ids -> Prazo]
    BY <1>1 DEF ExpirarLote, Estados, Transicoes, Prazo
  <1>4. QED BY <1>1, <1>2, <1>3 DEF ExpirarLote

LEMMA TipoBloquear == TypeOK /\ Bloquear => TypeOK'
  <1> SUFFICES ASSUME TypeOK, Bloquear PROVE TypeOK'
    OBVIOUS
  <1> USE DEF TypeOK
  <1>1. CASE \E us \in SUBSET Unidades, p \in Periodo, fonte \in {"maintenance", "owner_hold"} :
               CriarBloqueio(us, p, fonte)
    <2>1. PICK us \in SUBSET Unidades, p \in Periodo, fonte \in {"maintenance", "owner_hold"} :
               CriarBloqueio(us, p, fonte)
      BY <1>1
    <2>2. blocos' \subseteq Bloco
      BY <2>1 DEF CriarBloqueio, Bloco, Periodo, Prazo
    <2>3. QED BY <2>1, <2>2 DEF CriarBloqueio
  <1>2. CASE \E b \in Operacionais, t \in Inicios : LiberarBloqueio(b, t)
    <2>1. PICK b \in Operacionais, t \in Inicios : LiberarBloqueio(b, t)
      BY <1>2
    <2>2. b \in Bloco
      BY DEF Operacionais
    <2>3. [b EXCEPT !.status = "cancelled", !.expira = SemPrazo] \in Bloco
      BY <2>2 DEF Bloco, Prazo
    <2>4. QED BY <2>1, <2>3 DEF LiberarBloqueio
  <1>3. QED BY <1>1, <1>2 DEF Bloquear

LEMMA TipoTique == TypeOK /\ Tique => TypeOK'
  BY ConstantesA DEF TypeOK, Tique, Dias

LEMMA TipoProximo == TypeOK /\ [Next]_vars => TypeOK'
  <1> SUFFICES ASSUME TypeOK, [Next]_vars PROVE TypeOK'
    OBVIOUS
  <1>1. CASE Criar
    BY <1>1, TipoCriar
  <1>2. ASSUME NEW r \in Ids, Acao(r) PROVE TypeOK'
    <2>1. CASE \E t \in Inicios, pago \in 1..conta[r].total : Confirmar(r, t, pago)
      BY <2>1, TipoConfirmar
    <2>2. CASE \E t \in Inicios, destino \in {"cancelled", "no_show"} : Cancelar(r, t, destino)
      BY <2>2, TipoCancelar
    <2>3. CASE \E t \in Inicios, nova \in Livres, pedido \in Pedido : Remarcar(r, t, nova, pedido)
      BY <2>3, TipoRemarcar
    <2>4. CASE \E t \in Inicios, de, para \in Unidades : Realocar(r, t, de, para)
      BY <2>4, TipoRealocar
    <2>5. CASE \E t \in Inicios, horas \in HorasExtra : EstenderHold(r, t, horas)
      BY <2>5, TipoEstenderHold
    <2>6. CASE \E dia \in Dias : RegistrarCheckIn(r, dia) \/ RegistrarCheckOut(r, dia)
      BY <2>6, TipoEstadia
    <2>7. QED BY <1>2, <2>1, <2>2, <2>3, <2>4, <2>5, <2>6 DEF Acao
  <1>3. CASE Expirar
    BY <1>3, TipoExpirar
  <1>4. CASE Bloquear
    BY <1>4, TipoBloquear
  <1>5. CASE Tique
    BY <1>5, TipoTique
  <1>6. CASE UNCHANGED vars
    BY <1>6 DEF TypeOK, vars
  <1>7. QED BY <1>1, <1>2, <1>3, <1>4, <1>5, <1>6 DEF Next

\* The rows of the engine keep their domains along every behaviour.
THEOREM Tipos == Spec => []TypeOK
  <1>1. Init => TypeOK
    BY TipoInicial
  <1>2. TypeOK /\ [Next]_vars => TypeOK'
    BY TipoProximo
  <1>3. QED BY <1>1, <1>2, PTL DEF Spec

-----------------------------------------------------------------------------
(* SemSobreposicao is inductive together with TypeOK.                      *)

\* Rows that stop being active, or are copied, take no night.
LEMMA SoltarExclusivo ==
    ASSUME NEW bs, NEW cs, Exclusivos(bs), \A c \in cs : Ativo(c) => c \in bs
    PROVE  Exclusivos(cs)
  BY DEF Exclusivos

\* An UPDATE that keeps unit and period, and activates nothing, takes no night.
LEMMA AtualizarExclusivo ==
    ASSUME NEW bs, NEW f, Exclusivos(bs),
           \A b \in bs : /\ f[b].unidade = b.unidade
                         /\ f[b].de = b.de /\ f[b].ate = b.ate
                         /\ Ativo(f[b]) => Ativo(b)
    PROVE  Exclusivos({f[b] : b \in bs})
  BY DEF Exclusivos, DaNoite

\* The exclusion constraint: what does not overlap an active row may join.
LEMMA InserirExclusivo ==
    ASSUME NEW bs \in SUBSET Bloco, NEW novos \in SUBSET Bloco, Exclusivos(bs),
           \A c \in novos : ~Ocupada(bs, c.unidade, c),
           \A c, d \in novos : c.unidade = d.unidade => c = d
    PROVE  Exclusivos(bs \cup novos)
  <1>1. ASSUME NEW b \in bs, NEW c \in novos, Ativo(b), b.unidade = c.unidade,
               NEW d \in Dias, DaNoite(b, d), DaNoite(c, d)
        PROVE  FALSE
    <2>1. b.de < c.ate /\ c.de < b.ate
      BY <1>1 DEF DaNoite, Bloco, Dias
    <2>2. Ocupada(bs, c.unidade, c)
      BY <1>1, <2>1 DEF Ocupada, Sobrepoe
    <2>3. QED BY <2>2
  <1>2. QED BY <1>1 DEF Exclusivos

LEMMA MoverExclusivo ==
    ASSUME NEW bs \in SUBSET Bloco, NEW r, NEW de \in SUBSET Bloqueiam, NEW para,
           Exclusivos(bs)
    PROVE  Exclusivos(MoverBlocosDaReserva(bs, r, de, para))
  <1> DEFINE f == [b \in bs |-> IF b.dono = r /\ b.status \in de
                                THEN [b EXCEPT !.status = para,
                                               !.expira = IF para = "hold" THEN b.expira ELSE SemPrazo]
                                ELSE b]
  <1>1. \A b \in bs : /\ f[b].unidade = b.unidade
                      /\ f[b].de = b.de /\ f[b].ate = b.ate
                      /\ Ativo(f[b]) => Ativo(b)
    BY DEF Bloco, Ativo
  <1>2. Exclusivos({f[b] : b \in bs})
    <2> HIDE DEF f
    <2>1. QED BY <1>1, AtualizarExclusivo
  <1>3. {f[b] : b \in bs} = MoverBlocosDaReserva(bs, r, de, para)
    BY DEF MoverBlocosDaReserva
  <1>4. QED BY <1>2, <1>3

\* A sale issued on rows without overlap leaves rows without overlap.
LEMMA EmitirExclusivo ==
    ASSUME NEW base, NEW t \in Inicios, NEW r \in Ids, NEW pedido \in Pedido,
           NEW estado \in {"hold", "confirmed"}, NEW origem, NEW saldo,
           base.blocos \subseteq Bloco, Exclusivos(base.blocos),
           Emitir(base, t, r, pedido, estado, origem, saldo)
    PROVE  SemSobreposicao'
  <1> DEFINE expira == IF estado = "hold" THEN t + HoldHoras ELSE SemPrazo
             novos(us) == {BlocoDeReserva(r, u, pedido, StatusDoBlocoPara(estado), expira) : u \in us}
  <1>1. PICK us \in Alocacoes(base.blocos, pedido) : blocos' = base.blocos \cup novos(us)
    BY DEF Emitir
  <1>2. expira \in Prazo
    BY ConstantesA DEF Emitir, CabeNoRelogio, Inicios, Dias, Prazo
  <1>3. us \subseteq Unidades /\ \A u \in us : ~Ocupada(base.blocos, u, pedido)
    BY AlocacaoTipada DEF Alocacoes
  <1>4. novos(us) \subseteq Bloco
    BY <1>2, <1>3, BlocoTipado DEF Vivos
  <1>5. \A c \in novos(us) : ~Ocupada(base.blocos, c.unidade, c)
    BY <1>3 DEF BlocoDeReserva, Ocupada, Sobrepoe
  <1>6. \A c, d \in novos(us) : c.unidade = d.unidade => c = d
    BY DEF BlocoDeReserva
  <1> HIDE DEF novos
  <1>7. Exclusivos(base.blocos \cup novos(us))
    BY <1>4, <1>5, <1>6, InserirExclusivo
  <1>8. QED BY <1>1, <1>7 DEF SemSobreposicao, Exclusivos

LEMMA SemSobreposicaoInicial == Init => SemSobreposicao
  BY DEF Init, SemSobreposicao, Exclusivos

LEMMA SobreposicaoAcao ==
    ASSUME TypeOK, SemSobreposicao, NEW r \in Ids, Acao(r)
    PROVE  SemSobreposicao'
  <1>0. blocos \subseteq Bloco /\ Exclusivos(blocos)
    BY DEF TypeOK, SemSobreposicao
  <1>1. ASSUME NEW t \in Inicios, NEW pago \in 1..conta[r].total, Confirmar(r, t, pago)
        PROVE  SemSobreposicao'
    <2>1. Exclusivos(MoverBlocosDaReserva(blocos, r, {"hold"}, "confirmed"))
      BY <1>0, MoverExclusivo DEF Bloqueiam
    <2>2. QED BY <1>1, <2>1 DEF Confirmar, SemSobreposicao, Exclusivos
  <1>2. ASSUME NEW t \in Inicios, NEW destino, Cancelar(r, t, destino)
        PROVE  SemSobreposicao'
    <2>1. Exclusivos(MoverBlocosDaReserva(blocos, r, Bloqueiam,
                         DestinoDoBloco(status[r] = "checked_in")))
      BY <1>0, MoverExclusivo
    <2>2. QED BY <1>2, <2>1 DEF Cancelar, SemSobreposicao, Exclusivos
  <1>3. ASSUME NEW t \in Inicios, NEW nova \in Livres, NEW pedido \in Pedido,
               Remarcar(r, t, nova, pedido)
        PROVE  SemSobreposicao'
    <2> DEFINE base ==
          [status |-> [status EXCEPT ![r] = "cancelled"],
           prazo  |-> [prazo EXCEPT ![r] = SemPrazo],
           agenda |-> [agenda EXCEPT ![r] = OnCancel(agenda[r], FALSE, t)],
           blocos |-> MoverBlocosDaReserva(blocos, r, Bloqueiam, "cancelled")]
    <2>1. base.blocos \subseteq Bloco /\ Exclusivos(base.blocos)
      BY <1>0, MoverTipado, MoverExclusivo
    <2>2. Emitir(base, t, nova, pedido, status[r], r, SaldoHerdado(r))
          /\ status[r] \in {"hold", "confirmed"} /\ nova \in Ids
      BY <1>3 DEF Remarcar, EstadoDaNova, Livres
    <2> HIDE DEF base
    <2>3. QED BY <2>1, <2>2, EmitirExclusivo
  <1>4. ASSUME NEW t \in Inicios, NEW de \in Unidades, NEW para \in Unidades,
               Realocar(r, t, de, para)
        PROVE  SemSobreposicao'
    <2> DEFINE soltos == {IF b.dono = r /\ b.unidade = de /\ Ativo(b)
                          THEN [b EXCEPT !.status = "cancelled", !.expira = SemPrazo]
                          ELSE b : b \in blocos}
               novo == BlocoDeReserva(r, para, estadia[r], StatusDoBlocoPara(status[r]), prazo[r])
    <2>1. soltos \subseteq Bloco
      BY <1>0 DEF Bloco, Prazo, SemPrazo
    <2>2. \A c \in soltos : Ativo(c) => c \in blocos
      BY <1>0 DEF Ativo, Bloqueiam, Bloco
    <2>3. Exclusivos(soltos)
      BY <1>0, <2>2, SoltarExclusivo
    <2>4. novo \in Bloco
      BY <1>4, BlocoTipado DEF TypeOK, Realocar
    <2>5. ~Ocupada(soltos, novo.unidade, novo)
      BY <1>4 DEF Realocar, Ocupada, Sobrepoe, BlocoDeReserva
    <2>6. blocos' = soltos \cup {novo}
      BY <1>4 DEF Realocar
    <2> HIDE DEF soltos, novo
    <2>7. Exclusivos(soltos \cup {novo})
      BY <2>1, <2>3, <2>4, <2>5, InserirExclusivo
    <2>8. QED BY <2>6, <2>7 DEF SemSobreposicao, Exclusivos
  <1>5. ASSUME NEW t \in Inicios, NEW horas \in HorasExtra, EstenderHold(r, t, horas)
        PROVE  SemSobreposicao'
    <2> DEFINE f == [b \in blocos |-> IF b.dono = r /\ b.status = "hold"
                                      THEN [b EXCEPT !.expira = t + horas] ELSE b]
    <2>1. \A b \in blocos : /\ f[b].unidade = b.unidade
                            /\ f[b].de = b.de /\ f[b].ate = b.ate
                            /\ Ativo(f[b]) => Ativo(b)
      BY <1>0 DEF Ativo, Bloco
    <2>2. Exclusivos({f[b] : b \in blocos})
      <3> HIDE DEF f
      <3>1. QED BY <1>0, <2>1, AtualizarExclusivo
    <2>3. blocos' = {f[b] : b \in blocos}
      BY <1>5 DEF EstenderHold
    <2>4. QED BY <2>2, <2>3 DEF SemSobreposicao, Exclusivos
  <1>6. ASSUME NEW dia \in Dias, RegistrarCheckIn(r, dia) PROVE SemSobreposicao'
    BY <1>0, <1>6 DEF RegistrarCheckIn, SemSobreposicao, Exclusivos
  <1>7. ASSUME NEW dia \in Dias, RegistrarCheckOut(r, dia) PROVE SemSobreposicao'
    <2>1. Exclusivos(MoverBlocosDaReserva(blocos, r, Bloqueiam, "completed"))
      BY <1>0, MoverExclusivo
    <2>2. QED BY <1>7, <2>1 DEF RegistrarCheckOut, SemSobreposicao, Exclusivos
  <1>8. QED BY <1>1, <1>2, <1>3, <1>4, <1>5, <1>6, <1>7 DEF Acao

LEMMA SobreposicaoBloquear ==
    ASSUME TypeOK, SemSobreposicao, Bloquear
    PROVE  SemSobreposicao'
  <1>0. blocos \subseteq Bloco /\ Exclusivos(blocos)
    BY DEF TypeOK, SemSobreposicao
  <1>1. ASSUME NEW us \in SUBSET Unidades, NEW p \in Periodo,
               NEW fonte \in {"maintenance", "owner_hold"}, CriarBloqueio(us, p, fonte)
        PROVE  SemSobreposicao'
    <2> DEFINE novos ==
          {[dono |-> Nenhuma, unidade |-> u, de |-> p.de, ate |-> p.ate,
            status |-> "confirmed", expira |-> SemPrazo, fonte |-> fonte] : u \in us}
    <2>1. novos \subseteq Bloco
      BY DEF Bloco, Periodo, Prazo
    <2>2. \A c \in novos : ~Ocupada(blocos, c.unidade, c)
      BY <1>1 DEF CriarBloqueio, CabeBloqueio, Ocupada, Sobrepoe
    <2>3. \A c, d \in novos : c.unidade = d.unidade => c = d
      OBVIOUS
    <2>4. blocos' = blocos \cup novos
      BY <1>1 DEF CriarBloqueio
    <2> HIDE DEF novos
    <2>5. Exclusivos(blocos \cup novos)
      BY <1>0, <2>1, <2>2, <2>3, InserirExclusivo
    <2>6. QED BY <2>4, <2>5 DEF SemSobreposicao, Exclusivos
  <1>2. ASSUME NEW b \in Operacionais, NEW t \in Inicios, LiberarBloqueio(b, t)
        PROVE  SemSobreposicao'
    <2>1. \A c \in blocos' : Ativo(c) => c \in blocos
      BY <1>0, <1>2 DEF LiberarBloqueio, Operacionais, Ativo, Bloqueiam, Bloco
    <2>2. QED BY <1>0, <2>1, SoltarExclusivo DEF SemSobreposicao, Exclusivos
  <1>3. QED BY <1>1, <1>2 DEF Bloquear

LEMMA SobreposicaoProximo ==
    TypeOK /\ SemSobreposicao /\ [Next]_vars => SemSobreposicao'
  <1> SUFFICES ASSUME TypeOK, SemSobreposicao, [Next]_vars PROVE SemSobreposicao'
    OBVIOUS
  <1>0. blocos \subseteq Bloco /\ Exclusivos(blocos)
    BY DEF TypeOK, SemSobreposicao
  <1>1. CASE Criar
    <2>1. PICK t \in Inicios, r \in Livres, pedido \in Pedido :
              Emitir(Atual, t, r, pedido, "hold", Nenhuma, 0)
      BY <1>1 DEF Criar
    <2>2. Atual.blocos = blocos /\ r \in Ids
      BY DEF Atual, Livres
    <2>3. QED BY <1>0, <2>1, <2>2, EmitirExclusivo
  <1>2. ASSUME NEW r \in Ids, Acao(r) PROVE SemSobreposicao'
    BY <1>2, SobreposicaoAcao
  <1>3. CASE Expirar
    <2>1. PICK t \in Inicios : \E lote \in SUBSET Vencidas(t) : ExpirarLote(t, lote)
      BY <1>3 DEF Expirar
    <2>2. PICK lote \in SUBSET Vencidas(t) : ExpirarLote(t, lote)
      BY <2>1
    <2>3. \A c \in blocos' : Ativo(c) => c \in blocos
      BY <1>0, <2>2 DEF ExpirarLote, Ativo, Bloqueiam, Bloco
    <2>4. QED BY <1>0, <2>3, SoltarExclusivo DEF SemSobreposicao, Exclusivos
  <1>4. CASE Bloquear
    BY <1>4, SobreposicaoBloquear
  <1>5. CASE Tique
    BY <1>0, <1>5 DEF Tique, SemSobreposicao, Exclusivos
  <1>6. CASE UNCHANGED vars
    BY <1>0, <1>6 DEF vars, SemSobreposicao, Exclusivos
  <1>7. QED BY <1>1, <1>2, <1>3, <1>4, <1>5, <1>6 DEF Next

\* No night of a unit is ever promised twice, whatever the interleaving of
\* sales, rebookings, unit swaps, blocks, cancellations and expirations.
THEOREM NenhumaNoiteDuasVezes == Spec => []SemSobreposicao
  <1>1. Init => TypeOK /\ SemSobreposicao
    BY TipoInicial, SemSobreposicaoInicial
  <1>2. TypeOK /\ SemSobreposicao /\ [Next]_vars => TypeOK' /\ SemSobreposicao'
    BY TipoProximo, SobreposicaoProximo
  <1>3. QED BY <1>1, <1>2, PTL DEF Spec

-----------------------------------------------------------------------------
(* What each way of moving blocks does to the active rows of a reservation. *)

LEMMA VivosAlheios ==
    ASSUME NEW bs, NEW r, NEW q, q # r, NEW de, NEW para,
           bs \subseteq Bloco
    PROVE  VivosDe(MoverBlocosDaReserva(bs, r, de, para), q) = VivosDe(bs, q)
  <1>1. \A b \in bs : b.dono = q => b \in MoverBlocosDaReserva(bs, r, de, para)
    BY DEF MoverBlocosDaReserva
  <1>2. \A b \in MoverBlocosDaReserva(bs, r, de, para) : b.dono = q => b \in bs
    BY DEF MoverBlocosDaReserva, Bloco
  <1>3. QED BY <1>1, <1>2 DEF VivosDe

LEMMA VivosSoltos ==
    ASSUME NEW bs \in SUBSET Bloco, NEW r, NEW para \in {"cancelled", "completed"}
    PROVE  VivosDe(MoverBlocosDaReserva(bs, r, Bloqueiam, para), r) = {}
  BY DEF VivosDe, MoverBlocosDaReserva, Bloco, Ativo, Bloqueiam

\* A reservation no table of which moved stays coherent.
LEMMA CoerentePreservado ==
    ASSUME NEW q \in Ids, Coerente(q),
           status'[q] = status[q], prazo'[q] = prazo[q], estadia'[q] = estadia[q],
           unidadesDe'[q] = unidadesDe[q],
           VivosDe(blocos', q) = VivosDe(blocos, q)
    PROVE  Coerente(q)'
  BY DEF Coerente, BlocosEsperados, VivosDe, Ativo

\* A reservation that left the live states and whose rows are all closed.
LEMMA CoerenteSolto ==
    ASSUME NEW q \in Ids, status'[q] \notin Vivos, prazo'[q] = SemPrazo,
           VivosDe(blocos', q) = {}
    PROVE  Coerente(q)'
  BY DEF Coerente, VivosDe, Ativo

-----------------------------------------------------------------------------
LEMMA CalendarioEmitir ==
    ASSUME TypeOK,
           NEW base, NEW t \in Inicios, NEW r \in Ids, NEW pedido \in Pedido,
           NEW estado \in {"hold", "confirmed"}, NEW origem, NEW saldo,
           base.status \in [Ids -> Estados], base.prazo \in [Ids -> Prazo],
           base.blocos \subseteq Bloco,
           VivosDe(base.blocos, r) = {},
           \A q \in Ids \ {r} :
               IF base.status[q] \in Vivos
               THEN /\ base.status[q] = status[q] /\ base.prazo[q] = prazo[q]
                    /\ VivosDe(base.blocos, q) = VivosDe(blocos, q)
                    /\ Coerente(q)
               ELSE base.prazo[q] = SemPrazo /\ VivosDe(base.blocos, q) = {},
           Emitir(base, t, r, pedido, estado, origem, saldo)
    PROVE  CalendarioSegueReserva'
  <1> DEFINE expira == IF estado = "hold" THEN t + HoldHoras ELSE SemPrazo
             st == StatusDoBlocoPara(estado)
             novos(us) == {BlocoDeReserva(r, u, pedido, st, expira) : u \in us}
  <1>1. PICK us \in Alocacoes(base.blocos, pedido) :
            /\ status' = [base.status EXCEPT ![r] = estado]
            /\ prazo' = [base.prazo EXCEPT ![r] = expira]
            /\ blocos' = base.blocos \cup novos(us)
            /\ unidadesDe' = [unidadesDe EXCEPT ![r] = us]
    BY DEF Emitir
  <1>2. us # {}
    BY AlocacaoTipada
  <1>3. estadia' = [estadia EXCEPT ![r] = pedido]
    BY DEF Emitir
  <1>4. st \in {"hold", "confirmed"}
    BY DEF StatusDoBlocoPara
  <1>5. /\ VivosDe(novos(us), r) = novos(us)
        /\ \A q \in Ids \ {r} : VivosDe(novos(us), q) = {}
    BY <1>4 DEF VivosDe, BlocoDeReserva, Ativo, Bloqueiam
  <1>6. Coerente(r)'
    <2>1. VivosDe(blocos', r) = novos(us)
      <3> HIDE DEF novos
      <3>1. VivosDe(base.blocos \cup novos(us), r) = VivosDe(base.blocos, r) \cup VivosDe(novos(us), r)
        BY DEF VivosDe
      <3>2. QED BY <1>1, <1>5, <3>1
    <2>2. status'[r] = estado /\ prazo'[r] = expira /\ estadia'[r] = pedido /\ unidadesDe'[r] = us
      BY <1>1, <1>3 DEF TypeOK
    <2>3. (estado = "hold") <=> (expira # SemPrazo)
      BY ConstantesA, InicioTipado DEF Dias, SemPrazo
    <2>4. estado \in Vivos
      BY DEF Vivos
    <2>5. BlocosEsperados(r)' = novos(us)
      BY <2>2 DEF BlocosEsperados, BlocoDeReserva, StatusDoBlocoPara
    <2>6. VivosDe(blocos, r)' = novos(us)
      BY <2>1 DEF VivosDe, Ativo
    <2>7. QED BY <1>2, <2>2, <2>3, <2>4, <2>5, <2>6 DEF Coerente
  <1>7. ASSUME NEW q \in Ids, q # r PROVE Coerente(q)'
    <2>1. VivosDe(blocos', q) = VivosDe(base.blocos, q)
      <3> HIDE DEF novos
      <3>1. VivosDe(base.blocos \cup novos(us), q) = VivosDe(base.blocos, q) \cup VivosDe(novos(us), q)
        BY DEF VivosDe
      <3>2. QED BY <1>1, <1>5, <1>7, <3>1
    <2>2. /\ status'[q] = base.status[q] /\ prazo'[q] = base.prazo[q]
          /\ estadia'[q] = estadia[q] /\ unidadesDe'[q] = unidadesDe[q]
      BY <1>1, <1>3, <1>7 DEF TypeOK
    <2>3. CASE base.status[q] \in Vivos
      BY <1>7, <2>1, <2>2, <2>3, CoerentePreservado
    <2>4. CASE base.status[q] \notin Vivos
      BY <1>7, <2>1, <2>2, <2>4, CoerenteSolto
    <2>5. QED BY <2>3, <2>4
  <1>8. QED BY <1>6, <1>7 DEF CalendarioSegueReserva

LEMMA CalendarioCriar ==
    ASSUME TypeOK, CalendarioSegueReserva, Criar
    PROVE  CalendarioSegueReserva'
  <1>1. PICK t \in Inicios, r \in Livres, pedido \in Pedido :
            Emitir(Atual, t, r, pedido, "hold", Nenhuma, 0)
    BY DEF Criar
  <1>2. r \in Ids /\ VivosDe(blocos, r) = {}
    BY DEF Livres, CalendarioSegueReserva, Coerente, Vivos
  <1>3. \A q \in Ids : Coerente(q)
    BY DEF CalendarioSegueReserva
  <1>4. \A q \in Ids : status[q] \notin Vivos => prazo[q] = SemPrazo /\ VivosDe(blocos, q) = {}
    BY <1>3 DEF Coerente
  <1>5. /\ Atual.status = status /\ Atual.prazo = prazo /\ Atual.blocos = blocos
    BY DEF Atual
  <1>6. /\ status \in [Ids -> Estados] /\ prazo \in [Ids -> Prazo] /\ blocos \subseteq Bloco
    BY DEF TypeOK
  <1>7. QED BY <1>1, <1>2, <1>3, <1>4, <1>5, <1>6, CalendarioEmitir

LEMMA CalendarioRemarcar ==
    ASSUME TypeOK, CalendarioSegueReserva, NEW r \in Ids, NEW t \in Inicios,
           NEW nova \in Livres, NEW pedido \in Pedido, Remarcar(r, t, nova, pedido)
    PROVE  CalendarioSegueReserva'
  <1> DEFINE base ==
        [status |-> [status EXCEPT ![r] = "cancelled"],
         prazo  |-> [prazo EXCEPT ![r] = SemPrazo],
         agenda |-> [agenda EXCEPT ![r] = OnCancel(agenda[r], FALSE, t)],
         blocos |-> MoverBlocosDaReserva(blocos, r, Bloqueiam, "cancelled")]
  <1>1. /\ Emitir(base, t, nova, pedido, status[r], r, SaldoHerdado(r))
        /\ status[r] \in {"hold", "confirmed"} /\ nova \in Ids /\ nova # r
    BY DEF Remarcar, EstadoDaNova, Livres
  <1>2. /\ base.status \in [Ids -> Estados] /\ base.prazo \in [Ids -> Prazo]
        /\ base.blocos \subseteq Bloco
    BY MoverTipado DEF TypeOK, Estados, Transicoes, Prazo
  <1>3. blocos \subseteq Bloco /\ \A q \in Ids : Coerente(q)
    BY DEF TypeOK, CalendarioSegueReserva
  <1>4. VivosDe(base.blocos, r) = {}
    BY <1>3, VivosSoltos
  <1>5. \A q \in Ids \ {r} : VivosDe(base.blocos, q) = VivosDe(blocos, q)
    BY <1>3, VivosAlheios
  <1>6. VivosDe(base.blocos, nova) = {}
    BY <1>1, <1>3, <1>5 DEF Livres, Coerente, Vivos
  <1>7. /\ base.status[r] = "cancelled" /\ base.prazo[r] = SemPrazo
        /\ \A q \in Ids \ {r} : base.status[q] = status[q] /\ base.prazo[q] = prazo[q]
    BY DEF TypeOK
  <1> HIDE DEF base
  <1>8. ASSUME NEW q \in Ids \ {nova}
        PROVE  IF base.status[q] \in Vivos
               THEN /\ base.status[q] = status[q] /\ base.prazo[q] = prazo[q]
                    /\ VivosDe(base.blocos, q) = VivosDe(blocos, q)
                    /\ Coerente(q)
               ELSE base.prazo[q] = SemPrazo /\ VivosDe(base.blocos, q) = {}
    <2>1. CASE q = r
      BY <1>4, <1>7, <2>1 DEF Vivos
    <2>2. CASE q # r
      BY <1>3, <1>5, <1>7, <2>2 DEF Coerente
    <2>3. QED BY <2>1, <2>2
  <1>9. QED BY <1>1, <1>2, <1>6, <1>8, CalendarioEmitir

\* A handler that closes every row of r, and moves no other reservation.
LEMMA CalendarioSoltar ==
    ASSUME TypeOK, CalendarioSegueReserva, NEW r \in Ids,
           NEW para \in {"cancelled", "completed"}, NEW destino, destino \notin Vivos,
           status' = [status EXCEPT ![r] = destino],
           prazo'[r] = SemPrazo, \A q \in Ids \ {r} : prazo'[q] = prazo[q],
           UNCHANGED <<estadia, unidadesDe>>,
           blocos' = MoverBlocosDaReserva(blocos, r, Bloqueiam, para)
    PROVE  CalendarioSegueReserva'
  <1>1. blocos \subseteq Bloco /\ \A q \in Ids : Coerente(q)
    BY DEF TypeOK, CalendarioSegueReserva
  <1>2. VivosDe(blocos', r) = {} /\ status'[r] \notin Vivos
    BY <1>1, VivosSoltos DEF TypeOK
  <1>3. Coerente(r)'
    BY <1>2, CoerenteSolto
  <1>4. ASSUME NEW q \in Ids, q # r PROVE Coerente(q)'
    <2>1. VivosDe(blocos', q) = VivosDe(blocos, q) /\ status'[q] = status[q]
      BY <1>1, <1>4, VivosAlheios DEF TypeOK
    <2>2. QED BY <1>1, <1>4, <2>1, CoerentePreservado
  <1>5. QED BY <1>3, <1>4 DEF CalendarioSegueReserva

LEMMA CalendarioConfirmar ==
    ASSUME TypeOK, CalendarioSegueReserva, NEW r \in Ids, NEW t, NEW pago,
           Confirmar(r, t, pago)
    PROVE  CalendarioSegueReserva'
  <1>1. blocos \subseteq Bloco /\ \A q \in Ids : Coerente(q)
    BY DEF TypeOK, CalendarioSegueReserva
  <1> DEFINE velho(u) == BlocoDeReserva(r, u, estadia[r], "hold", prazo[r])
             novo(u) == BlocoDeReserva(r, u, estadia[r], "confirmed", SemPrazo)
             movidos == MoverBlocosDaReserva(blocos, r, {"hold"}, "confirmed")
  <1>2. VivosDe(blocos, r) = {velho(u) : u \in unidadesDe[r]} /\ unidadesDe[r] # {}
    BY <1>1 DEF Confirmar, Coerente, Vivos, BlocosEsperados, StatusDoBlocoPara
  <1>3. \A u : velho(u) \in blocos => novo(u) \in movidos
    <2> TAKE u
    <2>1. velho(u).dono = r /\ velho(u).status \in {"hold"}
      BY DEF BlocoDeReserva
    <2>2. [velho(u) EXCEPT !.status = "confirmed", !.expira = SemPrazo] = novo(u)
      <3> DEFINE meio == BlocoDeReserva(r, u, estadia[r], "confirmed", prazo[r])
      <3>1. [velho(u) EXCEPT !.status = "confirmed"] = meio
        BY DEF BlocoDeReserva
      <3>2. [meio EXCEPT !.expira = SemPrazo] = novo(u)
        BY DEF BlocoDeReserva
      <3> HIDE DEF velho, novo, meio
      <3>3. QED BY <3>1, <3>2
    <2> HIDE DEF velho, novo
    <2>3. QED BY <2>1, <2>2 DEF MoverBlocosDaReserva
  <1>4. VivosDe(movidos, r) = {novo(u) : u \in unidadesDe[r]}
    <2>1. ASSUME NEW u \in unidadesDe[r] PROVE novo(u) \in VivosDe(movidos, r)
      <3>1. velho(u) \in blocos
        BY <1>2 DEF VivosDe
      <3>2. QED BY <1>3, <3>1 DEF VivosDe, BlocoDeReserva, Ativo, Bloqueiam
    <2>2. ASSUME NEW c \in VivosDe(movidos, r) PROVE \E u \in unidadesDe[r] : c = novo(u)
      <3>1. PICK b \in blocos :
              c = IF b.dono = r /\ b.status \in {"hold"}
                  THEN [b EXCEPT !.status = "confirmed", !.expira = SemPrazo] ELSE b
        BY DEF VivosDe, MoverBlocosDaReserva
      <3>2. b.dono = r /\ Ativo(b)
        BY <1>1, <3>1 DEF VivosDe, Ativo, Bloqueiam, Bloco
      <3>3. PICK u \in unidadesDe[r] : b = velho(u)
        BY <1>2, <3>2 DEF VivosDe
      <3>4. c = novo(u)
        BY <3>1, <3>3 DEF BlocoDeReserva
      <3>5. QED BY <3>4
    <2>3. QED BY <2>1, <2>2
  <1>5. /\ status'[r] = "confirmed" /\ prazo'[r] = SemPrazo
        /\ estadia'[r] = estadia[r] /\ unidadesDe'[r] = unidadesDe[r] /\ blocos' = movidos
    BY DEF TypeOK, Confirmar
  <1>6. Coerente(r)'
    <2>1. BlocosEsperados(r)' = {novo(u) : u \in unidadesDe[r]}
      BY <1>5 DEF BlocosEsperados, BlocoDeReserva, StatusDoBlocoPara
    <2>2. VivosDe(blocos, r)' = {novo(u) : u \in unidadesDe[r]}
      BY <1>4, <1>5 DEF VivosDe, Ativo
    <2>3. QED BY <1>2, <1>5, <2>1, <2>2 DEF Coerente, Vivos
  <1>7. ASSUME NEW q \in Ids, q # r PROVE Coerente(q)'
    <2>1. VivosDe(blocos', q) = VivosDe(blocos, q)
      BY <1>1, <1>7, VivosAlheios DEF Confirmar
    <2>2. status'[q] = status[q] /\ prazo'[q] = prazo[q]
          /\ estadia'[q] = estadia[q] /\ unidadesDe'[q] = unidadesDe[q]
      BY <1>7 DEF Confirmar, TypeOK
    <2>3. QED BY <1>1, <2>1, <2>2, CoerentePreservado
  <1>8. QED BY <1>6, <1>7 DEF CalendarioSegueReserva

LEMMA CalendarioEstenderHold ==
    ASSUME TypeOK, CalendarioSegueReserva, NEW r \in Ids, NEW t \in Inicios,
           NEW horas \in HorasExtra, EstenderHold(r, t, horas)
    PROVE  CalendarioSegueReserva'
  <1>1. blocos \subseteq Bloco /\ \A q \in Ids : Coerente(q)
    BY DEF TypeOK, CalendarioSegueReserva
  <1> DEFINE velho(u) == BlocoDeReserva(r, u, estadia[r], "hold", prazo[r])
             novo(u) == BlocoDeReserva(r, u, estadia[r], "hold", t + horas)
             movidos == {IF b.dono = r /\ b.status = "hold"
                         THEN [b EXCEPT !.expira = t + horas] ELSE b : b \in blocos}
  <1>2. VivosDe(blocos, r) = {velho(u) : u \in unidadesDe[r]} /\ unidadesDe[r] # {}
    BY <1>1 DEF EstenderHold, Coerente, Vivos, BlocosEsperados, StatusDoBlocoPara
  <1>3. \A u : velho(u) \in blocos => novo(u) \in movidos
    <2> TAKE u
    <2>1. /\ velho(u).dono = r /\ velho(u).status = "hold"
          /\ [velho(u) EXCEPT !.expira = t + horas] = novo(u)
      BY DEF BlocoDeReserva
    <2> HIDE DEF velho, novo
    <2>2. QED BY <2>1
  <1>4. VivosDe(movidos, r) = {novo(u) : u \in unidadesDe[r]}
    <2>1. ASSUME NEW u \in unidadesDe[r] PROVE novo(u) \in VivosDe(movidos, r)
      <3>1. velho(u) \in blocos
        BY <1>2 DEF VivosDe
      <3>2. QED BY <1>3, <3>1 DEF VivosDe, BlocoDeReserva, Ativo, Bloqueiam
    <2>2. ASSUME NEW c \in VivosDe(movidos, r) PROVE \E u \in unidadesDe[r] : c = novo(u)
      <3>1. PICK b \in blocos :
              c = IF b.dono = r /\ b.status = "hold"
                  THEN [b EXCEPT !.expira = t + horas] ELSE b
        BY DEF VivosDe
      <3>2. b.dono = r /\ Ativo(b)
        BY <1>1, <3>1 DEF VivosDe, Ativo, Bloqueiam, Bloco
      <3>3. PICK u \in unidadesDe[r] : b = velho(u)
        BY <1>2, <3>2 DEF VivosDe
      <3>4. c = novo(u)
        BY <3>1, <3>3 DEF BlocoDeReserva
      <3>5. QED BY <3>4
    <2>3. QED BY <2>1, <2>2
  <1>5. /\ status'[r] = "hold" /\ prazo'[r] = t + horas
        /\ estadia'[r] = estadia[r] /\ unidadesDe'[r] = unidadesDe[r] /\ blocos' = movidos
    BY DEF TypeOK, EstenderHold
  <1>6. t + horas # SemPrazo
    BY ConstantesA, InicioTipado DEF Dias, SemPrazo
  <1>7. Coerente(r)'
    <2>1. BlocosEsperados(r)' = {novo(u) : u \in unidadesDe[r]}
      BY <1>5 DEF BlocosEsperados, BlocoDeReserva, StatusDoBlocoPara
    <2>2. VivosDe(blocos, r)' = {novo(u) : u \in unidadesDe[r]}
      BY <1>4, <1>5 DEF VivosDe, Ativo
    <2> HIDE DEF novo
    <2>3. QED BY <1>2, <1>5, <1>6, <2>1, <2>2 DEF Coerente, Vivos
  <1>8. ASSUME NEW q \in Ids, q # r PROVE Coerente(q)'
    <2>1. \A b \in blocos : b.dono = q => b \in movidos
      BY <1>8
    <2>2. \A b \in movidos : b.dono = q => b \in blocos
      BY <1>1, <1>8 DEF Bloco
    <2>3. VivosDe(blocos', q) = VivosDe(blocos, q)
      BY <1>5, <2>1, <2>2 DEF VivosDe
    <2>4. status'[q] = status[q] /\ prazo'[q] = prazo[q]
          /\ estadia'[q] = estadia[q] /\ unidadesDe'[q] = unidadesDe[q]
      BY <1>8 DEF EstenderHold, TypeOK
    <2>5. QED BY <1>1, <2>3, <2>4, CoerentePreservado
  <1>9. QED BY <1>7, <1>8 DEF CalendarioSegueReserva

LEMMA CalendarioRealocar ==
    ASSUME TypeOK, CalendarioSegueReserva, NEW r \in Ids, NEW t \in Inicios,
           NEW de \in Unidades, NEW para \in Unidades, Realocar(r, t, de, para)
    PROVE  CalendarioSegueReserva'
  <1>1. blocos \subseteq Bloco /\ \A q \in Ids : Coerente(q)
    BY DEF TypeOK, CalendarioSegueReserva
  <1> DEFINE st == StatusDoBlocoPara(status[r])
             bloco(u) == BlocoDeReserva(r, u, estadia[r], st, prazo[r])
             soltos == {IF b.dono = r /\ b.unidade = de /\ Ativo(b)
                        THEN [b EXCEPT !.status = "cancelled", !.expira = SemPrazo]
                        ELSE b : b \in blocos}
  <1>2. /\ status[r] \in Vivos /\ VivosDe(blocos, r) = {bloco(u) : u \in unidadesDe[r]}
        /\ (status[r] = "hold") <=> (prazo[r] # SemPrazo)
    BY <1>1 DEF Realocar, Coerente, BlocosEsperados
  <1>3. st \in Bloqueiam
    BY <1>2 DEF StatusDoBlocoPara, Vivos, Bloqueiam
  <1>4. VivosDe(soltos, r) = {bloco(u) : u \in unidadesDe[r] \ {de}}
    <2>1. ASSUME NEW u \in unidadesDe[r] \ {de} PROVE bloco(u) \in VivosDe(soltos, r)
      <3>1. bloco(u) \in blocos /\ bloco(u).dono = r /\ Ativo(bloco(u))
        BY <1>2 DEF VivosDe
      <3>2. bloco(u).unidade # de
        BY DEF BlocoDeReserva
      <3> HIDE DEF bloco
      <3>3. bloco(u) \in soltos
        BY <3>1, <3>2
      <3>4. QED BY <3>1, <3>3 DEF VivosDe
    <2>2. ASSUME NEW c \in VivosDe(soltos, r)
          PROVE  \E u \in unidadesDe[r] \ {de} : c = bloco(u)
      <3>1. c \in blocos /\ c.dono = r /\ Ativo(c) /\ c.unidade # de
        BY <1>1 DEF VivosDe, Ativo, Bloqueiam, Bloco
      <3>2. PICK u \in unidadesDe[r] : c = bloco(u)
        BY <1>2, <3>1 DEF VivosDe
      <3>3. bloco(u).unidade = u
        BY DEF BlocoDeReserva
      <3> HIDE DEF bloco
      <3>4. QED BY <3>1, <3>2, <3>3
    <2>3. QED BY <2>1, <2>2
  <1>5. /\ status' = status /\ prazo' = prazo /\ estadia' = estadia
        /\ unidadesDe' = [unidadesDe EXCEPT ![r] = (@ \ {de}) \cup {para}]
        /\ blocos' = soltos \cup {bloco(para)}
    BY DEF Realocar
  <1>6. unidadesDe'[r] = (unidadesDe[r] \ {de}) \cup {para}
    BY <1>5 DEF TypeOK
  <1>7. VivosDe(blocos', r) = {bloco(u) : u \in unidadesDe'[r]}
    <2>1. bloco(para).dono = r /\ Ativo(bloco(para))
      BY <1>3 DEF BlocoDeReserva, Ativo
    <2> HIDE DEF soltos, bloco
    <2>2. VivosDe(soltos \cup {bloco(para)}, r) = VivosDe(soltos, r) \cup {bloco(para)}
      BY <2>1 DEF VivosDe
    <2>3. QED BY <1>4, <1>5, <1>6, <2>2
  <1>8. Coerente(r)'
    <2>1. BlocosEsperados(r)' = {bloco(u) : u \in unidadesDe'[r]}
      BY <1>5 DEF BlocosEsperados, BlocoDeReserva, StatusDoBlocoPara
    <2>2. VivosDe(blocos, r)' = {bloco(u) : u \in unidadesDe'[r]}
      BY <1>7 DEF VivosDe, Ativo
    <2> HIDE DEF bloco
    <2>3. QED BY <1>2, <1>5, <1>6, <2>1, <2>2 DEF Coerente
  <1>9. ASSUME NEW q \in Ids, q # r PROVE Coerente(q)'
    <2>1. \A b \in blocos : b.dono = q => b \in soltos
      BY <1>9
    <2>2. \A b \in soltos : b.dono = q => b \in blocos
      BY <1>1, <1>9 DEF Bloco
    <2>3. bloco(para).dono # q
      BY <1>9 DEF BlocoDeReserva
    <2> HIDE DEF soltos, bloco
    <2>4. VivosDe(blocos', q) = VivosDe(blocos, q)
      BY <1>5, <2>1, <2>2, <2>3 DEF VivosDe
    <2>5. unidadesDe'[q] = unidadesDe[q]
      BY <1>5, <1>9 DEF TypeOK
    <2>6. QED BY <1>1, <1>5, <2>4, <2>5, CoerentePreservado
  <1>10. QED BY <1>8, <1>9 DEF CalendarioSegueReserva

\* Of an overdue batch and of the reservations left out of it.
LEMMA CalendarioExpirar ==
    ASSUME TypeOK, CalendarioSegueReserva, Expirar
    PROVE  CalendarioSegueReserva'
  <1>1. blocos \subseteq Bloco /\ \A q \in Ids : Coerente(q)
    BY DEF TypeOK, CalendarioSegueReserva
  <1>2. PICK t \in Inicios : \E lote \in SUBSET Vencidas(t) : ExpirarLote(t, lote)
    BY DEF Expirar
  <1>3. PICK lote \in SUBSET Vencidas(t) : ExpirarLote(t, lote)
    BY <1>2
  <1>4. ASSUME NEW q \in Ids, q \in lote PROVE Coerente(q)'
    <2>1. status[q] = "hold"
      BY <1>4 DEF Vencidas
    <2>2. \A b \in VivosDe(blocos, q) : b.status = "hold"
      BY <1>1, <2>1 DEF Coerente, Vivos, BlocosEsperados, BlocoDeReserva, StatusDoBlocoPara
    <2>3. VivosDe(blocos', q) = {}
      <3>1. SUFFICES ASSUME NEW c \in blocos', c.dono = q, Ativo(c) PROVE FALSE
        BY DEF VivosDe
      <3>2. PICK b \in blocos :
              c = IF b.dono \in lote /\ b.status = "hold"
                  THEN [b EXCEPT !.status = "expired", !.expira = SemPrazo] ELSE b
        BY <1>3, <3>1 DEF ExpirarLote
      <3>3. b.dono = q /\ b \in Bloco
        BY <1>1, <3>1, <3>2 DEF Bloco
      <3>4. CASE b.status = "hold"
        BY <1>4, <3>1, <3>2, <3>3, <3>4 DEF Ativo, Bloqueiam, Bloco
      <3>5. CASE b.status # "hold"
        BY <2>2, <3>1, <3>2, <3>3, <3>5 DEF VivosDe
      <3>6. QED BY <3>4, <3>5
    <2>4. status'[q] = "expired" /\ prazo'[q] = SemPrazo
      BY <1>3, <1>4 DEF ExpirarLote
    <2>5. QED BY <2>3, <2>4, CoerenteSolto DEF Vivos
  <1>5. ASSUME NEW q \in Ids, q \notin lote PROVE Coerente(q)'
    <2>1. \A b \in blocos : b.dono = q => b \in blocos'
      BY <1>3, <1>5 DEF ExpirarLote
    <2>2. \A b \in blocos' : b.dono = q => b \in blocos
      BY <1>1, <1>3, <1>5 DEF ExpirarLote, Bloco
    <2>3. VivosDe(blocos', q) = VivosDe(blocos, q)
      BY <2>1, <2>2 DEF VivosDe
    <2>4. status'[q] = status[q] /\ prazo'[q] = prazo[q]
          /\ estadia'[q] = estadia[q] /\ unidadesDe'[q] = unidadesDe[q]
      BY <1>3, <1>5 DEF ExpirarLote
    <2>5. QED BY <1>1, <2>3, <2>4, CoerentePreservado
  <1>6. QED BY <1>4, <1>5 DEF CalendarioSegueReserva

\* An operational block belongs to no reservation.
LEMMA CalendarioBloquear ==
    ASSUME TypeOK, CalendarioSegueReserva, Bloquear
    PROVE  CalendarioSegueReserva'
  <1>1. blocos \subseteq Bloco /\ \A q \in Ids : Coerente(q)
    BY DEF TypeOK, CalendarioSegueReserva
  <1>2. \A q \in Ids : VivosDe(blocos', q) = VivosDe(blocos, q)
    <2> TAKE q \in Ids
    <2>1. ASSUME NEW us, NEW p, NEW fonte, CriarBloqueio(us, p, fonte)
          PROVE  VivosDe(blocos', q) = VivosDe(blocos, q)
      BY <2>1, ConstantesA DEF CriarBloqueio, VivosDe
    <2>2. ASSUME NEW b \in Operacionais, NEW t, LiberarBloqueio(b, t)
          PROVE  VivosDe(blocos', q) = VivosDe(blocos, q)
      <3>1. b.dono # q /\ [b EXCEPT !.status = "cancelled", !.expira = SemPrazo].dono # q
        BY <1>1, ConstantesA DEF Operacionais, Bloco
      <3>2. QED BY <2>2, <3>1 DEF LiberarBloqueio, VivosDe
    <2>3. QED BY <2>1, <2>2 DEF Bloquear
  <1>3. UNCHANGED <<status, prazo, estadia, unidadesDe>>
    BY DEF Bloquear, CriarBloqueio, LiberarBloqueio
  <1>4. QED BY <1>1, <1>2, <1>3, CoerentePreservado DEF CalendarioSegueReserva

LEMMA CalendarioAcao ==
    ASSUME TypeOK, CalendarioSegueReserva, NEW r \in Ids, Acao(r)
    PROVE  CalendarioSegueReserva'
  <1>1. CASE \E t \in Inicios, pago \in 1..conta[r].total : Confirmar(r, t, pago)
    BY <1>1, CalendarioConfirmar
  <1>2. ASSUME NEW t \in Inicios, NEW destino, Cancelar(r, t, destino)
        PROVE  CalendarioSegueReserva'
    <2>1. /\ DestinoDoBloco(status[r] = "checked_in") \in {"cancelled", "completed"}
          /\ destino \notin Vivos
      BY <1>2 DEF Cancelar, DestinoDoBloco, Vivos
    <2>2. /\ status' = [status EXCEPT ![r] = destino]
          /\ prazo'[r] = SemPrazo /\ \A q \in Ids \ {r} : prazo'[q] = prazo[q]
          /\ UNCHANGED <<estadia, unidadesDe>>
          /\ blocos' = MoverBlocosDaReserva(blocos, r, Bloqueiam,
                           DestinoDoBloco(status[r] = "checked_in"))
      BY <1>2 DEF Cancelar, TypeOK
    <2>3. QED BY <2>1, <2>2, CalendarioSoltar
  <1>3. CASE \E t \in Inicios, nova \in Livres, pedido \in Pedido : Remarcar(r, t, nova, pedido)
    BY <1>3, CalendarioRemarcar
  <1>4. CASE \E t \in Inicios, de, para \in Unidades : Realocar(r, t, de, para)
    BY <1>4, CalendarioRealocar
  <1>5. CASE \E t \in Inicios, horas \in HorasExtra : EstenderHold(r, t, horas)
    BY <1>5, CalendarioEstenderHold
  <1>6. ASSUME NEW dia \in Dias, RegistrarCheckIn(r, dia) PROVE CalendarioSegueReserva'
    <2>1. status[r] = "confirmed" /\ status' = [status EXCEPT ![r] = "checked_in"]
          /\ UNCHANGED <<estadia, prazo, unidadesDe, blocos>>
      BY <1>6 DEF RegistrarCheckIn, PodeEntrar
    <2>2. \A q \in Ids : Coerente(q)
      BY DEF CalendarioSegueReserva
    <2>3. status'[r] = "checked_in"
      BY <2>1 DEF TypeOK
    <2>4. BlocosEsperados(r)' = BlocosEsperados(r)
      BY <2>1, <2>3 DEF BlocosEsperados, BlocoDeReserva, StatusDoBlocoPara
    <2>5. VivosDe(blocos, r)' = VivosDe(blocos, r)
      BY <2>1 DEF VivosDe, Ativo
    <2>6. Coerente(r)'
      BY <2>1, <2>2, <2>3, <2>4, <2>5 DEF Coerente, Vivos
    <2>7. ASSUME NEW q \in Ids, q # r PROVE Coerente(q)'
      BY <2>1, <2>2, <2>7, CoerentePreservado DEF TypeOK
    <2>8. QED BY <2>6, <2>7 DEF CalendarioSegueReserva
  <1>7. ASSUME NEW dia \in Dias, RegistrarCheckOut(r, dia) PROVE CalendarioSegueReserva'
    <2>1. prazo[r] = SemPrazo
      BY <1>7 DEF CalendarioSegueReserva, Coerente, Vivos, RegistrarCheckOut
    <2>2. /\ status' = [status EXCEPT ![r] = "checked_out"]
          /\ UNCHANGED <<estadia, prazo, unidadesDe>>
          /\ blocos' = MoverBlocosDaReserva(blocos, r, Bloqueiam, "completed")
      BY <1>7 DEF RegistrarCheckOut
    <2>3. QED BY <2>1, <2>2, CalendarioSoltar DEF Vivos
  <1>8. QED BY <1>1, <1>2, <1>3, <1>4, <1>5, <1>6, <1>7 DEF Acao

LEMMA CalendarioInicial == Init => CalendarioSegueReserva
  BY DEF Init, CalendarioSegueReserva, Coerente, Vivos, VivosDe

LEMMA CalendarioProximo ==
    TypeOK /\ CalendarioSegueReserva /\ [Next]_vars => CalendarioSegueReserva'
  <1> SUFFICES ASSUME TypeOK, CalendarioSegueReserva, [Next]_vars
               PROVE  CalendarioSegueReserva'
    OBVIOUS
  <1>1. CASE Criar
    BY <1>1, CalendarioCriar
  <1>2. ASSUME NEW r \in Ids, Acao(r) PROVE CalendarioSegueReserva'
    BY <1>2, CalendarioAcao
  <1>3. CASE Expirar
    BY <1>3, CalendarioExpirar
  <1>4. CASE Bloquear
    BY <1>4, CalendarioBloquear
  <1>5. CASE UNCHANGED <<status, prazo, estadia, unidadesDe, blocos>>
    BY <1>5, CoerentePreservado DEF CalendarioSegueReserva
  <1>6. QED BY <1>1, <1>2, <1>3, <1>4, <1>5 DEF Next, Tique, vars

\* A live reservation holds exactly the rows its state calls for, and any other
\* holds no date, after any sequence of the engine's transactions.
THEOREM CalendarioConcorda == Spec => []CalendarioSegueReserva
  <1>1. Init => TypeOK /\ CalendarioSegueReserva
    BY TipoInicial, CalendarioInicial
  <1>2. TypeOK /\ CalendarioSegueReserva /\ [Next]_vars
            => TypeOK' /\ CalendarioSegueReserva'
    BY TipoProximo, CalendarioProximo
  <1>3. QED BY <1>1, <1>2, PTL DEF Spec

-----------------------------------------------------------------------------
(* The whole house.                                                        *)

LEMMA CasaAlocadaEmitir ==
    ASSUME TypeOK, CasaAlocada,
           NEW base, NEW t, NEW r \in Ids, NEW pedido \in Pedido, NEW estado,
           NEW origem, NEW saldo,
           base.status \in [Ids -> Estados],
           \A q \in Ids \ {r} : base.status[q] \in Vivos => base.status[q] = status[q],
           Emitir(base, t, r, pedido, estado, origem, saldo)
    PROVE  CasaAlocada'
  <1>1. PICK us \in Alocacoes(base.blocos, pedido) :
            /\ status' = [base.status EXCEPT ![r] = estado]
            /\ unidadesDe' = [unidadesDe EXCEPT ![r] = us]
    BY DEF Emitir
  <1>2. estadia' = [estadia EXCEPT ![r] = pedido]
    BY DEF Emitir
  <1>3. Consome[pedido.produto] = "all_members" => us = Membros[pedido.produto]
    BY DEF Alocacoes
  <1>4. estadia'[r] = pedido /\ unidadesDe'[r] = us
    BY <1>1, <1>2 DEF TypeOK
  <1>5. \A q \in Ids \ {r} : /\ status'[q] = base.status[q] /\ estadia'[q] = estadia[q]
                             /\ unidadesDe'[q] = unidadesDe[q]
    BY <1>1, <1>2 DEF TypeOK
  <1>6. QED BY <1>3, <1>4, <1>5 DEF CasaAlocada, AlugaTudo

LEMMA CasaAlocadaProximo == TypeOK /\ CasaAlocada /\ [Next]_vars => CasaAlocada'
  <1> SUFFICES ASSUME TypeOK, CasaAlocada, [Next]_vars PROVE CasaAlocada'
    OBVIOUS
  <1>0. \* no other action makes a reservation live, moves its stay or its units
        ASSUME UNCHANGED <<estadia, unidadesDe>>,
               \A q \in Ids : status'[q] \in Vivos => status[q] \in Vivos
        PROVE  CasaAlocada'
    BY <1>0 DEF CasaAlocada, AlugaTudo
  <1>1. CASE Criar
    <2>1. PICK t \in Inicios, r \in Livres, pedido \in Pedido :
              Emitir(Atual, t, r, pedido, "hold", Nenhuma, 0)
      BY <1>1 DEF Criar
    <2>2. Atual.status = status /\ status \in [Ids -> Estados] /\ r \in Ids
      BY DEF Atual, TypeOK, Livres
    <2>3. QED BY <2>1, <2>2, CasaAlocadaEmitir
  <1>2. ASSUME NEW r \in Ids, Acao(r) PROVE CasaAlocada'
    <2>1. ASSUME NEW t, NEW pago, Confirmar(r, t, pago) PROVE CasaAlocada'
      BY <1>0, <2>1 DEF Confirmar, TypeOK, Vivos
    <2>2. ASSUME NEW t, NEW destino, Cancelar(r, t, destino) PROVE CasaAlocada'
      BY <1>0, <2>2 DEF Cancelar, TypeOK, Vivos
    <2>3. ASSUME NEW t, NEW nova \in Livres, NEW pedido \in Pedido, Remarcar(r, t, nova, pedido)
          PROVE  CasaAlocada'
      <3> DEFINE base ==
            [status |-> [status EXCEPT ![r] = "cancelled"],
             prazo  |-> [prazo EXCEPT ![r] = SemPrazo],
             agenda |-> [agenda EXCEPT ![r] = OnCancel(agenda[r], FALSE, t)],
             blocos |-> MoverBlocosDaReserva(blocos, r, Bloqueiam, "cancelled")]
      <3>1. Emitir(base, t, nova, pedido, status[r], r, SaldoHerdado(r)) /\ nova \in Ids
        BY <2>3 DEF Remarcar, EstadoDaNova, Livres
      <3>2. /\ base.status \in [Ids -> Estados]
            /\ \A q \in Ids \ {nova} : base.status[q] \in Vivos => base.status[q] = status[q]
        BY DEF TypeOK, Estados, Transicoes, Vivos
      <3> HIDE DEF base
      <3>3. QED BY <3>1, <3>2, CasaAlocadaEmitir
    <2>4. ASSUME NEW t, NEW de, NEW para, Realocar(r, t, de, para) PROVE CasaAlocada'
      <3>1. /\ UNCHANGED <<status, estadia>> /\ Consome[estadia[r].produto] = "one_member"
            /\ \A q \in Ids \ {r} : unidadesDe'[q] = unidadesDe[q]
        BY <2>4 DEF Realocar, PodeRealocar, TypeOK
      <3>2. QED BY <3>1 DEF CasaAlocada, AlugaTudo
    <2>5. ASSUME NEW t, NEW horas, EstenderHold(r, t, horas) PROVE CasaAlocada'
      BY <1>0, <2>5 DEF EstenderHold
    <2>6. ASSUME NEW dia, RegistrarCheckIn(r, dia) PROVE CasaAlocada'
      BY <1>0, <2>6 DEF RegistrarCheckIn, PodeEntrar, TypeOK, Vivos
    <2>7. ASSUME NEW dia, RegistrarCheckOut(r, dia) PROVE CasaAlocada'
      BY <1>0, <2>7 DEF RegistrarCheckOut, TypeOK, Vivos
    <2>8. QED BY <1>2, <2>1, <2>2, <2>3, <2>4, <2>5, <2>6, <2>7 DEF Acao
  <1>3. CASE Expirar
    BY <1>0, <1>3 DEF Expirar, ExpirarLote, Vivos
  <1>4. CASE Bloquear
    BY <1>0, <1>4 DEF Bloquear, CriarBloqueio, LiberarBloqueio
  <1>5. CASE UNCHANGED <<status, estadia, unidadesDe>>
    BY <1>0, <1>5
  <1>6. QED BY <1>1, <1>2, <1>3, <1>4, <1>5 DEF Next, Tique, vars

\* Exclusivity and agreement, read together for a house sold whole.
LEMMA CasaInteiraSegue ==
    ASSUME TypeOK, SemSobreposicao, CalendarioSegueReserva, CasaAlocada
    PROVE  CasaInteira
  <1> SUFFICES ASSUME NEW r \in Ids, AlugaTudo(r),
                      NEW u \in Membros[estadia[r].produto], NEW d \in Dias,
                      DaNoite(estadia[r], d)
               PROVE  {b.dono : b \in {c \in blocos : Ativo(c) /\ c.unidade = u /\ DaNoite(c, d)}}
                        = {r}
    BY DEF CasaInteira
  <1> DEFINE B == BlocoDeReserva(r, u, estadia[r], StatusDoBlocoPara(status[r]), prazo[r])
  <1>1. u \in unidadesDe[r]
    BY DEF CasaAlocada
  <1>2. B \in VivosDe(blocos, r)
    BY <1>1 DEF CalendarioSegueReserva, Coerente, AlugaTudo, BlocosEsperados
  <1>3. B \in blocos /\ Ativo(B) /\ B.dono = r
    BY <1>2 DEF VivosDe
  <1>4. B.unidade = u /\ DaNoite(B, d)
    BY DEF BlocoDeReserva, DaNoite
  <1> HIDE DEF B
  <1>5. \A c \in blocos : Ativo(c) /\ c.unidade = u /\ DaNoite(c, d) => c = B
    BY <1>3, <1>4 DEF SemSobreposicao, Exclusivos
  <1>6. QED BY <1>3, <1>4, <1>5

\* Whoever rented the whole house holds every unit of it, every night, alone,
\* whatever the other guests, the house itself and the clock do meanwhile.
THEOREM CasaSempreInteira == Spec => []CasaInteira
  <1>1. Init => TypeOK /\ SemSobreposicao /\ CalendarioSegueReserva /\ CasaAlocada
    BY TipoInicial, SemSobreposicaoInicial, CalendarioInicial
       DEF Init, CasaAlocada, AlugaTudo, Vivos
  <1>2. TypeOK /\ SemSobreposicao /\ CalendarioSegueReserva /\ CasaAlocada /\ [Next]_vars
            => TypeOK' /\ SemSobreposicao' /\ CalendarioSegueReserva' /\ CasaAlocada'
    BY TipoProximo, SobreposicaoProximo, CalendarioProximo, CasaAlocadaProximo
  <1>3. TypeOK /\ SemSobreposicao /\ CalendarioSegueReserva /\ CasaAlocada => CasaInteira
    BY CasaInteiraSegue
  <1>4. QED BY <1>1, <1>2, <1>3, PTL DEF Spec


-----------------------------------------------------------------------------
(* What happened to a stay can be read afterwards.                         *)

RastroDe(r) == PassagemRegistrada(r) /\ AgendaSegueReserva(r) /\ EstadiaFicaNoMapa(r)

Rastros == \A r \in Ids : RastroDe(r)

Dormida(b, r) == b.dono = r /\ b.status \in {"confirmed", "completed"}

\* A reservation no table of which moved keeps its story.
LEMMA RastroPreservado ==
    ASSUME NEW q \in Ids, RastroDe(q),
           status'[q] = status[q], estadia'[q] = estadia[q], agenda'[q] = agenda[q],
           entrada'[q] = entrada[q], saida'[q] = saida[q],
           \A b \in blocos : b.dono = q => b \in blocos'
    PROVE  RastroDe(q)'
  BY DEF RastroDe, PassagemRegistrada, AgendaSegueReserva, EstadiaFicaNoMapa

\* Whoever has not arrived has nothing on the map to keep.
LEMMA RastroSemEntrada ==
    ASSUME NEW q \in Ids, entrada'[q] = SemDia, saida'[q] = SemDia,
           status'[q] \notin {"checked_in", "checked_out"},
           IF status'[q] \in {"inexistente", "hold", "expired"} THEN agenda'[q] = SemAgenda
           ELSE IF status'[q] = "confirmed" THEN agenda'[q] = Plan(estadia'[q])
           ELSE "agendado" \notin {agenda'[q].entrada, agenda'[q].saida, agenda'[q].limpeza}
    PROVE  RastroDe(q)'
  BY DEF RastroDe, PassagemRegistrada, AgendaSegueReserva, EstadiaFicaNoMapa

\* Nothing scheduled survives a cancellation before arrival.
LEMMA NadaAgendado ==
    ASSUME NEW a \in Agenda, NEW t, NEW c, c = OnCancel(a, FALSE, t)
    PROVE  "agendado" \notin {c.entrada, c.saida, c.limpeza}
  <1> DEFINE meio == [a EXCEPT !.entrada = SeAgendado(a.entrada, "cancelado"),
                               !.saida   = SeAgendado(a.saida, "cancelado")]
  <1>1. c = [meio EXCEPT !.limpeza = SeAgendado(a.limpeza, "cancelado")]
    BY DEF OnCancel
  <1>2. /\ meio.entrada = SeAgendado(a.entrada, "cancelado")
        /\ meio.saida = SeAgendado(a.saida, "cancelado")
        /\ meio \in Agenda
    <2>1. /\ SeAgendado(a.entrada, "cancelado") \in EstadoDoEvento
          /\ SeAgendado(a.saida, "cancelado") \in EstadoDoEvento
      BY DEF Agenda, EstadoDoEvento, SeAgendado
    <2>2. QED BY <2>1 DEF Agenda
  <1> HIDE DEF meio
  <1>3. /\ c.entrada = SeAgendado(a.entrada, "cancelado")
        /\ c.saida = SeAgendado(a.saida, "cancelado")
        /\ c.limpeza = SeAgendado(a.limpeza, "cancelado")
    BY <1>1, <1>2 DEF Agenda
  <1>4. QED BY <1>3 DEF SeAgendado

\* A guest inside has a row that says so.
LEMMA HospedeNoMapa ==
    ASSUME NEW r \in Ids, Coerente(r), status[r] \in {"confirmed", "checked_in"}
    PROVE  \E b \in blocos : b.dono = r /\ b.status = "confirmed"
  <1>1. PICK u \in unidadesDe[r] : TRUE
    BY DEF Coerente, Vivos
  <1> DEFINE b == BlocoDeReserva(r, u, estadia[r], StatusDoBlocoPara(status[r]), prazo[r])
  <1>2. b \in VivosDe(blocos, r)
    BY DEF Coerente, Vivos, BlocosEsperados
  <1>3. b.dono = r /\ b.status = "confirmed"
    BY DEF BlocoDeReserva, StatusDoBlocoPara
  <1>4. QED BY <1>2, <1>3 DEF VivosDe

LEMMA DormidaMovida ==
    ASSUME NEW r, NEW b \in blocos, b \in Bloco, b.dono = r, b.status = "confirmed"
    PROVE  \E c \in MoverBlocosDaReserva(blocos, r, Bloqueiam, "completed") : Dormida(c, r)
  <1> DEFINE c == [b EXCEPT !.status = "completed", !.expira = SemPrazo]
  <1>1. c.dono = r /\ c.status = "completed"
    BY DEF Bloco
  <1>2. c \in MoverBlocosDaReserva(blocos, r, Bloqueiam, "completed")
    <2>1. c = IF b.dono = r /\ b.status \in Bloqueiam
              THEN [b EXCEPT !.status = "completed",
                             !.expira = IF "completed" = "hold" THEN b.expira ELSE SemPrazo]
              ELSE b
      BY DEF Bloqueiam
    <2> HIDE DEF c
    <2>2. QED BY <2>1 DEF MoverBlocosDaReserva
  <1> HIDE DEF c
  <1>3. QED BY <1>1, <1>2 DEF Dormida

\* Issuing a sale moves no other reservation further than the transaction had.
LEMMA EmitirAlheio ==
    ASSUME TypeOK,
           NEW base, NEW t, NEW r \in Ids, NEW pedido, NEW estado, NEW origem, NEW saldo,
           base.status \in [Ids -> Estados], base.agenda \in [Ids -> Agenda],
           Emitir(base, t, r, pedido, estado, origem, saldo)
    PROVE  /\ base.blocos \subseteq blocos'
           /\ \A q \in Ids \ {r} : /\ status'[q] = base.status[q] /\ estadia'[q] = estadia[q]
                                   /\ agenda'[q] = base.agenda[q]
                                   /\ entrada'[q] = entrada[q] /\ saida'[q] = saida[q]
  <1>1. /\ status' = [base.status EXCEPT ![r] = estado]
        /\ estadia' = [estadia EXCEPT ![r] = pedido]
        /\ agenda' = IF estado = "confirmed" THEN [base.agenda EXCEPT ![r] = Plan(pedido)]
                     ELSE base.agenda
        /\ entrada' = entrada /\ saida' = saida
        /\ base.blocos \subseteq blocos'
    BY DEF Emitir
  <1>2. QED BY <1>1 DEF TypeOK

\* A new sale has no arrival yet, and its agenda is the one of its state.
LEMMA RastroEmitir ==
    ASSUME TypeOK, Rastros,
           NEW base, NEW t, NEW r \in Ids, NEW pedido \in Pedido, NEW estado \in {"hold", "confirmed"},
           NEW origem, NEW saldo,
           base.status \in [Ids -> Estados], base.agenda \in [Ids -> Agenda],
           base.agenda[r] = agenda[r],
           Emitir(base, t, r, pedido, estado, origem, saldo)
    PROVE  RastroDe(r)'
  <1>1. /\ status' = [base.status EXCEPT ![r] = estado]
        /\ estadia' = [estadia EXCEPT ![r] = pedido]
        /\ agenda' = IF estado = "confirmed" THEN [base.agenda EXCEPT ![r] = Plan(pedido)]
                     ELSE base.agenda
        /\ entrada' = entrada /\ saida' = saida /\ status[r] = "inexistente"
    BY DEF Emitir, Livres
  <1>2. RastroDe(r)
    BY DEF Rastros
  <1>3. entrada[r] = SemDia /\ saida[r] = SemDia /\ agenda[r] = SemAgenda
    BY <1>1, <1>2 DEF RastroDe, PassagemRegistrada, AgendaSegueReserva
  <1>4. status'[r] = estado /\ estadia'[r] = pedido
    BY <1>1 DEF TypeOK
  <1>5. agenda'[r] = IF estado = "confirmed" THEN Plan(pedido) ELSE SemAgenda
    BY <1>1, <1>3
  <1>6. QED BY <1>1, <1>3, <1>4, <1>5, RastroSemEntrada

LEMMA RastroRemarcar ==
    ASSUME TypeOK, Rastros, NEW r \in Ids, NEW t \in Inicios,
           NEW nova \in Livres, NEW pedido \in Pedido, Remarcar(r, t, nova, pedido)
    PROVE  Rastros'
  <1> DEFINE base ==
        [status |-> [status EXCEPT ![r] = "cancelled"],
         prazo  |-> [prazo EXCEPT ![r] = SemPrazo],
         agenda |-> [agenda EXCEPT ![r] = OnCancel(agenda[r], FALSE, t)],
         blocos |-> MoverBlocosDaReserva(blocos, r, Bloqueiam, "cancelled")]
  <1>1. /\ Emitir(base, t, nova, pedido, status[r], r, SaldoHerdado(r))
        /\ status[r] \in {"hold", "confirmed"} /\ nova \in Ids /\ nova # r
    BY DEF Remarcar, EstadoDaNova, Livres
  <1>2. OnCancel(agenda[r], FALSE, t) \in Agenda
    BY AgendaTipada, InicioTipado DEF TypeOK
  <1>3. /\ base.status \in [Ids -> Estados] /\ base.agenda \in [Ids -> Agenda]
        /\ base.agenda[nova] = agenda[nova]
    BY <1>1, <1>2 DEF TypeOK, Estados, Transicoes
  <1>4. /\ base.status[r] = "cancelled" /\ base.agenda[r] = OnCancel(agenda[r], FALSE, t)
        /\ \A q \in Ids \ {r} : base.status[q] = status[q] /\ base.agenda[q] = agenda[q]
        /\ base.blocos = MoverBlocosDaReserva(blocos, r, Bloqueiam, "cancelled")
    BY DEF TypeOK
  <1> HIDE DEF base
  <1>5. /\ RastroDe(nova)'
        /\ base.blocos \subseteq blocos'
        /\ \A q \in Ids \ {nova} : /\ status'[q] = base.status[q] /\ estadia'[q] = estadia[q]
                                   /\ agenda'[q] = base.agenda[q]
                                   /\ entrada'[q] = entrada[q] /\ saida'[q] = saida[q]
    <2>1. RastroDe(nova)'
      BY <1>1, <1>3, RastroEmitir
    <2>2. QED BY <1>1, <1>3, <2>1, EmitirAlheio
  <1>6. RastroDe(r)'
    <2>1. entrada[r] = SemDia /\ saida[r] = SemDia
      BY <1>1 DEF Rastros, RastroDe, PassagemRegistrada
    <2>2. "agendado" \notin {agenda'[r].entrada, agenda'[r].saida, agenda'[r].limpeza}
      <3>1. agenda'[r] = OnCancel(agenda[r], FALSE, t) /\ agenda[r] \in Agenda
        BY <1>1, <1>4, <1>5 DEF TypeOK
      <3>2. QED BY <3>1, NadaAgendado
    <2>3. status'[r] = "cancelled" /\ entrada'[r] = SemDia /\ saida'[r] = SemDia
      BY <1>1, <1>4, <1>5, <2>1
    <2>4. QED BY <2>2, <2>3, RastroSemEntrada
  <1>7. ASSUME NEW q \in Ids, q # r, q # nova PROVE RastroDe(q)'
    <2>0. \A b \in blocos : b.dono = q => b \in base.blocos
      BY <1>4, <1>7 DEF MoverBlocosDaReserva
    <2>1. \A b \in blocos : b.dono = q => b \in blocos'
      BY <1>5, <2>0
    <2>2. QED BY <1>4, <1>5, <1>7, <2>1, RastroPreservado DEF Rastros
  <1>8. QED BY <1>5, <1>6, <1>7 DEF Rastros

LEMMA RastroCancelar ==
    ASSUME TypeOK, CalendarioSegueReserva, Rastros, NEW r \in Ids, NEW t \in Inicios, NEW destino,
           Cancelar(r, t, destino)
    PROVE  RastroDe(r)'
  <1>1. RastroDe(r) /\ Coerente(r)
    BY DEF Rastros, CalendarioSegueReserva
  <1>2. /\ destino \in {"cancelled", "no_show"} /\ status'[r] = destino
        /\ estadia' = estadia /\ entrada' = entrada /\ saida' = saida
        /\ agenda'[r] = OnCancel(agenda[r], status[r] = "checked_in", t)
        /\ blocos' = MoverBlocosDaReserva(blocos, r, Bloqueiam, DestinoDoBloco(status[r] = "checked_in"))
        /\ status[r] \notin {"checked_out", "cancelled", "no_show"}
    BY DEF Cancelar, TypeOK, Cancelavel
  <1>3. CASE status[r] # "checked_in"
    <2>1. entrada[r] = SemDia /\ saida[r] = SemDia
      BY <1>1, <1>2, <1>3 DEF RastroDe, PassagemRegistrada
    <2>2. "agendado" \notin {agenda'[r].entrada, agenda'[r].saida, agenda'[r].limpeza}
      BY <1>2, <1>3, NadaAgendado DEF TypeOK
    <2>3. QED BY <1>2, <2>1, <2>2, RastroSemEntrada
  <1>4. CASE status[r] = "checked_in"
    <2>1. entrada[r] # SemDia /\ saida[r] = SemDia /\ agenda[r] = OnCheckIn(Plan(estadia[r]))
      BY <1>1, <1>4 DEF RastroDe, PassagemRegistrada, AgendaSegueReserva
    <2>2. estadia[r].ate \in Int /\ t \in Int
      BY InicioTipado DEF TypeOK, Pedido, Dias, Inicios
    <2>3. /\ agenda'[r].entrada = "concluido" /\ agenda'[r].saida # "agendado"
          /\ agenda'[r].limpeza = "agendado" /\ agenda'[r].diaLimpeza <= estadia[r].ate
      BY <1>2, <1>4, <2>1, <2>2 DEF OnCancel, OnCheckIn, Plan, SeAgendado, TrazerLimpeza
    <2>4. PICK b \in blocos : b.dono = r /\ b.status = "confirmed"
      BY <1>1, <1>4, HospedeNoMapa
    <2>5. \E c \in blocos' : Dormida(c, r)
      BY <1>2, <1>4, <2>4, DormidaMovida DEF DestinoDoBloco, TypeOK
    <2>6. EstadiaFicaNoMapa(r)'
      BY <2>5 DEF EstadiaFicaNoMapa, Dormida
    <2>7. PassagemRegistrada(r)' /\ AgendaSegueReserva(r)'
      BY <1>2, <2>1, <2>3 DEF PassagemRegistrada, AgendaSegueReserva
    <2>8. QED BY <2>6, <2>7 DEF RastroDe
  <1>5. QED BY <1>3, <1>4

LEMMA RastroEntrar ==
    ASSUME TypeOK, CalendarioSegueReserva, Rastros, NEW r \in Ids, NEW dia \in Dias,
           RegistrarCheckIn(r, dia)
    PROVE  RastroDe(r)'
  <1>1. RastroDe(r) /\ Coerente(r)
    BY DEF Rastros, CalendarioSegueReserva
  <1>2. /\ status[r] = "confirmed" /\ status'[r] = "checked_in"
        /\ entrada'[r] = dia /\ estadia' = estadia /\ saida' = saida /\ blocos' = blocos
        /\ agenda'[r] = OnCheckIn(agenda[r])
    BY DEF RegistrarCheckIn, PodeEntrar, TypeOK
  <1>3. saida[r] = SemDia /\ agenda[r] = Plan(estadia[r])
    BY <1>1, <1>2 DEF RastroDe, PassagemRegistrada, AgendaSegueReserva
  <1>4. dia # SemDia
    BY DEF Dias, SemDia
  <1>5. EstadiaFicaNoMapa(r)'
    BY <1>1, <1>2, HospedeNoMapa DEF EstadiaFicaNoMapa
  <1>6. QED BY <1>2, <1>3, <1>4, <1>5 DEF RastroDe, PassagemRegistrada, AgendaSegueReserva

LEMMA RastroSair ==
    ASSUME TypeOK, CalendarioSegueReserva, Rastros, NEW r \in Ids, NEW dia \in Dias,
           RegistrarCheckOut(r, dia)
    PROVE  RastroDe(r)'
  <1>1. RastroDe(r) /\ Coerente(r)
    BY DEF Rastros, CalendarioSegueReserva
  <1>2. /\ status[r] = "checked_in" /\ status'[r] = "checked_out"
        /\ saida'[r] = dia /\ estadia' = estadia /\ entrada' = entrada
        /\ blocos' = MoverBlocosDaReserva(blocos, r, Bloqueiam, "completed")
        /\ agenda'[r] = OnCheckOut(agenda[r], dia, estadia[r])
        /\ dia <= estadia[r].ate
    BY DEF RegistrarCheckOut, TypeOK
  <1>3. entrada[r] # SemDia /\ agenda[r] = OnCheckIn(Plan(estadia[r]))
    BY <1>1, <1>2 DEF RastroDe, PassagemRegistrada, AgendaSegueReserva
  <1>4. estadia[r].ate \in Int /\ dia \in Int
    BY DEF TypeOK, Pedido, Dias
  <1>5. /\ agenda'[r].entrada = "concluido" /\ agenda'[r].saida # "agendado"
        /\ agenda'[r].limpeza = "agendado" /\ agenda'[r].diaLimpeza <= estadia[r].ate
        /\ agenda'[r].diaLimpeza <= dia
    BY <1>2, <1>3, <1>4 DEF OnCheckOut, OnCheckIn, Plan, SeAgendado, TrazerLimpeza
  <1>6. PICK b \in blocos : b.dono = r /\ b.status = "confirmed"
    BY <1>1, <1>2, HospedeNoMapa
  <1>7. \E c \in blocos' : Dormida(c, r)
    BY <1>2, <1>6, DormidaMovida DEF TypeOK
  <1>8. EstadiaFicaNoMapa(r)'
    BY <1>7 DEF EstadiaFicaNoMapa, Dormida
  <1>9. QED BY <1>2, <1>3, <1>5, <1>8 DEF RastroDe, PassagemRegistrada, AgendaSegueReserva

LEMMA RastroRealocar ==
    ASSUME TypeOK, Rastros, NEW r \in Ids, NEW t, NEW de, NEW para, Realocar(r, t, de, para)
    PROVE  Rastros'
  <1> DEFINE novo == BlocoDeReserva(r, para, estadia[r], StatusDoBlocoPara(status[r]), prazo[r])
  <1>1. /\ UNCHANGED <<status, estadia, entrada, saida, agenda>>
        /\ status[r] \in Vivos /\ novo \in blocos'
        /\ \A b \in blocos : b.dono # r => b \in blocos'
    BY DEF Realocar
  <1>2. ASSUME NEW q \in Ids, q # r PROVE RastroDe(q)'
    BY <1>1, <1>2, RastroPreservado DEF Rastros
  <1>3. EstadiaFicaNoMapa(r)'
    <2>1. entrada[r] # SemDia => status[r] = "checked_in"
      BY <1>1 DEF Rastros, RastroDe, PassagemRegistrada, Vivos
    <2>2. status[r] = "checked_in" => novo.dono = r /\ novo.status = "confirmed"
      BY DEF BlocoDeReserva, StatusDoBlocoPara
    <2> HIDE DEF novo
    <2>3. QED BY <1>1, <2>1, <2>2 DEF EstadiaFicaNoMapa
  <1>4. RastroDe(r)'
    BY <1>1, <1>3 DEF Rastros, RastroDe, PassagemRegistrada, AgendaSegueReserva
  <1>5. QED BY <1>2, <1>4 DEF Rastros

LEMMA RastroAcao ==
    ASSUME TypeOK, CalendarioSegueReserva, Rastros, NEW r \in Ids, Acao(r)
    PROVE  Rastros'
  <1>0. ASSUME RastroDe(r)',
               \A q \in Ids \ {r} : /\ status'[q] = status[q] /\ estadia'[q] = estadia[q]
                                    /\ agenda'[q] = agenda[q] /\ entrada'[q] = entrada[q]
                                    /\ saida'[q] = saida[q],
               \A b \in blocos : b.dono # r => b \in blocos'
        PROVE  Rastros'
    BY <1>0, RastroPreservado DEF Rastros
  <1>m. ASSUME NEW de, NEW para, blocos' = MoverBlocosDaReserva(blocos, r, de, para)
        PROVE  \A b \in blocos : b.dono # r => b \in blocos'
    BY <1>m DEF MoverBlocosDaReserva
  <1>1. ASSUME NEW t, NEW pago, Confirmar(r, t, pago) PROVE Rastros'
    <2>1. entrada[r] = SemDia /\ saida[r] = SemDia
      BY <1>1 DEF Confirmar, Rastros, RastroDe, PassagemRegistrada
    <2>2. /\ status'[r] = "confirmed" /\ agenda'[r] = Plan(estadia'[r])
          /\ entrada'[r] = SemDia /\ saida'[r] = SemDia
      BY <1>1, <2>1 DEF Confirmar, TypeOK
    <2>3. RastroDe(r)'
      BY <2>2, RastroSemEntrada
    <2>4. QED BY <1>0, <1>1, <1>m, <2>3 DEF Confirmar, TypeOK
  <1>2. ASSUME NEW t \in Inicios, NEW destino, Cancelar(r, t, destino) PROVE Rastros'
    <2>1. RastroDe(r)'
      BY <1>2, RastroCancelar
    <2>2. QED BY <1>0, <1>2, <1>m, <2>1 DEF Cancelar, TypeOK
  <1>3. CASE \E t \in Inicios, nova \in Livres, pedido \in Pedido : Remarcar(r, t, nova, pedido)
    BY <1>3, RastroRemarcar
  <1>4. CASE \E t \in Inicios, de, para \in Unidades : Realocar(r, t, de, para)
    BY <1>4, RastroRealocar
  <1>5. ASSUME NEW t, NEW horas, EstenderHold(r, t, horas) PROVE Rastros'
    <2>1. entrada[r] = SemDia
      BY <1>5 DEF EstenderHold, Rastros, RastroDe, PassagemRegistrada
    <2>2. RastroDe(r)'
      BY <1>5, <2>1 DEF EstenderHold, Rastros, RastroDe, PassagemRegistrada, AgendaSegueReserva,
                        EstadiaFicaNoMapa
    <2>3. \A b \in blocos : b.dono # r => b \in blocos'
      BY <1>5 DEF EstenderHold
    <2>4. QED BY <1>0, <1>5, <2>2, <2>3 DEF EstenderHold, TypeOK
  <1>6. ASSUME NEW dia \in Dias, RegistrarCheckIn(r, dia) PROVE Rastros'
    <2>1. RastroDe(r)'
      BY <1>6, RastroEntrar
    <2>2. QED BY <1>0, <1>6, <2>1 DEF RegistrarCheckIn, TypeOK
  <1>7. ASSUME NEW dia \in Dias, RegistrarCheckOut(r, dia) PROVE Rastros'
    <2>1. RastroDe(r)'
      BY <1>7, RastroSair
    <2>2. QED BY <1>0, <1>7, <1>m, <2>1 DEF RegistrarCheckOut, TypeOK
  <1>8. QED BY <1>1, <1>2, <1>3, <1>4, <1>5, <1>6, <1>7 DEF Acao

LEMMA RastroExpirar ==
    ASSUME TypeOK, Rastros, Expirar
    PROVE  Rastros'
  <1>1. PICK t \in Inicios : \E lote \in SUBSET Vencidas(t) : ExpirarLote(t, lote)
    BY DEF Expirar
  <1>2. PICK lote \in SUBSET Vencidas(t) : ExpirarLote(t, lote)
    BY <1>1
  <1>3. UNCHANGED <<estadia, agenda, entrada, saida>>
    BY <1>2 DEF ExpirarLote
  <1>4. ASSUME NEW q \in lote PROVE RastroDe(q)'
    <2>1. q \in Ids /\ status[q] = "hold" /\ status'[q] = "expired"
      BY <1>2 DEF ExpirarLote, Vencidas
    <2>2. entrada[q] = SemDia /\ saida[q] = SemDia /\ agenda[q] = SemAgenda
      BY <2>1 DEF Rastros, RastroDe, PassagemRegistrada, AgendaSegueReserva
    <2>3. QED BY <1>3, <2>1, <2>2, RastroSemEntrada
  <1>5. ASSUME NEW q \in Ids, q \notin lote PROVE RastroDe(q)'
    <2>1. status'[q] = status[q] /\ \A b \in blocos : b.dono = q => b \in blocos'
      BY <1>2, <1>5 DEF ExpirarLote
    <2>2. QED BY <1>3, <1>5, <2>1, RastroPreservado DEF Rastros
  <1>6. QED BY <1>4, <1>5 DEF Rastros

LEMMA RastroProximo ==
    TypeOK /\ CalendarioSegueReserva /\ Rastros /\ [Next]_vars => Rastros'
  <1> SUFFICES ASSUME TypeOK, CalendarioSegueReserva, Rastros, [Next]_vars PROVE Rastros'
    OBVIOUS
  <1>1. CASE Criar
    <2>1. PICK t \in Inicios, r \in Livres, pedido \in Pedido :
              Emitir(Atual, t, r, pedido, "hold", Nenhuma, 0)
      BY <1>1 DEF Criar
    <2>2. /\ Atual.status = status /\ Atual.agenda = agenda /\ Atual.blocos = blocos
          /\ r \in Ids /\ status \in [Ids -> Estados] /\ agenda \in [Ids -> Agenda]
      BY DEF Atual, Livres, TypeOK
    <2>3. /\ RastroDe(r)' /\ blocos \subseteq blocos'
          /\ \A q \in Ids \ {r} : /\ status'[q] = status[q] /\ estadia'[q] = estadia[q]
                                  /\ agenda'[q] = agenda[q]
                                  /\ entrada'[q] = entrada[q] /\ saida'[q] = saida[q]
      BY <2>1, <2>2, RastroEmitir, EmitirAlheio
    <2>4. QED BY <2>3, RastroPreservado DEF Rastros
  <1>2. CASE \E r \in Ids : Acao(r)
    BY <1>2, RastroAcao
  <1>3. CASE Expirar
    BY <1>3, RastroExpirar
  <1>4. CASE Bloquear
    <2>1. UNCHANGED <<status, estadia, agenda, entrada, saida>>
      BY <1>4 DEF Bloquear, CriarBloqueio, LiberarBloqueio
    <2>2. \A b \in blocos : b.dono # Nenhuma => b \in blocos'
      BY <1>4 DEF Bloquear, CriarBloqueio, LiberarBloqueio, Operacionais
    <2>3. QED BY <2>1, <2>2, RastroPreservado, ConstantesA DEF Rastros
  <1>5. CASE UNCHANGED <<status, estadia, agenda, entrada, saida, blocos>>
    BY <1>5, RastroPreservado DEF Rastros
  <1>6. QED BY <1>1, <1>2, <1>3, <1>4, <1>5 DEF Next, Tique, vars

LEMMA RastroInicial == Init => Rastros
  BY DEF Init, Rastros, RastroDe, PassagemRegistrada, AgendaSegueReserva, EstadiaFicaNoMapa

\* Whatever operations a stay went through, the agenda says what is still to be done
\* for it and the map that it was slept (domain/agenda/reservation.go, service_acoes.go).
THEOREM EstadiaSempreDeixaRastro == Spec => []EstadiaDeixaRastro
  <1>1. Init => TypeOK /\ CalendarioSegueReserva /\ Rastros
    BY TipoInicial, CalendarioInicial, RastroInicial
  <1>2. TypeOK /\ CalendarioSegueReserva /\ Rastros /\ [Next]_vars
            => TypeOK' /\ CalendarioSegueReserva' /\ Rastros'
    BY TipoProximo, CalendarioProximo, RastroProximo
  <1>3. Rastros => EstadiaDeixaRastro
    BY DEF Rastros, RastroDe, EstadiaDeixaRastro
  <1>4. QED BY <1>1, <1>2, <1>3, PTL DEF Spec

-----------------------------------------------------------------------------
(* Reservas implements Exclusividade: read through the active rows of      *)
(* stay_blocks, every transaction of the engine takes, releases or         *)
(* exchanges whole stays, or leaves them alone.                            *)

(* The occupations, read from the sale instead of from the calendar.       *)

NoitesDoPeriodo(p) == {d \in Dias : DaNoite(p, d)}

EstadiaDe(r) == [titular |-> r, noites |-> unidadesDe[r] \X NoitesDoPeriodo(estadia[r])]

DaCasa(b) == [titular |-> Nenhuma, noites |-> {b.unidade} \X NoitesDoPeriodo(b)]

Vivas == {r \in Ids : status[r] \in Vivos}

Lidas == {EstadiaDe(r) : r \in Vivas} \cup {DaCasa(b) : b \in VivosDe(blocos, Nenhuma)}

\* The blocks of a live reservation hold its units for its nights.
LEMMA NoitesDaEstadia ==
    ASSUME NEW r \in Ids, Coerente(r), status[r] \in Vivos
    PROVE  /\ VivosDe(blocos, r) # {}
           /\ NoitesDe(VivosDe(blocos, r)) = unidadesDe[r] \X NoitesDoPeriodo(estadia[r])
  <1> DEFINE B(u) == BlocoDeReserva(r, u, estadia[r], StatusDoBlocoPara(status[r]), prazo[r])
             N == NoitesDoPeriodo(estadia[r])
  <1>1. VivosDe(blocos, r) = {B(u) : u \in unidadesDe[r]} /\ unidadesDe[r] # {}
    BY DEF Coerente, BlocosEsperados
  <1>2. \A u : B(u).unidade = u /\ {d \in Dias : DaNoite(B(u), d)} = N
    BY DEF BlocoDeReserva, NoitesDoPeriodo, DaNoite
  <1> HIDE DEF B, N
  <1>3. NoitesDe(VivosDe(blocos, r)) = UNION {{u} \X N : u \in unidadesDe[r]}
    BY <1>1, <1>2 DEF NoitesDe
  <1>4. UNION {{u} \X N : u \in unidadesDe[r]} = unidadesDe[r] \X N
    OBVIOUS
  <1>5. QED BY <1>1, <1>3, <1>4 DEF N

LEMMA OcupacoesLidas == TypeOK /\ CalendarioSegueReserva => Ocupacoes = Lidas
  <1> SUFFICES ASSUME TypeOK, CalendarioSegueReserva PROVE Ocupacoes = Lidas
    OBVIOUS
  <1>1. \A r \in Ids : Coerente(r)
    BY DEF CalendarioSegueReserva
  <1>2. {q \in Ids : VivosDe(blocos, q) # {}} = Vivas
    <2>1. \A q \in Ids : status[q] \in Vivos => VivosDe(blocos, q) # {}
      BY <1>1, NoitesDaEstadia
    <2>2. \A q \in Ids : status[q] \notin Vivos => VivosDe(blocos, q) = {}
      BY <1>1 DEF Coerente
    <2>3. QED BY <2>1, <2>2 DEF Vivas
  <1>3. \A r \in Vivas : [titular |-> r, noites |-> NoitesDe(VivosDe(blocos, r))] = EstadiaDe(r)
    BY <1>1, NoitesDaEstadia DEF Vivas, EstadiaDe
  <1>4. \A b : [titular |-> Nenhuma, noites |-> NoitesDe({b})] = DaCasa(b)
    BY DEF NoitesDe, DaCasa, NoitesDoPeriodo
  <1> DEFINE A == {[titular |-> r, noites |-> NoitesDe(VivosDe(blocos, r))] : r \in Vivas}
             C == {[titular |-> Nenhuma, noites |-> NoitesDe({b})] : b \in VivosDe(blocos, Nenhuma)}
  <1>5. A = {EstadiaDe(r) : r \in Vivas}
    BY <1>3
  <1>6. C = {DaCasa(b) : b \in VivosDe(blocos, Nenhuma)}
    BY <1>4
  <1>7. Ocupacoes = A \cup C
    BY <1>2 DEF Ocupacoes
  <1> HIDE DEF A, C
  <1>8. QED BY <1>5, <1>6, <1>7 DEF Lidas

LEMMA OcupacoesDepois == (TypeOK /\ CalendarioSegueReserva)' => (Ocupacoes = Lidas)'
  BY OcupacoesLidas, PTL

\* Whoever holds a unit-night has an active block on it.
LEMMA LidaTemBloco ==
    ASSUME CalendarioSegueReserva, NEW o \in Lidas, NEW u, NEW d, <<u, d>> \in o.noites
    PROVE  \E b \in blocos : /\ Ativo(b) /\ b.unidade = u /\ DaNoite(b, d) /\ b.dono = o.titular
                             /\ o.titular = Nenhuma => o = DaCasa(b)
                             /\ o.titular # Nenhuma => o = EstadiaDe(o.titular)
  <1>1. CASE \E r \in Vivas : o = EstadiaDe(r)
    <2>1. PICK r \in Vivas : o = EstadiaDe(r)
      BY <1>1
    <2>2. r \in Ids /\ Coerente(r) /\ status[r] \in Vivos
      BY DEF Vivas, CalendarioSegueReserva
    <2>3. u \in unidadesDe[r] /\ DaNoite(estadia[r], d) /\ o.titular = r
      BY <2>1 DEF EstadiaDe, NoitesDoPeriodo
    <2> DEFINE B == BlocoDeReserva(r, u, estadia[r], StatusDoBlocoPara(status[r]), prazo[r])
    <2>4. B \in VivosDe(blocos, r)
      BY <2>2, <2>3 DEF Coerente, BlocosEsperados
    <2>5. B.unidade = u /\ DaNoite(B, d)
      BY <2>3 DEF BlocoDeReserva, DaNoite
    <2>6. r # Nenhuma
      BY <2>2, ConstantesA
    <2> HIDE DEF B
    <2>7. QED BY <2>1, <2>3, <2>4, <2>5, <2>6 DEF VivosDe
  <1>2. CASE \E b \in VivosDe(blocos, Nenhuma) : o = DaCasa(b)
    <2>1. PICK b \in VivosDe(blocos, Nenhuma) : o = DaCasa(b)
      BY <1>2
    <2>2. b.unidade = u /\ DaNoite(b, d) /\ o.titular = Nenhuma /\ d \in Dias
      BY <2>1 DEF DaCasa, NoitesDoPeriodo
    <2>3. QED BY <2>1, <2>2 DEF VivosDe
  <1>3. QED BY <1>1, <1>2 DEF Lidas

\* Two occupations that share a unit-night are one.
LEMMA LidasExclusivas ==
    TypeOK /\ SemSobreposicao /\ CalendarioSegueReserva =>
        \A o, p \in Lidas : o.noites \cap p.noites # {} => o = p
  <1> SUFFICES ASSUME TypeOK, SemSobreposicao, CalendarioSegueReserva,
                      NEW o \in Lidas, NEW p \in Lidas, o.noites \cap p.noites # {}
               PROVE  o = p
    OBVIOUS
  <1>1. \E us : o.noites \subseteq us \X Dias
    <2>1. ASSUME NEW r \in Vivas, o = EstadiaDe(r) PROVE o.noites \subseteq unidadesDe[r] \X Dias
      BY <2>1 DEF EstadiaDe, NoitesDoPeriodo
    <2>2. ASSUME NEW b, o = DaCasa(b) PROVE o.noites \subseteq {b.unidade} \X Dias
      BY <2>2 DEF DaCasa, NoitesDoPeriodo
    <2>3. QED BY <2>1, <2>2 DEF Lidas
  <1>2. PICK u, d : d \in Dias /\ <<u, d>> \in o.noites /\ <<u, d>> \in p.noites
    <2>1. PICK us : o.noites \subseteq us \X Dias
      BY <1>1
    <2>2. PICK x : x \in o.noites /\ x \in p.noites
      OBVIOUS
    <2>3. PICK u \in us, d \in Dias : x = <<u, d>>
      BY <2>1, <2>2
    <2>4. QED BY <2>2, <2>3
  <1>3. PICK b \in blocos : /\ Ativo(b) /\ b.unidade = u /\ DaNoite(b, d) /\ b.dono = o.titular
                            /\ o.titular = Nenhuma => o = DaCasa(b)
                            /\ o.titular # Nenhuma => o = EstadiaDe(o.titular)
    BY <1>2, LidaTemBloco
  <1>4. PICK c \in blocos : /\ Ativo(c) /\ c.unidade = u /\ DaNoite(c, d) /\ c.dono = p.titular
                            /\ p.titular = Nenhuma => p = DaCasa(c)
                            /\ p.titular # Nenhuma => p = EstadiaDe(p.titular)
    BY <1>2, LidaTemBloco
  <1>5. b = c
    BY <1>2, <1>3, <1>4 DEF SemSobreposicao, Exclusivos
  <1>6. QED BY <1>3, <1>4, <1>5

LEMMA LidasExclusivasDepois ==
    (TypeOK /\ SemSobreposicao /\ CalendarioSegueReserva)' =>
        (\A o, p \in Lidas : o.noites \cap p.noites # {} => o = p)'
  BY LidasExclusivas, PTL

-----------------------------------------------------------------------------
(* What a live reservation holds is something the house sells as one.      *)

VendavelDe(p) ==
    IF Consome[p] = "all_members" THEN {Membros[p]} ELSE {{u} : u \in Membros[p]}

VendaInteira == \A r \in Ids : status[r] \in Vivos => unidadesDe[r] \in VendavelDe(estadia[r].produto)

LEMMA AlocacaoVendavel ==
    ASSUME NEW bs, NEW pedido \in Pedido, NEW us \in Alocacoes(bs, pedido)
    PROVE  us \in VendavelDe(pedido.produto)
  BY DEF Alocacoes, VendavelDe

LEMMA VendaInteiraEmitir ==
    ASSUME TypeOK, VendaInteira,
           NEW base, NEW t, NEW r \in Ids, NEW pedido \in Pedido, NEW estado,
           NEW origem, NEW saldo,
           base.status \in [Ids -> Estados],
           \A q \in Ids \ {r} : base.status[q] \in Vivos => base.status[q] = status[q],
           Emitir(base, t, r, pedido, estado, origem, saldo)
    PROVE  VendaInteira'
  <1>1. PICK us \in Alocacoes(base.blocos, pedido) :
            /\ status' = [base.status EXCEPT ![r] = estado]
            /\ unidadesDe' = [unidadesDe EXCEPT ![r] = us]
    BY DEF Emitir
  <1>2. estadia' = [estadia EXCEPT ![r] = pedido]
    BY DEF Emitir
  <1>3. us \in VendavelDe(pedido.produto)
    BY AlocacaoVendavel
  <1>4. estadia'[r] = pedido /\ unidadesDe'[r] = us
    BY <1>1, <1>2 DEF TypeOK
  <1>5. \A q \in Ids \ {r} : /\ status'[q] = base.status[q] /\ estadia'[q] = estadia[q]
                             /\ unidadesDe'[q] = unidadesDe[q]
    BY <1>1, <1>2 DEF TypeOK
  <1>6. QED BY <1>3, <1>4, <1>5 DEF VendaInteira

\* The rows a rebooking starts from: the original released and cancelled.
Solta(r, t) ==
    [status |-> [status EXCEPT ![r] = "cancelled"],
     prazo  |-> [prazo EXCEPT ![r] = SemPrazo],
     agenda |-> [agenda EXCEPT ![r] = OnCancel(agenda[r], FALSE, t)],
     blocos |-> MoverBlocosDaReserva(blocos, r, Bloqueiam, "cancelled")]

LEMMA VendaInteiraProximo == TypeOK /\ VendaInteira /\ [Next]_vars => VendaInteira'
  <1> SUFFICES ASSUME TypeOK, VendaInteira, [Next]_vars PROVE VendaInteira'
    OBVIOUS
  <1>0. ASSUME UNCHANGED <<estadia, unidadesDe>>,
               \A q \in Ids : status'[q] \in Vivos => status[q] \in Vivos
        PROVE  VendaInteira'
    BY <1>0 DEF VendaInteira
  <1>1. CASE Criar
    <2>1. PICK t \in Inicios, r \in Livres, pedido \in Pedido :
              Emitir(Atual, t, r, pedido, "hold", Nenhuma, 0)
      BY <1>1 DEF Criar
    <2>2. Atual.status = status /\ status \in [Ids -> Estados] /\ r \in Ids
      BY DEF Atual, TypeOK, Livres
    <2>3. QED BY <2>1, <2>2, VendaInteiraEmitir
  <1>2. ASSUME NEW r \in Ids, Acao(r) PROVE VendaInteira'
    <2>1. ASSUME NEW t, NEW pago, Confirmar(r, t, pago) PROVE VendaInteira'
      BY <1>0, <2>1 DEF Confirmar, TypeOK, Vivos
    <2>2. ASSUME NEW t, NEW destino, Cancelar(r, t, destino) PROVE VendaInteira'
      BY <1>0, <2>2 DEF Cancelar, TypeOK, Vivos
    <2>3. ASSUME NEW t, NEW nova \in Livres, NEW pedido \in Pedido, Remarcar(r, t, nova, pedido)
          PROVE  VendaInteira'
      <3> DEFINE base == Solta(r, t)
      <3>1. Emitir(base, t, nova, pedido, status[r], r, SaldoHerdado(r)) /\ nova \in Ids
        BY <2>3 DEF Remarcar, EstadoDaNova, Livres, Solta
      <3>2. /\ base.status \in [Ids -> Estados]
            /\ \A q \in Ids \ {nova} : base.status[q] \in Vivos => base.status[q] = status[q]
        BY DEF TypeOK, Estados, Transicoes, Vivos, Solta
      <3> HIDE DEF base
      <3>3. QED BY <3>1, <3>2, VendaInteiraEmitir
    <2>4. ASSUME NEW t, NEW de, NEW para, Realocar(r, t, de, para) PROVE VendaInteira'
      <3>1. /\ UNCHANGED <<status, estadia>> /\ Consome[estadia[r].produto] = "one_member"
            /\ status[r] \in Vivos /\ de \in unidadesDe[r] /\ para \in Membros[estadia[r].produto]
            /\ unidadesDe'[r] = (unidadesDe[r] \ {de}) \cup {para}
            /\ \A q \in Ids \ {r} : unidadesDe'[q] = unidadesDe[q]
        BY <2>4 DEF Realocar, PodeRealocar, TypeOK
      <3>2. unidadesDe'[r] = {para}
        <4>1. unidadesDe[r] \in {{u} : u \in Membros[estadia[r].produto]}
          BY <3>1, <1>2 DEF VendaInteira, VendavelDe
        <4>2. PICK u : unidadesDe[r] = {u}
          BY <4>1
        <4>3. QED BY <3>1, <4>2
      <3>3. QED BY <3>1, <3>2 DEF VendaInteira, VendavelDe
    <2>5. ASSUME NEW t, NEW horas, EstenderHold(r, t, horas) PROVE VendaInteira'
      BY <1>0, <2>5 DEF EstenderHold
    <2>6. ASSUME NEW dia, RegistrarCheckIn(r, dia) PROVE VendaInteira'
      BY <1>0, <2>6 DEF RegistrarCheckIn, PodeEntrar, TypeOK, Vivos
    <2>7. ASSUME NEW dia, RegistrarCheckOut(r, dia) PROVE VendaInteira'
      BY <1>0, <2>7 DEF RegistrarCheckOut, TypeOK, Vivos
    <2>8. QED BY <1>2, <2>1, <2>2, <2>3, <2>4, <2>5, <2>6, <2>7 DEF Acao
  <1>3. CASE Expirar
    BY <1>0, <1>3 DEF Expirar, ExpirarLote, Vivos
  <1>4. CASE Bloquear
    BY <1>0, <1>4 DEF Bloquear, CriarBloqueio, LiberarBloqueio
  <1>5. CASE UNCHANGED <<status, estadia, unidadesDe>>
    BY <1>0, <1>5
  <1>6. QED BY <1>1, <1>2, <1>3, <1>4, <1>5 DEF Next, Tique, vars

-----------------------------------------------------------------------------
(* The steps.                                                              *)

\* Releasing is leaving no occupation that was not there.
LEMMA PassoSolta ==
    ASSUME Ocupacoes' \subseteq Ocupacoes
    PROVE  Calendario!Next
  <1>1. Ocupacoes \ Ocupacoes' \in SUBSET Ocupacoes
    OBVIOUS
  <1>2. Ocupacoes' = Ocupacoes \ (Ocupacoes \ Ocupacoes')
    OBVIOUS
  <1>3. Calendario!Soltar(Ocupacoes \ Ocupacoes')
    BY <1>2 DEF Calendario!Soltar
  <1>4. QED BY <1>1, <1>3 DEF Calendario!Next

LEMMA LidasMenos ==
    ASSUME Vivas' \subseteq Vivas,
           \A r \in Vivas' : unidadesDe'[r] = unidadesDe[r] /\ estadia'[r] = estadia[r],
           VivosDe(blocos', Nenhuma) \subseteq VivosDe(blocos, Nenhuma)
    PROVE  Lidas' \subseteq Lidas
  <1>1. \A r \in Vivas' : EstadiaDe(r)' = EstadiaDe(r)
    BY DEF EstadiaDe, NoitesDoPeriodo, DaNoite
  <1>2. \A b : DaCasa(b)' = DaCasa(b)
    BY DEF DaCasa, NoitesDoPeriodo, DaNoite
  <1>3. VivosDe(blocos, Nenhuma)' = VivosDe(blocos', Nenhuma)
    BY DEF VivosDe, Ativo
  <1>4. QED BY <1>1, <1>2, <1>3 DEF Lidas

\* A stay that is live after the step, against all the others.
LEMMA NovaEstadia ==
    ASSUME (TypeOK /\ SemSobreposicao /\ CalendarioSegueReserva /\ VendaInteira)',
           NEW r \in Ids, status'[r] \in Vivos, NEW S,
           Lidas' = S \cup {EstadiaDe(r)'},
           \A p \in S : p.titular # r
    PROVE  /\ EstadiaDe(r)' \in Calendario!Estadias
           /\ EstadiaDe(r)'.noites # {}
           /\ Calendario!Cabe(EstadiaDe(r)', S)
           /\ Calendario!SemVenda(EstadiaDe(r)'.titular, S)
  <1> DEFINE e == estadia'[r]
             us == unidadesDe'[r]
             ns == {d \in Dias : e.de <= d /\ d < e.ate}
  <1>1. EstadiaDe(r)' = [titular |-> r, noites |-> us \X ns]
    BY DEF EstadiaDe, NoitesDoPeriodo, DaNoite
  <1>2. e \in Pedido
    BY DEF TypeOK
  <1>3. us \in VendavelDe(e.produto)
    BY DEF VendaInteira, VendavelDe
  <1>4. us # {}
    BY DEF CalendarioSegueReserva, Coerente
  <1>5. e.de \in ns
    BY <1>2 DEF Pedido, Dias
  <1>6. us \in Vendaveis
    BY <1>2, <1>3 DEF Vendaveis, VendavelDe, Pedido
  <1>7. EstadiaDe(r)' \in Calendario!Estadias
    <2>1. <<e.de, e.ate>> \in Calendario!Periodos
      BY <1>2 DEF Calendario!Periodos, Pedido
    <2>2. ns = Calendario!Noites(<<e.de, e.ate>>[1], <<e.de, e.ate>>[2])
      BY DEF Calendario!Noites
    <2>3. PICK p \in Calendario!Periodos : ns = Calendario!Noites(p[1], p[2])
      BY <2>1, <2>2
    <2> HIDE DEF e, us, ns
    <2>4. [titular |-> r, noites |-> us \X Calendario!Noites(p[1], p[2])] \in Calendario!Estadias
      <3> DEFINE f(q, vs, x) == [titular |-> q, noites |-> vs \X Calendario!Noites(x[1], x[2])]
      <3>1. Calendario!Estadias = {f(q, vs, x) : q \in Ids, vs \in Vendaveis, x \in Calendario!Periodos}
        BY DEF Calendario!Estadias
      <3> HIDE DEF f
      <3>2. f(r, us, p) \in Calendario!Estadias
        BY <1>6, <2>3, <3>1
      <3>3. QED BY <3>2 DEF f
    <2>5. QED BY <1>1, <2>3, <2>4
  <1>8. EstadiaDe(r)'.noites # {}
    <2>1. PICK u \in us : TRUE
      BY <1>4
    <2>2. <<u, e.de>> \in us \X ns
      BY <1>5
    <2> HIDE DEF e, us, ns
    <2>3. QED BY <1>1, <2>2
  <1>9. Calendario!SemVenda(EstadiaDe(r)'.titular, S)
    BY <1>1 DEF Calendario!SemVenda
  <1>10. \A o, p \in Lidas' : o.noites \cap p.noites # {} => o = p
    BY LidasExclusivasDepois
  <1>11. Calendario!Cabe(EstadiaDe(r)', S)
    <2>1. \A p \in S : p # EstadiaDe(r)'
      BY <1>1
    <2>2. QED BY <1>10, <2>1 DEF Calendario!Cabe
  <1>12. QED BY <1>7, <1>8, <1>9, <1>11

\* The stays of the reservations in V, and the blocks of the house.
Reservadas(V) == {EstadiaDe(r) : r \in V}
DaCasaTodas == {DaCasa(b) : b \in VivosDe(blocos, Nenhuma)}

\* Issuing a sale adds its stay to what the transaction had left.
LEMMA LidasEmitir ==
    ASSUME TypeOK, NEW base, NEW t, NEW r \in Livres, NEW pedido, NEW estado \in Vivos,
           NEW origem, NEW saldo,
           base.status \in [Ids -> Estados], base.status[r] \notin Vivos,
           VivosDe(base.blocos, Nenhuma) = VivosDe(blocos, Nenhuma),
           Emitir(base, t, r, pedido, estado, origem, saldo)
    PROVE  /\ status'[r] \in Vivos
           /\ Lidas' = (Reservadas({q \in Ids : base.status[q] \in Vivos}) \cup DaCasaTodas)
                           \cup {EstadiaDe(r)'}
  <1> DEFINE V == {q \in Ids : base.status[q] \in Vivos}
  <1>1. PICK us \in Alocacoes(base.blocos, pedido), total \in Totais :
            /\ status' = [base.status EXCEPT ![r] = estado]
            /\ blocos' = base.blocos \cup
                   {BlocoDeReserva(r, u, pedido, StatusDoBlocoPara(estado),
                        IF estado = "hold" THEN t + HoldHoras ELSE SemPrazo) : u \in us}
            /\ unidadesDe' = [unidadesDe EXCEPT ![r] = us]
    BY DEF Emitir
  <1>2. r \in Ids /\ r # Nenhuma
    BY ConstantesA DEF Livres
  <1>3. status'[r] = estado /\ \A q \in Ids \ {r} : status'[q] = base.status[q]
    BY <1>1, <1>2
  <1>4. Vivas' = V \cup {r}
    BY <1>2, <1>3 DEF Vivas
  <1>5. \A q \in V : EstadiaDe(q)' = EstadiaDe(q)
    <2> TAKE q \in V
    <2>1. q # r /\ q \in Ids
      OBVIOUS
    <2>2. unidadesDe'[q] = unidadesDe[q] /\ estadia'[q] = estadia[q]
      BY <1>1, <2>1 DEF Emitir, TypeOK
    <2>3. QED BY <2>2 DEF EstadiaDe, NoitesDoPeriodo, DaNoite
  <1>6. VivosDe(blocos, Nenhuma)' = VivosDe(blocos, Nenhuma)
    <2>1. \A b \in blocos' : b.dono = Nenhuma => b \in base.blocos
      BY <1>1, <1>2 DEF BlocoDeReserva
    <2>2. base.blocos \subseteq blocos'
      BY <1>1
    <2>3. QED BY <2>1, <2>2 DEF VivosDe, Ativo
  <1>7. \A b : DaCasa(b)' = DaCasa(b)
    BY DEF DaCasa, NoitesDoPeriodo, DaNoite
  <1>8. Lidas' = {EstadiaDe(q)' : q \in V \cup {r}} \cup DaCasaTodas
    BY <1>4, <1>6, <1>7 DEF Lidas, DaCasaTodas
  <1>9. {EstadiaDe(q)' : q \in V \cup {r}} = {EstadiaDe(q) : q \in V} \cup {EstadiaDe(r)'}
    <2> HIDE DEF V
    <2>1. QED BY <1>5
  <1>10. QED BY <1>3, <1>8, <1>9 DEF Reservadas

\* Only the stay of r is of r.
LEMMA SemOutra ==
    ASSUME NEW r \in Ids, NEW V, r \notin V
    PROVE  \A p \in Reservadas(V) \cup DaCasaTodas : p.titular # r
  BY ConstantesA DEF Reservadas, DaCasaTodas, EstadiaDe, DaCasa

Coerencia == TypeOK /\ SemSobreposicao /\ CalendarioSegueReserva /\ VendaInteira

LEMMA AntesEDepois ==
    ASSUME Coerencia, Coerencia'
    PROVE  Ocupacoes = Lidas /\ Ocupacoes' = Lidas'
  BY OcupacoesLidas, OcupacoesDepois DEF Coerencia

\* A sale takes a whole stay on nights nobody holds.
LEMMA PassoCriar ==
    ASSUME Coerencia, Coerencia', Criar
    PROVE  Calendario!Next
  <1>0. Ocupacoes = Lidas /\ Ocupacoes' = Lidas'
    BY AntesEDepois
  <1>1. PICK t \in Inicios, r \in Livres, pedido \in Pedido :
            Emitir(Atual, t, r, pedido, "hold", Nenhuma, 0)
    BY DEF Criar
  <1>2. /\ Atual.status = status /\ Atual.blocos = blocos
        /\ status \in [Ids -> Estados] /\ r \in Ids /\ status[r] \notin Vivos
    BY DEF Atual, Coerencia, TypeOK, Livres, Vivos
  <1>3. Reservadas({q \in Ids : Atual.status[q] \in Vivos}) \cup DaCasaTodas = Lidas
    BY <1>2 DEF Reservadas, DaCasaTodas, Lidas, Vivas
  <1>4. status'[r] \in Vivos /\ Lidas' = Lidas \cup {EstadiaDe(r)'}
    BY <1>1, <1>2, <1>3, LidasEmitir DEF Coerencia, Vivos
  <1>5. \A p \in Lidas : p.titular # r
    <2> DEFINE V == {q \in Ids : Atual.status[q] \in Vivos}
    <2>1. r \notin V
      BY <1>2
    <2>2. Lidas = Reservadas(V) \cup DaCasaTodas
      BY <1>3
    <2> HIDE DEF V
    <2>3. QED BY <1>2, <2>1, <2>2, SemOutra
  <1>6. /\ EstadiaDe(r)' \in Calendario!Estadias
        /\ EstadiaDe(r)'.noites # {}
        /\ Calendario!Cabe(EstadiaDe(r)', Lidas)
        /\ Calendario!SemVenda(EstadiaDe(r)'.titular, Lidas)
    BY <1>2, <1>4, <1>5, NovaEstadia DEF Coerencia
  <1>7. Calendario!Vender(EstadiaDe(r)')
    BY <1>0, <1>4, <1>6 DEF Calendario!Vender
  <1>8. QED BY <1>6, <1>7 DEF Calendario!Next

\* One stay for another of the same guest, or of the rebooked sale.
LEMMA PassoTroca ==
    ASSUME Coerencia, Coerencia', NEW r \in Ids, status[r] \in Vivos,
           NEW nova \in Ids, status'[nova] \in Vivos,
           nova = r \/ nova \notin Vivas,
           Lidas' = (Reservadas(Vivas \ {r}) \cup DaCasaTodas) \cup {EstadiaDe(nova)'}
    PROVE  Calendario!Next
  <1> DEFINE S == Reservadas(Vivas \ {r}) \cup DaCasaTodas
  <1>0. Ocupacoes = Lidas /\ Ocupacoes' = Lidas'
    BY AntesEDepois
  <1>1. EstadiaDe(r) \in Lidas /\ EstadiaDe(r).titular = r
    BY DEF Lidas, Vivas, EstadiaDe
  <1>2. Lidas = S \cup {EstadiaDe(r)}
    BY DEF Lidas, Reservadas, DaCasaTodas, Vivas
  <1>3. Lidas \ {EstadiaDe(r)} = S
    BY <1>1, <1>2, SemOutra
  <1>4. \A p \in S : p.titular # nova
    BY SemOutra
  <1>5. /\ EstadiaDe(nova)' \in Calendario!Estadias
        /\ EstadiaDe(nova)'.noites # {}
        /\ Calendario!Cabe(EstadiaDe(nova)', S)
        /\ Calendario!SemVenda(EstadiaDe(nova)'.titular, S)
    BY <1>4, NovaEstadia DEF Coerencia
  <1> HIDE DEF S
  <1>6. Calendario!Trocar(EstadiaDe(r), EstadiaDe(nova)')
    BY <1>0, <1>3, <1>5 DEF Calendario!Trocar, S
  <1>7. QED BY <1>0, <1>1, <1>5, <1>6 DEF Calendario!Next

\* Nothing of the house changes when only rows of r do.
LEMMA CasaAlheia ==
    ASSUME NEW r \in Ids, VivosDe(blocos', Nenhuma) = VivosDe(blocos, Nenhuma),
           status' = status, estadia' = estadia,
           \A q \in Ids \ {r} : unidadesDe'[q] = unidadesDe[q],
           status[r] \in Vivos
    PROVE  Lidas' = (Reservadas(Vivas \ {r}) \cup DaCasaTodas) \cup {EstadiaDe(r)'}
  <1>1. Vivas' = Vivas /\ r \in Vivas
    BY DEF Vivas
  <1>2. \A q \in Vivas \ {r} : EstadiaDe(q)' = EstadiaDe(q)
    BY DEF EstadiaDe, NoitesDoPeriodo, DaNoite, Vivas
  <1>3. \A b : DaCasa(b)' = DaCasa(b)
    BY DEF DaCasa, NoitesDoPeriodo, DaNoite
  <1>4. VivosDe(blocos, Nenhuma)' = VivosDe(blocos, Nenhuma)
    BY DEF VivosDe, Ativo
  <1>5. Lidas' = {EstadiaDe(q)' : q \in Vivas} \cup DaCasaTodas
    BY <1>1, <1>3, <1>4 DEF Lidas, DaCasaTodas
  <1>6. {EstadiaDe(q)' : q \in Vivas} = {EstadiaDe(q) : q \in Vivas \ {r}} \cup {EstadiaDe(r)'}
    BY <1>1, <1>2
  <1>7. QED BY <1>5, <1>6 DEF Reservadas

LEMMA PassoRealocar ==
    ASSUME Coerencia, Coerencia', NEW r \in Ids, NEW t, NEW de, NEW para, Realocar(r, t, de, para)
    PROVE  Calendario!Next
  <1>1. /\ status' = status /\ estadia' = estadia /\ status[r] \in Vivos
        /\ unidadesDe' = [unidadesDe EXCEPT ![r] = (@ \ {de}) \cup {para}]
    BY DEF Realocar
  <1>2. \A q \in Ids \ {r} : unidadesDe'[q] = unidadesDe[q]
    BY <1>1 DEF Coerencia, TypeOK
  <1>3. VivosDe(blocos', Nenhuma) = VivosDe(blocos, Nenhuma)
    <2>1. r # Nenhuma
      BY ConstantesA
    <2> DEFINE f(b) == IF b.dono = r /\ b.unidade = de /\ Ativo(b)
                       THEN [b EXCEPT !.status = "cancelled", !.expira = SemPrazo] ELSE b
               novo == BlocoDeReserva(r, para, estadia[r], StatusDoBlocoPara(status[r]), prazo[r])
    <2>2. blocos' = {f(b) : b \in blocos} \cup {novo}
      BY DEF Realocar
    <2>3. novo.dono = r
      BY DEF BlocoDeReserva
    <2>4. \A b \in blocos : IF b.dono = r THEN f(b).dono = r ELSE f(b) = b
      BY DEF Coerencia, TypeOK, Bloco
    <2> HIDE DEF f, novo
    <2>5. \A b : b \in blocos' /\ b.dono = Nenhuma <=> b \in blocos /\ b.dono = Nenhuma
      BY <2>1, <2>2, <2>3, <2>4
    <2>6. QED BY <2>5 DEF VivosDe, Ativo
  <1>4. Lidas' = (Reservadas(Vivas \ {r}) \cup DaCasaTodas) \cup {EstadiaDe(r)'}
    BY <1>1, <1>2, <1>3, CasaAlheia
  <1>5. QED BY <1>1, <1>4, PassoTroca

LEMMA PassoRemarcar ==
    ASSUME Coerencia, Coerencia', NEW r \in Ids, NEW t, NEW nova \in Livres, NEW pedido \in Pedido,
           Remarcar(r, t, nova, pedido)
    PROVE  Calendario!Next
  <1> DEFINE base == Solta(r, t)
  <1>1. Emitir(base, t, nova, pedido, status[r], r, SaldoHerdado(r)) /\ status[r] \in Vivos
    BY DEF Remarcar, EstadoDaNova, Solta, Vivos
  <1>2. /\ base.status \in [Ids -> Estados]
        /\ {q \in Ids : base.status[q] \in Vivos} = Vivas \ {r}
        /\ base.status[nova] \notin Vivos /\ nova \in Ids /\ nova \notin Vivas
    BY DEF Coerencia, TypeOK, Estados, Transicoes, Vivos, Vivas, Solta, Livres
  <1>3. VivosDe(base.blocos, Nenhuma) = VivosDe(blocos, Nenhuma)
    BY VivosAlheios, ConstantesA DEF Solta, Coerencia, TypeOK
  <1> HIDE DEF base
  <1>4. /\ status'[nova] \in Vivos
        /\ Lidas' = (Reservadas(Vivas \ {r}) \cup DaCasaTodas) \cup {EstadiaDe(nova)'}
    BY <1>1, <1>2, <1>3, LidasEmitir DEF Coerencia
  <1>5. QED BY <1>1, <1>2, <1>4, PassoTroca

\* Every unit of the request, on nights no active row holds.
LEMMA PassoBloquear ==
    ASSUME Coerencia, Coerencia', NEW us \in SUBSET Unidades, NEW p \in Periodo, NEW fonte,
           CriarBloqueio(us, p, fonte)
    PROVE  Calendario!Next
  <1> DEFINE B(u) == [dono |-> Nenhuma, unidade |-> u, de |-> p.de, ate |-> p.ate,
                      status |-> "confirmed", expira |-> SemPrazo, fonte |-> fonte]
             N == Calendario!Noites(p.de, p.ate)
             O(u) == [titular |-> Nenhuma, noites |-> {u} \X N]
  <1>0. Ocupacoes = Lidas /\ Ocupacoes' = Lidas'
    BY AntesEDepois
  <1>1. /\ blocos' = blocos \cup {B(u) : u \in us}
        /\ UNCHANGED <<status, estadia, unidadesDe>>
        /\ CabeBloqueio(us, p)
    BY DEF CriarBloqueio
  <1>2. \A u : /\ B(u).dono = Nenhuma /\ Ativo(B(u)) /\ DaCasa(B(u))' = O(u)
    BY DEF Ativo, Bloqueiam, DaCasa, NoitesDoPeriodo, DaNoite, Calendario!Noites
  <1>3. VivosDe(blocos, Nenhuma)' = VivosDe(blocos, Nenhuma) \cup {B(u) : u \in us}
    <2> HIDE DEF B
    <2>1. QED BY <1>1, <1>2 DEF VivosDe, Ativo
  <1>4. Vivas' = Vivas /\ \A q \in Vivas : EstadiaDe(q)' = EstadiaDe(q)
    BY <1>1 DEF Vivas, EstadiaDe, NoitesDoPeriodo, DaNoite
  <1>5. \A b : DaCasa(b)' = DaCasa(b)
    BY DEF DaCasa, NoitesDoPeriodo, DaNoite
  <1>6. Lidas' = Lidas \cup {O(u) : u \in us}
    <2> HIDE DEF B, O
    <2>1. {DaCasa(b) : b \in {B(u) : u \in us}} = {O(u) : u \in us}
      BY <1>2, <1>5
    <2>2. QED BY <1>3, <1>4, <1>5, <2>1 DEF Lidas
  <1>7. ASSUME NEW u \in us, NEW q \in Lidas, O(u).noites \cap q.noites # {}
        PROVE  FALSE
    <2>1. PICK x : x \in {u} \X N /\ x \in q.noites
      BY <1>7
    <2>2. PICK d \in N : x = <<u, d>>
      BY <2>1
    <2>3. PICK b \in blocos : Ativo(b) /\ b.unidade = u /\ DaNoite(b, d)
      BY <2>1, <2>2, LidaTemBloco DEF Coerencia
    <2>4. d \in Int /\ p.de <= d /\ d < p.ate /\ p.de \in Int /\ p.ate \in Int
      BY DEF Calendario!Noites, Dias, Periodo
    <2>5. b.de \in Int /\ b.ate \in Int
      BY DEF Coerencia, TypeOK, Bloco, Dias
    <2>6. Sobrepoe(b, p)
      BY <2>3, <2>4, <2>5 DEF Sobrepoe, DaNoite
    <2>7. QED BY <1>1, <2>3, <2>6 DEF CabeBloqueio, Ocupada
  <1>8. <<p.de, p.ate>> \in Calendario!Periodos
    BY DEF Calendario!Periodos, Periodo
  <1>9. Calendario!Bloquear(us, <<p.de, p.ate>>)
    <2>1. {[titular |-> Nenhuma, noites |-> {u} \X Calendario!Noites(<<p.de, p.ate>>[1], <<p.de, p.ate>>[2])]
              : u \in us} = {O(u) : u \in us}
      OBVIOUS
    <2>2. \A o \in {O(u) : u \in us} : Calendario!Cabe(o, Lidas)
      BY <1>7 DEF Calendario!Cabe
    <2> HIDE DEF O
    <2>3. QED BY <1>0, <1>6, <2>1, <2>2 DEF Calendario!Bloquear
  <1>10. QED BY <1>8, <1>9 DEF Calendario!Next

\* Departures, cancellations, expirations and lifted blocks release; what changes
\* neither the sales alive nor the blocks of the house leaves the calendar alone.
LEMMA PassoLibera ==
    ASSUME Coerencia, Coerencia', UNCHANGED <<estadia, unidadesDe>>,
           \A q \in Ids : status'[q] \in Vivos => status[q] \in Vivos,
           VivosDe(blocos', Nenhuma) \subseteq VivosDe(blocos, Nenhuma)
    PROVE  Calendario!Next
  <1>1. Vivas' \subseteq Vivas
    BY DEF Vivas
  <1>2. Lidas' \subseteq Lidas
    BY <1>1, LidasMenos
  <1>3. QED BY <1>2, AntesEDepois, PassoSolta

LEMMA PassoAcao ==
    ASSUME Coerencia, Coerencia', NEW r \in Ids, Acao(r)
    PROVE  Calendario!Next
  <1>0. r # Nenhuma /\ \A b \in blocos : b \in Bloco
    BY ConstantesA DEF Coerencia, TypeOK
  <1>1. ASSUME NEW de, NEW para, blocos' = MoverBlocosDaReserva(blocos, r, de, para)
        PROVE  VivosDe(blocos', Nenhuma) \subseteq VivosDe(blocos, Nenhuma)
    BY <1>0, <1>1, VivosAlheios DEF Coerencia, TypeOK
  <1>2. ASSUME NEW t, NEW pago, Confirmar(r, t, pago) PROVE Calendario!Next
    <2>1. VivosDe(blocos', Nenhuma) \subseteq VivosDe(blocos, Nenhuma)
      BY <1>1, <1>2 DEF Confirmar
    <2>2. QED BY <1>2, <2>1, PassoLibera DEF Confirmar, Coerencia, TypeOK, Vivos
  <1>3. ASSUME NEW t, NEW destino, Cancelar(r, t, destino) PROVE Calendario!Next
    <2>1. VivosDe(blocos', Nenhuma) \subseteq VivosDe(blocos, Nenhuma)
      BY <1>1, <1>3 DEF Cancelar
    <2>2. QED BY <1>3, <2>1, PassoLibera DEF Cancelar, Coerencia, TypeOK, Vivos
  <1>4. ASSUME NEW t, NEW nova \in Livres, NEW pedido \in Pedido, Remarcar(r, t, nova, pedido)
        PROVE  Calendario!Next
    BY <1>4, PassoRemarcar
  <1>5. ASSUME NEW t, NEW de, NEW para, Realocar(r, t, de, para) PROVE Calendario!Next
    BY <1>5, PassoRealocar
  <1>6. ASSUME NEW t, NEW horas, EstenderHold(r, t, horas) PROVE Calendario!Next
    <2> DEFINE f(b) == IF b.dono = r /\ b.status = "hold" THEN [b EXCEPT !.expira = t + horas] ELSE b
    <2>1. blocos' = {f(b) : b \in blocos}
      BY <1>6 DEF EstenderHold
    <2>2. \A b \in blocos : IF b.dono = r THEN f(b).dono = r ELSE f(b) = b
      BY <1>0 DEF Bloco
    <2> HIDE DEF f
    <2>3. VivosDe(blocos', Nenhuma) \subseteq VivosDe(blocos, Nenhuma)
      BY <1>0, <2>1, <2>2 DEF VivosDe, Ativo
    <2>4. QED BY <1>6, <2>3, PassoLibera DEF EstenderHold
  <1>7. ASSUME NEW dia, RegistrarCheckIn(r, dia) PROVE Calendario!Next
    BY <1>7, PassoLibera DEF RegistrarCheckIn, PodeEntrar, Coerencia, TypeOK, Vivos
  <1>8. ASSUME NEW dia, RegistrarCheckOut(r, dia) PROVE Calendario!Next
    <2>1. VivosDe(blocos', Nenhuma) \subseteq VivosDe(blocos, Nenhuma)
      BY <1>1, <1>8 DEF RegistrarCheckOut
    <2>2. QED BY <1>8, <2>1, PassoLibera DEF RegistrarCheckOut, Coerencia, TypeOK, Vivos
  <1>9. QED BY <1>2, <1>3, <1>4, <1>5, <1>6, <1>7, <1>8 DEF Acao

LEMMA PassoExpirar ==
    ASSUME Coerencia, Coerencia', Expirar
    PROVE  Calendario!Next
  <1>1. PICK t \in Inicios : \E lote \in SUBSET Vencidas(t) : ExpirarLote(t, lote)
    BY DEF Expirar
  <1>2. PICK lote \in SUBSET Vencidas(t) : ExpirarLote(t, lote)
    BY <1>1
  <1> DEFINE f(b) == IF b.dono \in lote /\ b.status = "hold"
                     THEN [b EXCEPT !.status = "expired", !.expira = SemPrazo] ELSE b
  <1>3. Nenhuma \notin lote
    BY ConstantesA DEF Vencidas
  <1>4. blocos' = {f(b) : b \in blocos}
    BY <1>2 DEF ExpirarLote
  <1>5. \A b \in blocos : IF b.dono \in lote THEN f(b).dono = b.dono ELSE f(b) = b
    BY DEF Coerencia, TypeOK, Bloco
  <1> HIDE DEF f
  <1>6. VivosDe(blocos', Nenhuma) \subseteq VivosDe(blocos, Nenhuma)
    BY <1>3, <1>4, <1>5 DEF VivosDe, Ativo
  <1>7. QED BY <1>2, <1>6, PassoLibera DEF ExpirarLote, Vivos

LEMMA PassoRefina ==
    Coerencia /\ Coerencia' /\ [Next]_vars => [Calendario!Next]_Ocupacoes
  <1> SUFFICES ASSUME Coerencia, Coerencia', [Next]_vars PROVE [Calendario!Next]_Ocupacoes
    OBVIOUS
  <1>1. CASE Criar
    BY <1>1, PassoCriar
  <1>2. CASE \E r \in Ids : Acao(r)
    BY <1>2, PassoAcao
  <1>3. CASE Expirar
    BY <1>3, PassoExpirar
  <1>4. CASE Bloquear
    <2>1. ASSUME NEW us \in SUBSET Unidades, NEW p \in Periodo, NEW fonte, CriarBloqueio(us, p, fonte)
          PROVE  Calendario!Next
      BY <2>1, PassoBloquear
    <2>2. ASSUME NEW b \in Operacionais, NEW t, LiberarBloqueio(b, t) PROVE Calendario!Next
      <3>1. VivosDe(blocos', Nenhuma) \subseteq VivosDe(blocos, Nenhuma)
        BY <2>2 DEF LiberarBloqueio, VivosDe, Ativo, Bloqueiam, Coerencia, TypeOK, Bloco, Operacionais
      <3>2. QED BY <2>2, <3>1, PassoLibera DEF LiberarBloqueio
    <2>3. QED BY <1>4, <2>1, <2>2 DEF Bloquear
  <1>5. CASE Tique
    BY <1>5, PassoLibera DEF Tique
  <1>6. CASE UNCHANGED vars
    BY <1>6, PassoLibera DEF vars
  <1>7. QED BY <1>1, <1>2, <1>3, <1>4, <1>5, <1>6 DEF Next

LEMMA InicioRefina == Init => Calendario!Init /\ VendaInteira
  <1> SUFFICES ASSUME Init PROVE Calendario!Init /\ VendaInteira
    OBVIOUS
  <1>1. \A r : VivosDe(blocos, r) = {}
    BY DEF Init, VivosDe
  <1>2. Ocupacoes = {}
    BY <1>1 DEF Ocupacoes
  <1>3. VendaInteira
    BY DEF Init, VendaInteira, Vivos
  <1>4. QED BY <1>2, <1>3 DEF Calendario!Init

\* Every behaviour of the engine is a behaviour of the abstract calendar: its
\* rows amount to whole stays taken, released or exchanged in one step, on
\* nights nobody else holds (reservas/service.go, service_acoes.go,
\* repository_blocos.go, bloqueios.go, expiracao.go).
THEOREM Implementa == Spec => ImplementaExclusividade
  <1>1. Init => Coerencia /\ Calendario!Init
    BY TipoInicial, SemSobreposicaoInicial, CalendarioInicial, InicioRefina DEF Coerencia
  <1>2. Coerencia /\ [Next]_vars => Coerencia'
    BY TipoProximo, SobreposicaoProximo, CalendarioProximo, VendaInteiraProximo DEF Coerencia
  <1>3. Coerencia /\ Coerencia' /\ [Next]_vars => [Calendario!Next]_Ocupacoes
    BY PassoRefina
  <1>4. QED BY <1>1, <1>2, <1>3, PTL DEF Spec, ImplementaExclusividade, Calendario!Spec
-----------------------------------------------------------------------------
(***************************************************************************)
(* Sums over the reservations.  Soma is the fold of the community modules, *)
(* a recursion on the set that takes out the element CHOOSE names; it is   *)
(* unfolded here by the least counterexample, which the library proves     *)
(* that every set of naturals has.                                         *)
(***************************************************************************)

Um(s) == CHOOSE x \in s : TRUE
Regra(f, it, s) == IF s = {} THEN 0 ELSE f[Um(s)] + it[s \ {Um(s)}]
Parcial(f) == CHOOSE it : it = [s \in SUBSET Ids |-> Regra(f, it, s)]

LEMMA SomaDesdobrada == \A f : Soma(f) = Parcial(f)[Ids]
BY DEF Soma, MapThenSumSet, MapThenFoldSet, Parcial, Regra, Um

\* Every set of naturals that is not empty has a least element.
LEMMA TemMenor ==
    ASSUME NEW T \in SUBSET Nat, T # {}
    PROVE  \E x \in T : \A y \in T : x <= y
<1> DEFINE R == {ss \in Nat \X Nat : ss[1] < ss[2]}
<1>1. R = OpToRel(<, Nat)
  BY DEF OpToRel
<1>2. IsWellFoundedOn(R, Nat)
  BY <1>1, NatLessThanWellFounded
<1>3. \A a, b \in Nat : <<a, b>> \in R <=> a < b
  OBVIOUS
<1> HIDE DEF R
<1>4. PICK x \in T : \A y \in T : ~ (<<y, x>> \in R)
  BY <1>2, WFMin
<1>5. \A y \in T : y \in Nat
  OBVIOUS
<1>6. ASSUME NEW y \in T PROVE x <= y
  <2>1. x \in Nat /\ y \in Nat /\ ~(<<y, x>> \in R)
    BY <1>4, <1>5
  <2>2. ~(y < x)
    BY <1>3, <2>1
  <2> QED
    BY <2>1, <2>2
<1> QED
  BY <1>6

\* Induction, with the set of what holds for a predicate.
LEMMA Inducao ==
    ASSUME NEW S \in SUBSET Nat, 0 \in S, \A n \in S : n + 1 \in S
    PROVE  S = Nat
<1> SUFFICES ASSUME S # Nat PROVE FALSE
  OBVIOUS
<1> DEFINE T == Nat \ S
<1>1. T \in SUBSET Nat /\ T # {}
  OBVIOUS
<1>2. PICK m \in T : \A y \in T : m <= y
  BY <1>1, TemMenor
<1>3. m \in Nat /\ m # 0 /\ m \notin S
  BY <1>2
<1>4. m - 1 \in Nat /\ m - 1 < m
  BY <1>3
<1>5. m - 1 \in S
  BY <1>2, <1>4
<1> QED
  BY <1>3, <1>4, <1>5

LEMMA SemUm ==
    ASSUME NEW s \in SUBSET Ids, s # {}
    PROVE  /\ Um(s) \in s /\ s \ {Um(s)} \in SUBSET Ids /\ IsFiniteSet(s)
           /\ Cardinality(s) \in Nat \ {0} /\ Cardinality(s \ {Um(s)}) = Cardinality(s) - 1
<1>1. Um(s) \in s
  BY DEF Um
<1>2. IsFiniteSet(s)
  BY ConstantesA, FS_Subset
<1>3. Cardinality(s) \in Nat /\ Cardinality(s) # 0
  BY <1>2, FS_CardinalityType, FS_EmptySet
<1>4. Cardinality(s \ {Um(s)}) = Cardinality(s) - 1
  BY <1>1, <1>2, FS_RemoveElement
<1> QED
  BY <1>1, <1>2, <1>3, <1>4

\* The recursion defines a function.
LEMMA ParcialExiste ==
    ASSUME NEW f
    PROVE  Parcial(f) = [s \in SUBSET Ids |-> Regra(f, Parcial(f), s)]
<1> DEFINE Vale(it, n) == \A s \in SUBSET Ids : Cardinality(s) <= n => it[s] = Regra(f, it, s)
           S == {n \in Nat : \E it : Vale(it, n)}
<1>1. 0 \in S
  <2> DEFINE it == [s \in SUBSET Ids |-> 0]
  <2>1. ASSUME NEW s \in SUBSET Ids, Cardinality(s) <= 0 PROVE it[s] = Regra(f, it, s)
    <3>1. s = {}
      <4>1. s # {} => Cardinality(s) \in Nat \ {0}
        BY SemUm
      <4> HIDE DEF it
      <4> QED
        BY <2>1, <4>1
    <3> QED
      BY <3>1 DEF Regra
  <2> QED
    BY <2>1
<1>2. ASSUME NEW n \in S PROVE n + 1 \in S
  <2>1. PICK it : Vale(it, n)
    BY <1>2
  <2> DEFINE ja == [s \in SUBSET Ids |-> IF Cardinality(s) <= n THEN it[s] ELSE Regra(f, it, s)]
  <2>2. ASSUME NEW s \in SUBSET Ids, Cardinality(s) <= n + 1 PROVE ja[s] = Regra(f, ja, s)
    <3>1. ja[s] = Regra(f, it, s)
      BY <2>1
    <3>2. CASE s = {}
      BY <3>1, <3>2 DEF Regra
    <3>3. CASE s # {}
      <4>1. s \ {Um(s)} \in SUBSET Ids /\ Cardinality(s \ {Um(s)}) <= n
        BY <2>2, <3>3, SemUm
      <4>2. ja[s \ {Um(s)}] = it[s \ {Um(s)}]
        BY <4>1
      <4> QED
        BY <3>1, <3>3, <4>2 DEF Regra
    <3> QED
      BY <3>2, <3>3
  <2>3. Vale(ja, n + 1)
    BY <2>2
  <2> HIDE DEF Vale, ja
  <2> QED
    BY <2>3
<1>3. S = Nat
  <2> HIDE DEF S
  <2>1. S \in SUBSET Nat
    BY DEF S
  <2> QED
    BY <1>1, <1>2, <2>1, Inducao
<1>4. Cardinality(Ids) \in Nat /\ \A s \in SUBSET Ids : Cardinality(s) <= Cardinality(Ids)
  BY ConstantesA, FS_CardinalityType, FS_Subset
<1>5. PICK it : Vale(it, Cardinality(Ids))
  BY <1>3, <1>4
<1> DEFINE ja == [s \in SUBSET Ids |-> it[s]]
<1>6. ASSUME NEW s \in SUBSET Ids PROVE ja[s] = Regra(f, ja, s)
  BY <1>4, <1>5, SemUm DEF Regra
<1>7. ja = [s \in SUBSET Ids |-> Regra(f, ja, s)]
  BY <1>6
<1> HIDE DEF ja
<1> QED
  BY <1>7 DEF Parcial

\* Sums of integers are integers, and a sum changes by what its terms change.
LEMMA ParcialMuda ==
    ASSUME NEW f \in [Ids -> Int], NEW g \in [Ids -> Int], NEW x \in Ids,
           \A y \in Ids : y # x => g[y] = f[y]
    PROVE  \A s \in SUBSET Ids :
               /\ Parcial(f)[s] \in Int /\ Parcial(g)[s] \in Int
               /\ Parcial(g)[s] = Parcial(f)[s] + IF x \in s THEN g[x] - f[x] ELSE 0
<1> DEFINE F == Parcial(f) G == Parcial(g)
           Vale(s) == /\ F[s] \in Int /\ G[s] \in Int
                      /\ G[s] = F[s] + IF x \in s THEN g[x] - f[x] ELSE 0
           S == {n \in Nat : \A s \in SUBSET Ids : Cardinality(s) = n => Vale(s)}
<1>0. \A s \in SUBSET Ids : F[s] = Regra(f, F, s) /\ G[s] = Regra(g, G, s)
  BY ParcialExiste
<1> HIDE DEF F, G
<1>1. 0 \in S
  <2> SUFFICES ASSUME NEW s \in SUBSET Ids, Cardinality(s) = 0 PROVE Vale(s)
    OBVIOUS
  <2>1. s = {}
    <3>1. s # {} => Cardinality(s) # 0
      BY SemUm
    <3> QED
      BY <3>1
  <2>2. F[s] = 0 /\ G[s] = 0
    BY <1>0, <2>1 DEF Regra
  <2>3. f[x] \in Int /\ g[x] \in Int /\ x \notin s
    BY <2>1
  <2> QED
    BY <2>2, <2>3
<1>2. ASSUME NEW n \in S PROVE n + 1 \in S
  <2> SUFFICES ASSUME NEW s \in SUBSET Ids, Cardinality(s) = n + 1 PROVE Vale(s)
    OBVIOUS
  <2>1. s # {}
    <3>1. n \in Nat /\ Cardinality({}) = 0
      BY <1>2, FS_EmptySet
    <3>2. n + 1 # 0
      BY <3>1
    <3> HIDE DEF Vale
    <3> QED
      BY <3>1, <3>2
  <2> DEFINE c == Um(s) m == s \ {Um(s)}
  <2>2. c \in s /\ c \in Ids /\ m \in SUBSET Ids /\ Cardinality(m) = n /\ m = s \ {c}
    BY <2>1, SemUm
  <2>3. Vale(m)
    BY <1>2, <2>2
  <2>4. F[s] = f[c] + F[m] /\ G[s] = g[c] + G[m]
    BY <1>0, <2>1 DEF Regra
  <2>5. f[c] \in Int /\ g[c] \in Int /\ f[x] \in Int /\ g[x] \in Int
    BY <2>2
  <2> HIDE DEF c, m
  <2>6. CASE c = x
    BY <2>2, <2>3, <2>4, <2>5, <2>6
  <2>7. CASE c # x
    BY <2>2, <2>3, <2>4, <2>5, <2>7
  <2> QED
    BY <2>6, <2>7
<1>3. S = Nat
  <2> HIDE DEF S
  <2>1. S \in SUBSET Nat
    BY DEF S
  <2> QED
    BY <1>1, <1>2, <2>1, Inducao
<1>4. ASSUME NEW s \in SUBSET Ids PROVE Cardinality(s) \in Nat
  BY ConstantesA, FS_Subset, FS_CardinalityType
<1>5. \A s \in SUBSET Ids : Vale(s)
  BY <1>3, <1>4
<1> QED
  BY <1>5 DEF F, G

LEMMA SomaMuda ==
    ASSUME NEW f \in [Ids -> Int], NEW g \in [Ids -> Int], NEW x \in Ids,
           \A y \in Ids : y # x => g[y] = f[y]
    PROVE  /\ Soma(f) \in Int /\ Soma(g) \in Int
           /\ Soma(g) = Soma(f) + (g[x] - f[x])
<1>1. Ids \in SUBSET Ids
  OBVIOUS
<1> QED
  BY <1>1, ParcialMuda, SomaDesdobrada

-----------------------------------------------------------------------------
(***************************************************************************)
(* The money.  Every handler changes what came in and what is owed by the  *)
(* same amount, or moves what is owed from a reservation to the one that   *)
(* replaces it.                                                            *)
(***************************************************************************)

Entradas    == [r \in Ids |-> Entrou(r)]
Patrimonios == [r \in Ids |-> Patrimonio(r)]

\* An unused id and a hold have no money; who was replaced is cancelled.
ContaCoerente(r) ==
    /\ status[r] = "inexistente" => conta[r] = ContaVazia /\ remarcadaDe[r] = Nenhuma
    /\ status[r] = "hold" => conta[r].pago = 0 /\ conta[r].credito = 0 /\ ~conta[r].herdado
    /\ Remarcada(r) => status[r] = "cancelled"
    /\ conta[r].devolvido >= 0 /\ conta[r].retido >= 0

Caixa == (\A r \in Ids : ContaCoerente(r)) /\ Soma(Entradas) = Soma(Patrimonios)

LEMMA ContasTipadas ==
    ASSUME TypeOK
    PROVE  Entradas \in [Ids -> Int] /\ Patrimonios \in [Ids -> Int]
<1>1. \A r \in Ids : conta[r] \in Conta
  BY DEF TypeOK
<1>2. \A r \in Ids : Entrou(r) \in Int /\ Patrimonio(r) \in Int
  BY <1>1 DEF Entrou, Patrimonio, Conta
<1> QED
  BY <1>2 DEF Entradas, Patrimonios

LEMMA ContasTipadasDepois ==
    ASSUME TypeOK'
    PROVE  Entradas' \in [Ids -> Int] /\ Patrimonios' \in [Ids -> Int]
<1>1. \A r \in Ids : conta'[r] \in Conta
  BY DEF TypeOK
<1>2. \A r \in Ids : Entrou(r)' \in Int /\ Patrimonio(r)' \in Int
  BY <1>1 DEF Entrou, Patrimonio, Conta
<1> QED
  BY <1>2 DEF Entradas, Patrimonios

\* What came in changed at x; what is owed changed as much at x and y together.
LEMMA CaixaFecha ==
    ASSUME TypeOK, TypeOK', Soma(Entradas) = Soma(Patrimonios),
           NEW x \in Ids, NEW y \in Ids, x # y,
           \A r \in Ids \ {x} : Entrou(r)' = Entrou(r),
           \A r \in Ids \ {x, y} : Patrimonio(r)' = Patrimonio(r),
           Entrou(x)' - Entrou(x)
               = (Patrimonio(x)' - Patrimonio(x)) + (Patrimonio(y)' - Patrimonio(y))
    PROVE  Soma(Entradas') = Soma(Patrimonios')
<1> DEFINE e == Entradas  e2 == Entradas'  p == Patrimonios  p2 == Patrimonios'
           m == [p EXCEPT ![x] = p2[x]]
<1>1. /\ e \in [Ids -> Int] /\ e2 \in [Ids -> Int] /\ p \in [Ids -> Int] /\ p2 \in [Ids -> Int]
      /\ m \in [Ids -> Int]
  BY ContasTipadas, ContasTipadasDepois
<1>2. \A r \in Ids : e[r] = Entrou(r) /\ e2[r] = Entrou(r)' /\ p[r] = Patrimonio(r) /\ p2[r] = Patrimonio(r)'
  BY DEF Entradas, Patrimonios
<1>3. /\ \A r \in Ids : r # x => e2[r] = e[r]
      /\ \A r \in Ids : r # x => m[r] = p[r]
      /\ \A r \in Ids : r # y => p2[r] = m[r]
      /\ e2[x] - e[x] = (p2[x] - p[x]) + (p2[y] - p[y])
      /\ m[x] = p2[x] /\ m[y] = p[y]
  BY <1>1, <1>2
<1> HIDE DEF e, e2, p, p2, m
<1>4. Soma(e2) = Soma(e) + (e2[x] - e[x]) /\ Soma(e) \in Int
  BY <1>1, <1>3, SomaMuda
<1>5. Soma(m) = Soma(p) + (m[x] - p[x]) /\ Soma(p) \in Int
  BY <1>1, <1>3, SomaMuda
<1>6. Soma(p2) = Soma(m) + (p2[y] - m[y])
  BY <1>1, <1>3, SomaMuda
<1>7. Soma(e) = Soma(p)
  BY DEF e, p
<1>8. e2[x] \in Int /\ e[x] \in Int /\ p2[x] \in Int /\ p[x] \in Int /\ p2[y] \in Int /\ p[y] \in Int
  BY <1>1
<1>9. Soma(e2) = Soma(p2)
  BY <1>3, <1>4, <1>5, <1>6, <1>7, <1>8
<1> QED
  BY <1>9 DEF e2, p2

LEMMA CaixaUma ==
    ASSUME TypeOK, TypeOK', Soma(Entradas) = Soma(Patrimonios), NEW x \in Ids,
           \A r \in Ids \ {x} : Entrou(r)' = Entrou(r) /\ Patrimonio(r)' = Patrimonio(r),
           Entrou(x)' - Entrou(x) = Patrimonio(x)' - Patrimonio(x)
    PROVE  Soma(Entradas') = Soma(Patrimonios')
<1> DEFINE e == Entradas  e2 == Entradas'  p == Patrimonios  p2 == Patrimonios'
<1>1. /\ e \in [Ids -> Int] /\ e2 \in [Ids -> Int] /\ p \in [Ids -> Int] /\ p2 \in [Ids -> Int]
  BY ContasTipadas, ContasTipadasDepois
<1>2. \A r \in Ids : e[r] = Entrou(r) /\ e2[r] = Entrou(r)' /\ p[r] = Patrimonio(r) /\ p2[r] = Patrimonio(r)'
  BY DEF Entradas, Patrimonios
<1>3. /\ \A r \in Ids : r # x => e2[r] = e[r] /\ p2[r] = p[r]
      /\ e2[x] - e[x] = p2[x] - p[x]
  BY <1>2
<1> HIDE DEF e, e2, p, p2
<1>4. Soma(e2) = Soma(e) + (e2[x] - e[x]) /\ Soma(e) \in Int
  BY <1>1, <1>3, SomaMuda
<1>5. Soma(p2) = Soma(p) + (p2[x] - p[x]) /\ Soma(p) \in Int
  BY <1>1, <1>3, SomaMuda
<1>7. Soma(e) = Soma(p)
  BY DEF e, p
<1>9. Soma(e2) = Soma(p2)
  BY <1>3, <1>4, <1>5, <1>7
<1> QED
  BY <1>9 DEF e2, p2

LEMMA CaixaParada ==
    ASSUME Soma(Entradas) = Soma(Patrimonios),
           \A r \in Ids : Entrou(r)' = Entrou(r) /\ Patrimonio(r)' = Patrimonio(r)
    PROVE  Soma(Entradas') = Soma(Patrimonios')
<1>1. Entradas' = Entradas /\ Patrimonios' = Patrimonios
  BY DEF Entradas, Patrimonios
<1> QED
  BY <1>1

\* The refund is between nothing and what was paid.
LEMMA DevolucaoCabe ==
    ASSUME NEW base \in Nat, NEW dias \in Int
    PROVE  Devolucao(base, dias) \in 0..base
<1> DEFINE pct == Percentual(dias)  v == base * pct
<1>1. pct \in 0..100
  BY PercentualTipado
<1> HIDE DEF pct
<1>2. v \in Int /\ 0 <= v /\ v <= base * 100
  BY <1>1
<1> HIDE DEF v
<1>3. (v + 50) \div 100 \in 0..base
  BY <1>2
<1> QED
  BY <1>3 DEF Devolucao, v, pct

LEMMA SomaDepois == Soma(Entradas)' = Soma(Entradas') /\ Soma(Patrimonios)' = Soma(Patrimonios')
BY DEF Soma, MapThenSumSet, MapThenFoldSet

\* The account emitir opens, and what it says of the balance it was opened with.
ContaNova(saldo, total) ==
    [ContaVazia EXCEPT !.total   = total,
                       !.pago    = Menor(saldo, total),
                       !.herdado = (saldo > 0),
                       !.credito = saldo - Menor(saldo, total)]

Guarda(c, saldo) ==
    /\ c.pago \in Nat /\ c.credito \in Nat /\ c.pago + c.credito = saldo
    /\ saldo > 0 => c.herdado
    /\ saldo = 0 => ~c.herdado
    /\ c.devolvido = 0 /\ c.retido = 0

LEMMA ContaNovaGuarda ==
    ASSUME NEW saldo \in Nat, NEW total \in Nat
    PROVE  Guarda(ContaNova(saldo, total), saldo)
<1> DEFINE a == Menor(saldo, total)  h == (saldo > 0)  c == ContaNova(saldo, total)
<1>1. a \in Nat /\ a <= saldo
  BY DEF Menor
<1>2. c = [ContaVazia EXCEPT !.total = total, !.pago = a, !.herdado = h, !.credito = saldo - a]
  BY DEF ContaNova
<1>3. (saldo > 0 => h) /\ (saldo = 0 => ~h)
  BY DEF h
<1> HIDE DEF a, h, c
<1>4. /\ c.pago = a /\ c.credito = saldo - a /\ c.herdado = h
      /\ c.devolvido = 0 /\ c.retido = 0
  BY <1>2 DEF ContaVazia
<1>5. a + (saldo - a) = saldo /\ saldo - a \in Nat
  BY <1>1
<1>6. (saldo > 0 => c.herdado) /\ (saldo = 0 => ~c.herdado)
  BY <1>3, <1>4, Zenon
<1>7. Guarda(c, saldo)
  BY <1>1, <1>4, <1>5, <1>6 DEF Guarda
<1> QED
  BY <1>7 DEF c

\* What issuing changes in the tables the money is read from.
LEMMA EmitirConta ==
    ASSUME NEW base, NEW t, NEW r, NEW pedido, NEW estado, NEW origem, NEW saldo,
           Emitir(base, t, r, pedido, estado, origem, saldo)
    PROVE  /\ status' = [base.status EXCEPT ![r] = estado]
           /\ remarcadaDe' = [remarcadaDe EXCEPT ![r] = origem]
           /\ \E total \in Totais : conta' = [conta EXCEPT ![r] = ContaNova(saldo, total)]
BY DEF Emitir, ContaNova

\* A reservation that keeps its account and its side of the books keeps its sum.
LEMMA CaixaSemDinheiro ==
    ASSUME TypeOK, Caixa, UNCHANGED <<conta, remarcadaDe>>,
           \A r \in Ids :
               \/ status'[r] = status[r]
               \/ /\ status[r] \notin {"inexistente", "cancelled", "no_show"}
                  /\ status'[r] \notin {"inexistente", "hold", "cancelled", "no_show"}
    PROVE  Caixa'
<1>1. \A r \in Ids : Remarcada(r)' <=> Remarcada(r)
  BY DEF Remarcada
<1>2. \A r \in Ids : ContaCoerente(r)'
  BY <1>1 DEF Caixa, ContaCoerente
<1>3. \A r \in Ids : Entrou(r)' = Entrou(r)
  BY DEF Entrou
<1>4. \A r \in Ids : Patrimonio(r)' = Patrimonio(r)
  BY <1>1 DEF Patrimonio
<1>5. Soma(Entradas') = Soma(Patrimonios')
  BY <1>3, <1>4, CaixaParada DEF Caixa
<1> QED
  BY <1>2, <1>5, SomaDepois DEF Caixa

LEMMA CaixaCriar == TypeOK /\ TypeOK' /\ Caixa /\ Criar => Caixa'
<1> SUFFICES ASSUME TypeOK, TypeOK', Caixa, Criar PROVE Caixa'
  OBVIOUS
<1>1. PICK t \in Inicios, r \in Livres, pedido \in Pedido :
          Emitir(Atual, t, r, pedido, "hold", Nenhuma, 0)
  BY DEF Criar
<1>2. r \in Ids
  BY DEF Livres
<1>3. /\ status[r] = "inexistente" /\ status'[r] = "hold" /\ remarcadaDe'[r] = Nenhuma
      /\ \A q \in Ids \ {r} : /\ status'[q] = status[q]
                              /\ conta'[q] = conta[q]
                              /\ remarcadaDe'[q] = remarcadaDe[q]
      /\ conta'[r].pago \in Nat /\ conta'[r].credito \in Nat
      /\ conta'[r].pago + conta'[r].credito = 0
      /\ ~conta'[r].herdado
      /\ conta'[r].devolvido = 0 /\ conta'[r].retido = 0
  <2>1. /\ status' = [Atual.status EXCEPT ![r] = "hold"]
        /\ remarcadaDe' = [remarcadaDe EXCEPT ![r] = Nenhuma]
        /\ \E total \in Totais : conta' = [conta EXCEPT ![r] = ContaNova(0, total)]
    BY <1>1, EmitirConta
  <2>2. PICK total \in Totais : conta' = [conta EXCEPT ![r] = ContaNova(0, total)]
    BY <2>1
  <2>3. Guarda(ContaNova(0, total), 0)
    BY ContaNovaGuarda, ConstantesA
  <2>4. Atual.status = status
    BY DEF Atual
  <2>5. conta'[r] = ContaNova(0, total) /\ \A q \in Ids \ {r} : conta'[q] = conta[q]
    BY <1>2, <2>2 DEF TypeOK
  <2>6. status'[r] = "hold" /\ \A q \in Ids \ {r} : status'[q] = status[q]
    BY <1>2, <2>1, <2>4 DEF TypeOK
  <2>7. remarcadaDe'[r] = Nenhuma /\ \A q \in Ids \ {r} : remarcadaDe'[q] = remarcadaDe[q]
    BY <1>2, <2>1 DEF TypeOK
  <2>8. Guarda(conta'[r], 0) /\ status[r] = "inexistente"
    BY <2>3, <2>5 DEF Livres
  <2> QED
    BY <2>5, <2>6, <2>7, <2>8 DEF Guarda
<1>4. conta'[r].pago = 0 /\ conta'[r].credito = 0
  BY <1>3
<1>5. conta[r] = ContaVazia /\ remarcadaDe[r] = Nenhuma
  BY <1>2, <1>3 DEF Caixa, ContaCoerente
<1>6. \A q \in Ids : Remarcada(q)' <=> Remarcada(q)
  BY <1>2, <1>3, <1>5, ConstantesA DEF Remarcada
<1>7. ~Remarcada(r)
  BY <1>2, <1>3 DEF Caixa, ContaCoerente
<1>8. \A q \in Ids : ContaCoerente(q)'
  BY <1>2, <1>3, <1>4, <1>6, <1>7 DEF Caixa, ContaCoerente
<1>9. \A q \in Ids : Entrou(q)' = Entrou(q)
  BY <1>2, <1>3, <1>4, <1>5 DEF Entrou, ContaVazia
<1>10. \A q \in Ids : Patrimonio(q)' = Patrimonio(q)
  <2>1. \A q \in Ids \ {r} : Patrimonio(q)' = Patrimonio(q)
    BY <1>3, <1>6 DEF Patrimonio
  <2>2. Patrimonio(r)' = Patrimonio(r)
    BY <1>2, <1>3, <1>4, <1>5, <1>6, <1>7 DEF Patrimonio, ContaVazia
  <2> QED
    BY <2>1, <2>2
<1>11. Soma(Entradas') = Soma(Patrimonios')
  BY <1>9, <1>10, CaixaParada DEF Caixa
<1> QED
  BY <1>8, <1>11, SomaDepois DEF Caixa

LEMMA CaixaConfirmar ==
    ASSUME TypeOK, TypeOK', Caixa, NEW r \in Ids, NEW t \in Inicios,
           NEW pago \in 1..conta[r].total, Confirmar(r, t, pago)
    PROVE  Caixa'
<1>1. /\ status[r] = "hold" /\ status'[r] = "confirmed"
      /\ \A q \in Ids \ {r} : status'[q] = status[q] /\ conta'[q] = conta[q]
      /\ conta'[r] = [conta[r] EXCEPT !.pago = pago]
      /\ remarcadaDe' = remarcadaDe
  BY DEF Confirmar, TypeOK
<1>2. conta[r] \in Conta /\ pago \in Int
  BY DEF TypeOK, Conta
<1>3. /\ conta'[r].pago = pago /\ conta'[r].credito = conta[r].credito
      /\ conta'[r].herdado = conta[r].herdado
      /\ conta'[r].devolvido = conta[r].devolvido /\ conta'[r].retido = conta[r].retido
  BY <1>1, <1>2 DEF Conta
<1>4. conta[r].pago = 0 /\ conta[r].credito = 0 /\ ~conta[r].herdado /\ ~Remarcada(r)
  BY <1>1 DEF Caixa, ContaCoerente
<1>5. \A q \in Ids : Remarcada(q)' <=> Remarcada(q)
  BY <1>1 DEF Remarcada
<1>6. \A q \in Ids : ContaCoerente(q)'
  BY <1>1, <1>3, <1>4, <1>5 DEF Caixa, ContaCoerente
<1>7. \A q \in Ids \ {r} : Entrou(q)' = Entrou(q) /\ Patrimonio(q)' = Patrimonio(q)
  BY <1>1, <1>5 DEF Entrou, Patrimonio
<1>8. Entrou(r) = 0 /\ Entrou(r)' = pago
  BY <1>3, <1>4 DEF Entrou
<1>9. Patrimonio(r) = 0 /\ Patrimonio(r)' = pago
  BY <1>1, <1>2, <1>3, <1>4, <1>5 DEF Patrimonio
<1>10. Soma(Entradas') = Soma(Patrimonios')
  BY <1>7, <1>8, <1>9, CaixaUma DEF Caixa
<1> QED
  BY <1>6, <1>10, SomaDepois DEF Caixa

LEMMA CaixaCancelar ==
    ASSUME TypeOK, TypeOK', Caixa, NEW r \in Ids, NEW t \in Inicios,
           NEW destino \in {"cancelled", "no_show"}, Cancelar(r, t, destino)
    PROVE  Caixa'
<1> DEFINE antecedencia == estadia[r].de - t
           dias == IF destino = "no_show" THEN Menor(antecedencia, 0) ELSE antecedencia
           base == Menor(conta[r].pago, conta[r].total)
           dev  == Devolucao(base, dias)
<1>1. /\ status'[r] = destino /\ Cancelavel(status[r])
      /\ \A q \in Ids \ {r} : status'[q] = status[q] /\ conta'[q] = conta[q]
      /\ conta'[r] = CalcularCancelamento(conta[r], dias)
      /\ remarcadaDe' = remarcadaDe
  BY DEF Cancelar, TypeOK
<1>2. conta[r] \in Conta /\ dias \in Int
  BY DEF TypeOK, Menor, Inicios, Dias, Pedido
<1>3. base \in Nat
  BY <1>2 DEF Menor, Conta
<1>4. dev \in 0..base
  BY <1>2, <1>3, DevolucaoCabe
<1>5. /\ conta'[r].pago = conta[r].pago /\ conta'[r].herdado = conta[r].herdado
      /\ conta'[r].devolvido = dev /\ conta'[r].retido = base - dev
      /\ conta'[r].aberto = conta[r].credito + (conta[r].pago - base)
  BY <1>1, <1>2 DEF CalcularCancelamento, Conta
<1> HIDE DEF dias, base, dev
<1>6. status[r] \notin {"inexistente", "cancelled", "no_show"} /\ ~Remarcada(r)
  BY <1>1 DEF Cancelavel, Caixa, ContaCoerente
<1>7. \A q \in Ids : Remarcada(q)' <=> Remarcada(q)
  BY <1>1 DEF Remarcada
<1>8. \A q \in Ids : ContaCoerente(q)'
  <2>1. \A q \in Ids \ {r} : ContaCoerente(q)'
    BY <1>1, <1>7 DEF Caixa, ContaCoerente
  <2>2. conta'[r].devolvido >= 0 /\ conta'[r].retido >= 0
    BY <1>3, <1>4, <1>5
  <2>3. ContaCoerente(r)'
    BY <1>1, <1>6, <1>7, <2>2 DEF ContaCoerente
  <2> QED
    BY <2>1, <2>3
<1>9. \A q \in Ids : Entrou(q)' = Entrou(q)
  BY <1>1, <1>5 DEF Entrou
<1>10. Patrimonio(r)' = Patrimonio(r)
  <2>1. Patrimonio(r) = conta[r].pago + conta[r].credito
    BY <1>6 DEF Patrimonio
  <2>2. Patrimonio(r)' = dev + (base - dev) + (conta[r].credito + (conta[r].pago - base))
    BY <1>1, <1>5, <1>6, <1>7 DEF Patrimonio
  <2>3. conta[r].pago \in Int /\ conta[r].credito \in Int
    BY <1>2 DEF Conta
  <2> QED
    BY <1>3, <1>4, <2>1, <2>2, <2>3
<1>11. \A q \in Ids : Patrimonio(q)' = Patrimonio(q)
  BY <1>1, <1>7, <1>10 DEF Patrimonio
<1>12. Soma(Entradas') = Soma(Patrimonios')
  BY <1>9, <1>11, CaixaParada DEF Caixa
<1> QED
  BY <1>8, <1>12, SomaDepois DEF Caixa

\* The balance leaves the original and enters the new sale, whole.
LEMMA CaixaRemarcar ==
    ASSUME TypeOK, TypeOK', Caixa, NEW r \in Ids, NEW t \in Inicios,
           NEW nova \in Livres, NEW pedido \in Pedido, Remarcar(r, t, nova, pedido)
    PROVE  Caixa'
<1> DEFINE saldo == SaldoHerdado(r)
           base  == [status |-> [status EXCEPT ![r] = "cancelled"],
                     prazo  |-> [prazo EXCEPT ![r] = SemPrazo],
                     agenda |-> [agenda EXCEPT ![r] = OnCancel(agenda[r], FALSE, t)],
                     blocos |-> MoverBlocosDaReserva(blocos, r, Bloqueiam, "cancelled")]
<1>1. /\ nova \in Ids /\ status[nova] = "inexistente"
      /\ status[r] \in {"hold", "confirmed"} /\ r # nova
  BY DEF Livres, Remarcar
<1>2. conta[r] \in Conta
  BY DEF TypeOK
<1>3. saldo \in Nat
  BY <1>2 DEF SaldoHerdado, Conta
<1>4. /\ status'[nova] = status[r] /\ remarcadaDe'[nova] = r
      /\ \A q \in Ids \ {nova} : /\ status'[q] = base.status[q]
                                 /\ conta'[q] = conta[q]
                                 /\ remarcadaDe'[q] = remarcadaDe[q]
      /\ conta'[nova].pago \in Nat /\ conta'[nova].credito \in Nat
      /\ conta'[nova].pago + conta'[nova].credito = saldo
      /\ saldo > 0 => conta'[nova].herdado
      /\ saldo = 0 => ~conta'[nova].herdado
      /\ conta'[nova].devolvido = 0 /\ conta'[nova].retido = 0
  <2>1. Emitir(base, t, nova, pedido, status[r], r, saldo)
    BY DEF Remarcar, EstadoDaNova
  <2> HIDE DEF base, saldo
  <2>2. /\ status' = [base.status EXCEPT ![nova] = status[r]]
        /\ remarcadaDe' = [remarcadaDe EXCEPT ![nova] = r]
        /\ \E total \in Totais : conta' = [conta EXCEPT ![nova] = ContaNova(saldo, total)]
    BY <2>1, EmitirConta
  <2>3. PICK total \in Totais : conta' = [conta EXCEPT ![nova] = ContaNova(saldo, total)]
    BY <2>2
  <2>4. Guarda(ContaNova(saldo, total), saldo)
    BY <1>3, ContaNovaGuarda, ConstantesA
  <2>5. base.status \in [Ids -> Estados]
    BY DEF base, TypeOK, Estados, Transicoes
  <2>6. conta'[nova] = ContaNova(saldo, total) /\ \A q \in Ids \ {nova} : conta'[q] = conta[q]
    BY <1>1, <2>3 DEF TypeOK
  <2>7. status'[nova] = status[r] /\ \A q \in Ids \ {nova} : status'[q] = base.status[q]
    BY <1>1, <2>2, <2>5
  <2>8. remarcadaDe'[nova] = r /\ \A q \in Ids \ {nova} : remarcadaDe'[q] = remarcadaDe[q]
    BY <1>1, <2>2 DEF TypeOK
  <2>9. Guarda(conta'[nova], saldo)
    BY <2>4, <2>6
  <2> QED
    BY <2>6, <2>7, <2>8, <2>9 DEF Guarda
<1>5. status'[r] = "cancelled" /\ \A q \in Ids \ {nova, r} : status'[q] = status[q]
  BY <1>1, <1>4 DEF TypeOK
<1>6. /\ conta[nova] = ContaVazia /\ remarcadaDe[nova] = Nenhuma
      /\ ~Remarcada(nova) /\ ~Remarcada(r)
  BY <1>1 DEF Caixa, ContaCoerente
<1>7. status[r] = "hold" => saldo = 0 /\ conta[r].pago = 0 /\ conta[r].credito = 0
  BY DEF Caixa, ContaCoerente, SaldoHerdado
<1>8. saldo = conta[r].pago + conta[r].credito
  BY <1>1, <1>7 DEF SaldoHerdado
<1> HIDE DEF base, saldo
<1>9. /\ Remarcada(r)' /\ ~Remarcada(nova)'
      /\ \A q \in Ids \ {nova, r} : Remarcada(q)' <=> Remarcada(q)
  BY <1>1, <1>4, <1>6, ConstantesA DEF Remarcada
<1>10. \A q \in Ids : ContaCoerente(q)'
  <2>1. \A q \in Ids \ {nova, r} : ContaCoerente(q)'
    BY <1>4, <1>5, <1>9 DEF Caixa, ContaCoerente
  <2>2. ContaCoerente(r)'
    BY <1>1, <1>4, <1>5 DEF Caixa, ContaCoerente
  <2>3. status[r] = "hold" => conta'[nova].pago = 0 /\ conta'[nova].credito = 0 /\ ~conta'[nova].herdado
    BY <1>4, <1>7
  <2>4. ContaCoerente(nova)'
    BY <1>1, <1>4, <1>9, <2>3 DEF ContaCoerente
  <2> QED
    BY <2>1, <2>2, <2>4
<1>11. \A q \in Ids \ {nova} : Entrou(q)' = Entrou(q)
  BY <1>4 DEF Entrou
<1>12. Entrou(nova) = 0 /\ Entrou(nova)' = 0
  <2>1. Entrou(nova) = 0
    BY <1>6 DEF Entrou, ContaVazia
  <2>2. CASE saldo > 0
    BY <1>4, <2>1, <2>2 DEF Entrou
  <2>3. CASE ~(saldo > 0)
    <3>1. conta'[nova].pago = 0
      BY <1>3, <1>4, <2>3
    <3> QED
      BY <2>1, <3>1 DEF Entrou
  <2> QED
    BY <2>2, <2>3
<1>13. \A q \in Ids \ {nova, r} : Patrimonio(q)' = Patrimonio(q)
  BY <1>4, <1>5, <1>9 DEF Patrimonio
<1>14. Patrimonio(nova) = 0 /\ Patrimonio(nova)' = saldo
  BY <1>1, <1>4, <1>6, <1>9 DEF Patrimonio, ContaVazia
<1>15. Patrimonio(r) = saldo /\ Patrimonio(r)' = 0
  BY <1>1, <1>6, <1>8, <1>9 DEF Patrimonio
<1>16. Entrou(nova)' - Entrou(nova)
           = (Patrimonio(nova)' - Patrimonio(nova)) + (Patrimonio(r)' - Patrimonio(r))
  BY <1>3, <1>12, <1>14, <1>15
<1>17. Soma(Entradas') = Soma(Patrimonios')
  BY <1>1, <1>11, <1>13, <1>16, CaixaFecha DEF Caixa
<1> QED
  BY <1>10, <1>17, SomaDepois DEF Caixa

LEMMA CaixaAcao ==
    ASSUME TypeOK, TypeOK', Caixa, NEW r \in Ids, Acao(r)
    PROVE  Caixa'
<1>1. CASE \E t \in Inicios : \E pago \in 1..conta[r].total : Confirmar(r, t, pago)
  BY <1>1, CaixaConfirmar
<1>2. CASE \E t \in Inicios : \E destino \in {"cancelled", "no_show"} : Cancelar(r, t, destino)
  BY <1>2, CaixaCancelar
<1>3. CASE \E t \in Inicios : \E nova \in Livres, pedido \in Pedido : Remarcar(r, t, nova, pedido)
  BY <1>3, CaixaRemarcar
<1>4. CASE \E t \in Inicios : \/ \E de, para \in Unidades : Realocar(r, t, de, para)
                              \/ \E horas \in HorasExtra : EstenderHold(r, t, horas)
  <2>1. UNCHANGED <<status, conta, remarcadaDe>>
    BY <1>4 DEF Realocar, EstenderHold
  <2> QED
    BY <2>1, CaixaSemDinheiro
<1>5. CASE \E dia \in Dias : RegistrarCheckIn(r, dia) \/ RegistrarCheckOut(r, dia)
  <2>1. UNCHANGED <<conta, remarcadaDe>>
    BY <1>5 DEF RegistrarCheckIn, RegistrarCheckOut
  <2>2. /\ status[r] \in {"confirmed", "checked_in"}
        /\ status'[r] \in {"checked_in", "checked_out"}
        /\ \A q \in Ids \ {r} : status'[q] = status[q]
    BY <1>5 DEF RegistrarCheckIn, RegistrarCheckOut, PodeEntrar, TypeOK
  <2> QED
    BY <2>1, <2>2, CaixaSemDinheiro
<1> QED
  BY <1>1, <1>2, <1>3, <1>4, <1>5 DEF Acao

LEMMA CaixaProximo == TypeOK /\ TypeOK' /\ Caixa /\ [Next]_vars => Caixa'
<1> SUFFICES ASSUME TypeOK, TypeOK', Caixa, [Next]_vars PROVE Caixa'
  OBVIOUS
<1>1. CASE Criar
  BY <1>1, CaixaCriar
<1>2. CASE \E r \in Ids : Acao(r)
  BY <1>2, CaixaAcao
<1>3. CASE Expirar
  <2>1. UNCHANGED <<conta, remarcadaDe>>
    BY <1>3 DEF Expirar, ExpirarLote
  <2>2. \A r \in Ids : \/ status'[r] = status[r]
                       \/ status[r] = "hold" /\ status'[r] = "expired"
    BY <1>3 DEF Expirar, ExpirarLote, Vencidas
  <2> QED
    BY <2>1, <2>2, CaixaSemDinheiro
<1>4. CASE Bloquear \/ Tique \/ UNCHANGED vars
  <2>1. UNCHANGED <<status, conta, remarcadaDe>>
    BY <1>4 DEF Bloquear, CriarBloqueio, LiberarBloqueio, Tique, vars
  <2> QED
    BY <2>1, CaixaSemDinheiro
<1> QED
  BY <1>1, <1>2, <1>3, <1>4 DEF Next

LEMMA CaixaInicial == Init => Caixa
<1> SUFFICES ASSUME Init PROVE Caixa
  OBVIOUS
<1>1. \A r \in Ids : /\ status[r] = "inexistente" /\ conta[r] = ContaVazia
                     /\ remarcadaDe[r] = Nenhuma
  BY DEF Init
<1>2. \A r \in Ids : ~Remarcada(r)
  BY <1>1, ConstantesA DEF Remarcada
<1>3. \A r \in Ids : ContaCoerente(r)
  BY <1>1, <1>2 DEF ContaCoerente, ContaVazia
<1>4. \A r \in Ids : Entrou(r) = 0 /\ Patrimonio(r) = 0
  BY <1>1, <1>2 DEF Entrou, Patrimonio, ContaVazia
<1>5. Entradas = Patrimonios
  BY <1>4 DEF Entradas, Patrimonios
<1> QED
  BY <1>3, <1>5 DEF Caixa

\* Through any chain of confirmations, rebookings, cancellations and no-shows, what
\* guests really paid is what is applied, credited, refunded and retained, and no
\* refund is negative or above what was paid (service_acoes.go, service_rebook.go).
THEOREM CaixaSempreConfere == Spec => []CaixaConfere
<1>1. Init => TypeOK /\ Caixa
  BY TipoInicial, CaixaInicial
<1>2. TypeOK /\ Caixa /\ [Next]_vars => (TypeOK /\ Caixa)'
  BY TipoProximo, CaixaProximo
<1>3. Caixa => CaixaConfere
  BY DEF Caixa, ContaCoerente, CaixaConfere, Entradas, Patrimonios
<1> QED
  BY <1>1, <1>2, <1>3, PTL DEF Spec
=============================================================================
