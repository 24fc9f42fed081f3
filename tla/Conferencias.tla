---------------------------- MODULE Conferencias ----------------------------
(***************************************************************************)
(* Counting the goods of one unit (modules/bens): the placements that say  *)
(* what each room should hold, the counts that freeze them, the people who *)
(* walk the house with a phone, and the damage reports a closed count      *)
(* opens.                                                                  *)
(*                                                                         *)
(* Every request is one READ COMMITTED transaction.  The ones that hold a  *)
(* lock across statements take two steps, the lock with what is read under *)
(* it and the commit; the ones that change one row take one.  A good here  *)
(* is a pair (room, item): a placement whose room or item is inactive is   *)
(* no placement, so switching one back on is placing it by hand.  Notes,   *)
(* the quantity of a damage report and its outcome are left out: nothing   *)
(* below reads them.                                                       *)
(***************************************************************************)
EXTENDS Integers, FiniteSets, Functions

CONSTANTS Bens,           \* pairs (room, item) of the unit
          Conferencias,   \* bound: rows of inventory_counts
          Avarias,        \* bound: rows of inventory_issues alive at once
          Pedidos,        \* bound: requests in course at the same time
          Quantidades,    \* what may be expected or counted
          Custos,         \* replacement costs; NULL (not quoted) may be one
          Nenhum          \* NULL

\* A damage report: the count and the good it is of, and whether a closing opened it.
Relatos == [conf : Conferencias \cup {Nenhum}, bem : Bens, nascida : BOOLEAN]

\* What the constants must satisfy.
ASSUME ConferenciasAssumption ==
    /\ Quantidades \subseteq Nat
    /\ Custos # {}
    /\ Nenhum \notin Bens \cup Conferencias \cup Avarias \cup Pedidos \cup Quantidades \cup Relatos
    /\ IsFiniteSet(Avarias)

VARIABLES
    colocacao,    \* room_inventory: the quantity expected, and how it came
    custo,        \* inventory_items.replacement_cost_cents
    conferencia,  \* inventory_counts with its inventory_count_lines
    avaria,       \* inventory_issues
    pedido        \* the transaction of each request

vars == <<colocacao, custo, conferencia, avaria, pedido>>

Vazio == [b \in {} |-> Nenhum]
Ausente == [estado |-> "ausente", linhas |-> Vazio, abriu |-> FALSE]
Livre == [op |-> "nenhuma", conf |-> Nenhum, bem |-> Nenhum, avaria |-> Nenhum,
          bens |-> {}, linhas |-> Vazio, abriu |-> FALSE]

Init ==
    /\ colocacao = [b \in Bens |-> Nenhum]
    /\ custo \in [Bens -> Custos]
    /\ conferencia = [c \in Conferencias |-> Ausente]
    /\ avaria = [a \in Avarias |-> Nenhum]
    /\ pedido = [p \in Pedidos |-> Livre]

----------------------------------------------------------------------------
(* Locks.                                                                  *)

Colocados == {b \in Bens : colocacao[b] # Nenhum}
EmLote == {"copiar", "importar"}
HaAberta == \E c \in Conferencias : conferencia[c].estado = "aberta"
Comecar(p, r) == pedido' = [pedido EXCEPT ![p] = r]
Terminar(p) == pedido' = [pedido EXCEPT ![p] = Livre]

\* Mutant: the advisory lock of the unit is not taken.
SemTravaDaUnidade(p) == TRUE

\* pg_advisory_xact_lock of the unit is free.
TravarInventarioDaUnidade(p) ==
    \A q \in Pedidos \ {p} : pedido[q].op \notin {"abrir"} \cup EmLote

\* Mutant: the phone reads the count without FOR SHARE, so it neither waits
\* for the one who closes nor makes him wait.
SoExclusivas(p, c, exclusiva) ==
    exclusiva => \A q \in Pedidos \ {p} :
                    pedido[q].conf = c => pedido[q].op \notin {"fechar", "apagar"}

\* The row of the count can be locked: FOR UPDATE (`exclusiva') waits for
\* everybody, FOR SHARE only for who closes it.
TravarConferencia(p, c, exclusiva) ==
    \A q \in Pedidos \ {p} :
        pedido[q].conf = c =>
            pedido[q].op \notin (IF exclusiva THEN {"fechar", "contar", "apagar"}
                                              ELSE {"fechar"})

\* The partial unique index waits for an insertion nobody committed yet.
IndiceDaAberta(p) == \A q \in Pedidos \ {p} : pedido[q].op # "abrir"

----------------------------------------------------------------------------
(* Placements, catalogue, and the two ways goods arrive in bulk.           *)

CriarColocacao(b, q) ==
    /\ colocacao[b] = Nenhum
    /\ colocacao' = [colocacao EXCEPT ![b] = [qtd |-> q, via |-> "mao"]]
    /\ UNCHANGED <<custo, conferencia, avaria, pedido>>

GravarColocacao(b, q) ==
    /\ colocacao[b] # Nenhum
    /\ colocacao' = [colocacao EXCEPT ![b].qtd = q]
    /\ UNCHANGED <<custo, conferencia, avaria, pedido>>

ApagarColocacao(b) ==
    /\ colocacao[b] # Nenhum
    /\ colocacao' = [colocacao EXCEPT ![b] = Nenhum]
    /\ UNCHANGED <<custo, conferencia, avaria, pedido>>

GravarBem(b, k) ==
    /\ custo' = [custo EXCEPT ![b] = k]
    /\ UNCHANGED <<colocacao, conferencia, avaria, pedido>>

\* What a bulk arrival of the goods `trazidos' means here: the unit's lock, no
\* open count, and a plan of what the unit does not have yet.
PlanejarCopia(p, op, trazidos) ==
    /\ pedido[p] = Livre
    /\ TravarInventarioDaUnidade(p)
    /\ ~HaAberta
    /\ trazidos \ Colocados # {}
    /\ Comecar(p, [Livre EXCEPT !.op = op, !.bens = trazidos \ Colocados])
    /\ UNCHANGED <<colocacao, custo, conferencia, avaria>>

\* From another unit: what is active there when the plan is read.
CopiarInventario(p, origem) == PlanejarCopia(p, "copiar", origem)

\* From a survey file: rooms and goods already known are kept as they are, so a
\* second run brings only what is missing.
Importar(p, levantamento) == PlanejarCopia(p, "importar", levantamento)

\* Its INSERTs, ON CONFLICT DO NOTHING: what someone placed meanwhile stays.
GravarCopia(p, qtd) ==
    /\ pedido[p].op \in EmLote
    /\ colocacao' = [b \in Bens |->
                        IF b \in pedido[p].bens \ Colocados
                        THEN [qtd |-> qtd, via |-> "copia"] ELSE colocacao[b]]
    /\ Terminar(p)
    /\ UNCHANGED <<custo, conferencia, avaria>>

----------------------------------------------------------------------------
(* Counts.                                                                 *)

CongelarLinhas ==
    [b \in Colocados |-> [esperada |-> colocacao[b].qtd, contada |-> Nenhum,
                          custo |-> Nenhum]]

\* Header and lines of a new count; the second opening loses in the partial
\* unique index, a unit with nothing placed has nothing to count.
AbrirConferencia(p, c) ==
    /\ pedido[p] = Livre
    /\ conferencia[c] = Ausente
    /\ TravarInventarioDaUnidade(p) /\ IndiceDaAberta(p)
    /\ ~HaAberta
    /\ Colocados # {}
    /\ Comecar(p, [Livre EXCEPT !.op = "abrir", !.conf = c, !.linhas = CongelarLinhas])
    /\ UNCHANGED <<colocacao, custo, conferencia, avaria>>

GravarAbertura(p) ==
    /\ pedido[p].op = "abrir"
    /\ conferencia' = [conferencia EXCEPT ![pedido[p].conf] =
                          [estado |-> "aberta", linhas |-> pedido[p].linhas, abriu |-> FALSE]]
    /\ Terminar(p)
    /\ UNCHANGED <<colocacao, custo, avaria>>

\* The gesture of the phone.  The line is locked and written with the commit.
ContarLinha(p, c, b) ==
    /\ pedido[p] = Livre
    /\ TravarConferencia(p, c, FALSE)
    /\ conferencia[c].estado = "aberta"
    /\ b \in DOMAIN conferencia[c].linhas
    /\ Comecar(p, [Livre EXCEPT !.op = "contar", !.conf = c, !.bem = b])
    /\ UNCHANGED <<colocacao, custo, conferencia, avaria>>

\* A number, or Nenhum to undo it.
GravarContagem(p, contada) ==
    /\ pedido[p].op = "contar"
    /\ conferencia' = [conferencia EXCEPT
                          ![pedido[p].conf].linhas[pedido[p].bem].contada = contada]
    /\ Terminar(p)
    /\ UNCHANGED <<colocacao, custo, avaria>>

PendenciasPorAmbiente(c) ==
    {b \in DOMAIN conferencia[c].linhas : conferencia[c].linhas[b].contada = Nenhum}

CongelarCustos(c) ==
    [b \in DOMAIN conferencia[c].linhas |->
        [conferencia[c].linhas[b] EXCEPT !.custo = custo[b]]]

\* Goods counted short: what opens a damage report.
Faltas(linhas) == {b \in DOMAIN linhas : linhas[b].contada < linhas[b].esperada}

\* Mutant: the status read before the lock decides, so that the second tab
\* closes what the first one closed.
AbertaAntesDaTrava(c) == conferencia[c].estado \in {"aberta", "fechada"}

\* What the row says once it is locked.
AindaAberta(c) == conferencia[c].estado = "aberta"

FecharConferencia(p, c, abrirAvarias) ==
    /\ pedido[p] = Livre
    /\ TravarConferencia(p, c, TRUE)
    /\ AindaAberta(c)
    /\ PendenciasPorAmbiente(c) = {}
    /\ Comecar(p, [Livre EXCEPT !.op = "fechar", !.conf = c, !.abriu = abrirAvarias,
                                !.linhas = CongelarCustos(c)])
    /\ UNCHANGED <<colocacao, custo, conferencia, avaria>>

\* The costs, a report for each shortage and the status, in one commit.  `novas'
\* gives each shortage the row of its report.
GravarFechamento(p, novas) ==
    LET c == pedido[p].conf
        faltas == IF pedido[p].abriu THEN Faltas(pedido[p].linhas) ELSE {}
    IN  /\ pedido[p].op = "fechar"
        /\ novas \in Injection(faltas, {a \in Avarias : avaria[a] = Nenhum})
        /\ conferencia' = [conferencia EXCEPT ![c] =
                              [estado |-> "fechada", linhas |-> pedido[p].linhas,
                               abriu |-> pedido[p].abriu]]
        /\ avaria' = [a \in Avarias |->
                         IF \E b \in faltas : novas[b] = a
                         THEN [conf |-> c, bem |-> CHOOSE b \in faltas : novas[b] = a,
                               nascida |-> TRUE]
                         ELSE avaria[a]]
        /\ Terminar(p)
        /\ UNCHANGED <<colocacao, custo>>

\* The lines stay in the table; nothing reads them any more.
CancelarConferencia(p, c) ==
    /\ pedido[p] = Livre
    /\ TravarConferencia(p, c, TRUE)
    /\ conferencia[c].estado = "aberta"
    /\ conferencia' = [conferencia EXCEPT ![c] = [Ausente EXCEPT !.estado = "cancelada"]]
    /\ UNCHANGED <<colocacao, custo, avaria, pedido>>

----------------------------------------------------------------------------
(* Damage reports made and erased by hand.                                 *)

\* The good is placed; the foreign key to the count it may cite waits for who
\* holds that row FOR UPDATE.
CriarAvaria(p, b, c) ==
    /\ pedido[p] = Livre
    /\ b \in Colocados
    /\ c # Nenhum => /\ conferencia[c].estado # "ausente"
                     /\ TravarConferencia(p, c, FALSE)
    /\ \E a \in Avarias :
          /\ avaria[a] = Nenhum
          /\ avaria' = [avaria EXCEPT ![a] = [conf |-> c, bem |-> b, nascida |-> FALSE]]
    /\ UNCHANGED <<colocacao, custo, conferencia, pedido>>

\* The report FOR UPDATE, then the count it cites FOR SHARE: a closed one keeps
\* its reports.
ApagarAvaria(p, a) ==
    LET c == avaria[a].conf
    IN  /\ pedido[p] = Livre
        /\ avaria[a] # Nenhum
        /\ \A q \in Pedidos \ {p} : pedido[q].avaria # a
        /\ c # Nenhum => /\ TravarConferencia(p, c, FALSE)
                         /\ conferencia[c].estado # "fechada"
        /\ Comecar(p, [Livre EXCEPT !.op = "apagar", !.avaria = a, !.conf = c])
        /\ UNCHANGED <<colocacao, custo, conferencia, avaria>>

GravarExclusao(p) ==
    /\ pedido[p].op = "apagar"
    /\ avaria' = [avaria EXCEPT ![pedido[p].avaria] = Nenhum]
    /\ Terminar(p)
    /\ UNCHANGED <<colocacao, custo, conferencia>>

\* A lock_timeout, a lost connection, an error of the database: nothing of the
\* transaction is left.
Cair(p) ==
    /\ pedido[p] # Livre
    /\ Terminar(p)
    /\ UNCHANGED <<colocacao, custo, conferencia, avaria>>

----------------------------------------------------------------------------
Catalogo ==
    \E b \in Bens :
        \/ \E q \in Quantidades : CriarColocacao(b, q) \/ GravarColocacao(b, q)
        \/ ApagarColocacao(b)
        \/ \E k \in Custos : GravarBem(b, k)

Copia(p) ==
    \/ \E origem \in SUBSET Bens : CopiarInventario(p, origem)
    \/ \E levantamento \in SUBSET Bens : Importar(p, levantamento)
    \/ \E q \in Quantidades : GravarCopia(p, q)

Contagem(p) ==
    \/ GravarAbertura(p)
    \/ \E q \in Quantidades \cup {Nenhum} : GravarContagem(p, q)
    \/ \E f \in UNION {[F -> Avarias] : F \in SUBSET Bens} : GravarFechamento(p, f)
    \/ \E c \in Conferencias :
          \/ AbrirConferencia(p, c)
          \/ \E b \in Bens : ContarLinha(p, c, b)
          \/ \E abrirAvarias \in BOOLEAN : FecharConferencia(p, c, abrirAvarias)
          \/ CancelarConferencia(p, c)

Relato(p) ==
    \/ \E b \in Bens, c \in Conferencias \cup {Nenhum} : CriarAvaria(p, b, c)
    \/ \E a \in Avarias : ApagarAvaria(p, a)
    \/ GravarExclusao(p)

Next == Catalogo \/ \E p \in Pedidos : Copia(p) \/ Contagem(p) \/ Relato(p) \/ Cair(p)

Spec == Init /\ [][Next]_vars

----------------------------------------------------------------------------
(* Correctness.                                                            *)

\* A closed count has, for every line counted short, exactly one report born
\* in the closing, and none for the others (or none at all when it was closed
\* without reports): two tabs that close it at once do not open them twice, and
\* nobody erases one (FecharConferencia, ApagarAvaria).
FaltaViraUmaAvaria ==
    \A c \in Conferencias : conferencia[c].estado = "fechada" =>
        \A b \in Bens :
            Cardinality({a \in Avarias : avaria[a] = [conf |-> c, bem |-> b, nascida |-> TRUE]})
              = IF conferencia[c].abriu /\ b \in Faltas(conferencia[c].linhas) THEN 1 ELSE 0

\* While a count is open, all that a copy or an import ever brought to the unit
\* is among its lines: the count cannot close complete without having looked at
\* it (TravarInventarioDaUnidade).
ContagemVeACopia ==
    \A c \in Conferencias : conferencia[c].estado = "aberta" =>
        \A b \in Colocados : colocacao[b].via = "copia" => b \in DOMAIN conferencia[c].linhas

\* What a closed count found never changes again: its lines, the costs frozen in
\* them and the reports that cite it.  A count of a line that was under way when
\* the closing began does not enter, a new price does not reach it.
FechadaFica ==
    \A c \in Conferencias : conferencia[c].estado = "fechada" =>
        /\ conferencia'[c] = conferencia[c]
        /\ \A a \in Avarias : avaria[a] # Nenhum /\ avaria[a].conf = c => avaria'[a] = avaria[a]

ApuracaoCongelada == [][FechadaFica]_vars
=============================================================================
