-------------------------- MODULE VendaConcorrente --------------------------
(***************************************************************************)
(* Sales against the people who edit the inventory, one SQL statement at a *)
(* time under READ COMMITTED.                                              *)
(*                                                                         *)
(* Four transactions compete: a sale (reservas: emitir, alocar), an        *)
(* operational block (CriarBloqueio), a replacement of a product's         *)
(* composition (PUT /unit-types/{id}/members) and a change of what a       *)
(* product consumes (PATCH /unit-types/{id}).  They meet in the row that   *)
(* numbers the year's reservations, in the exclusion constraint of         *)
(* stay_blocks, in the row locks of unit_types and unit_type_members, and  *)
(* in the deferred constraint triggers, which look at the database before  *)
(* the commit that publishes what they checked.                            *)
(*                                                                         *)
(* All the sales and blocks ask for the same nights, the case in which     *)
(* they compete, and every unit is active.                                 *)
(***************************************************************************)
EXTENDS Integers, FiniteSets

CONSTANTS
    Vendas,             \* sale transactions
    Bloqueios,          \* operational blocks: maintenance, use by the owner
    Trocas,             \* composition replacements
    Reclassificacoes,   \* changes of `consumes'
    Produtos,
    Unidades,
    ComposicaoInicial,  \* [Produtos -> SUBSET Unidades]
    ConsomeInicial,     \* [Produtos -> Consumos]
    Pedidas,            \* compositions a replacement may ask for
    MaxTentativas       \* TxManager's budget of attempts

Consumos == {"one_member", "all_members"}

\* The transactions that take units, and those about a product.
Ocupantes  == Vendas \cup Bloqueios
DeProduto  == Vendas \cup Trocas \cup Reclassificacoes
Transacoes == Bloqueios \cup DeProduto

ASSUME ConcorrenciaA ==
    /\ Vendas \cap Trocas = {} /\ Vendas \cap Reclassificacoes = {}
    /\ Trocas \cap Reclassificacoes = {} /\ Bloqueios \cap DeProduto = {}
    /\ Produtos # {}
    /\ ComposicaoInicial \in [Produtos -> SUBSET Unidades]
    /\ \A p \in Produtos : IsFiniteSet(ComposicaoInicial[p])
    /\ ConsomeInicial \in [Produtos -> Consumos]
    /\ Pedidas \subseteq (SUBSET Unidades) \ {{}}
    /\ MaxTentativas \in Nat \ {0}

VARIABLES
    membros,     \* unit_type_members, committed
    consome,     \* unit_types.consumes, committed
    passo,       \* where each transaction is
    produto,     \* the product each transaction is about
    lido,        \* the `consumes' it read, or, for a reclassification, writes
    lista,       \* the members a sale of one unit has read as candidates
    unidades,    \* the units a sale or a block has inserted in the calendar
    recusadas,   \* the candidates a sale has already been refused
    pedido,      \* the composition a replacement asks for
    antes,       \* the composition it found
    alvo,        \* the rows its DELETE has still to lock
    apagadas,    \* the rows its DELETE has removed
    tentativas   \* attempts TxManager has spent

cadastro == <<membros, consome>>
daVenda  == <<lista, unidades, recusadas>>
daTroca  == <<pedido, antes, alvo, apagadas>>
vars     == <<cadastro, passo, produto, lido, daVenda, daTroca, tentativas>>

Passos == {"inicio", "leu", "numerada", "inserida", "pronta", "disputando", "alocada",
           "composta", "guardada", "apagando", "apagada", "atualizada", "conferida",
           "viva", "feita", "encerrada", "recusada"}

Terminou(x) == passo[x] \in {"viva", "feita", "encerrada", "recusada"}

Ir(x, destino) == passo' = [passo EXCEPT ![x] = destino]

Init ==
    /\ membros    = ComposicaoInicial
    /\ consome    = ConsomeInicial
    /\ passo      = [x \in Transacoes |-> "inicio"]
    /\ produto    \in [DeProduto -> Produtos]
    /\ lido       = [x \in DeProduto |-> "one_member"]
    /\ lista      = [v \in Vendas |-> {}]
    /\ unidades   = [v \in Ocupantes |-> {}]
    /\ recusadas  = [v \in Vendas |-> {}]
    /\ pedido     \in [Trocas -> Pedidas]
    /\ antes      = [c \in Trocas |-> {}]
    /\ alvo       = [c \in Trocas |-> {}]
    /\ apagadas   = [c \in Trocas |-> {}]
    /\ tentativas = [x \in Transacoes |-> 1]

-----------------------------------------------------------------------------
(* What a transaction sees of the others, and what it waits for.           *)

\* The committed sales of product p that still stand.
VivasDo(p) == {v \in Vendas : passo[v] = "viva" /\ produto[v] = p}

\* The committed sales and blocks that already have one of the units.
Donos(us) == {v \in Ocupantes : passo[v] = "viva" /\ unidades[v] \cap us # {}}

\* Those in flight whose rows collide with v's: the exclusion constraint makes
\* the one that checks wait for the other transaction to end.
Rivais(v) ==
    {w \in Ocupantes \ {v} : /\ passo[w] \in {"disputando", "alocada", "conferida"}
                             /\ unidades[w] \cap unidades[v] # {}}

\* The steps at which a sale is a reservation already, not yet committed.
EmVenda == {"inserida", "pronta", "disputando", "alocada", "conferida"}

\* Mutant: numbers come from a sequence, which locks nothing.
Sequencia(v) == {}

\* proximo_codigo_reserva: the row of the year's counter stays locked until
\* the sale that took a number ends.
SeguraContador(v) == {w \in Vendas \ {v} : passo[w] \in {"numerada"} \cup EmVenda}

\* Foreign keys to unit_types: inserting a reservation or a member row takes
\* FOR KEY SHARE on the product until the transaction ends.
SeguraChave(p) ==
    {v \in Vendas : produto[v] = p /\ passo[v] \in EmVenda}
    \cup
    {c \in Trocas : produto[c] = p /\ passo[c] \in {"inserida", "conferida"}}

\* UPDATE unit_types takes FOR NO KEY UPDATE ...
SeguraProduto(p) ==
    {t \in Reclassificacoes : produto[t] = p /\ passo[t] \in {"atualizada", "conferida"}}

\* ... and its trigger FOR UPDATE, the one mode that conflicts with KEY SHARE.
SeguraExclusivo(p) ==
    {t \in Reclassificacoes :
        produto[t] = p /\ passo[t] = "conferida" /\ lido[t] # consome[p]}

\* Mutant: the trigger takes no lock of its own.
SemTrava(t) == {}

\* Whom the trigger of a reclassification waits for.
EsperaParaConferir(t) == SeguraChave(produto[t])

\* The replacements in flight of the same product.
OutrasTrocas(c) == {d \in Trocas \ {c} : produto[d] = produto[c]}

\* A DELETE waits for whoever has deleted, uncommitted, a row it saw.
EsperaParaApagar(c) ==
    {d \in OutrasTrocas(c) :
        passo[d] \in {"apagada", "inserida", "conferida"} /\ apagadas[d] \cap alvo[c] # {}}

\* The unique index waits for rows another transaction is inserting or deleting.
EsperaParaInserir(c) ==
    {d \in OutrasTrocas(c) :
        \/ passo[d] \in {"inserida", "conferida"} /\ pedido[d] \cap pedido[c] # {}
        \/ passo[d] \in {"apagada", "inserida", "conferida"} /\ apagadas[d] \cap pedido[c] # {}}
    \cup SeguraExclusivo(produto[c])

-----------------------------------------------------------------------------
(* A sale.                                                                 *)

\* Produto: the product, with what it consumes.
LerProduto(v) ==
    /\ passo[v] = "inicio"
    /\ lido' = [lido EXCEPT ![v] = consome[produto[v]]]
    /\ Ir(v, "leu")
    /\ UNCHANGED <<cadastro, produto, daVenda, daTroca, tentativas>>

\* InserirReserva, the default of `code': the number comes first ...
Numerar(v) ==
    /\ passo[v] = "leu"
    /\ SeguraContador(v) = {}
    /\ Ir(v, "numerada")
    /\ UNCHANGED <<cadastro, produto, lido, daVenda, daTroca, tentativas>>

\* ... and the foreign key to the product last.
InserirReserva(v) ==
    /\ passo[v] = "numerada"
    /\ SeguraExclusivo(produto[v]) = {}
    /\ Ir(v, "inserida")
    /\ UNCHANGED <<cadastro, produto, lido, daVenda, daTroca, tentativas>>

\* Candidatas: the members of the product, read once before the first try.
LerCandidatas(v) ==
    /\ passo[v] = "inserida"
    /\ lista' = [lista EXCEPT ![v] = IF lido[v] = "one_member" THEN membros[produto[v]] ELSE {}]
    /\ Ir(v, "pronta")
    /\ UNCHANGED <<cadastro, produto, lido, unidades, recusadas, daTroca, tentativas>>

\* What one INSERT of the sale may ask for: the composition as this statement
\* sees it, or one candidate not refused yet.
Candidatas(v) ==
    IF lido[v] = "all_members"
    THEN {us \in {membros[produto[v]]} : us # {} /\ recusadas[v] = {}}
    ELSE {{u} : u \in lista[v] \ recusadas[v]}

\* AlocarUmaUnidade, AlocarComposicaoCompleta: the rows are inserted and only
\* then compared with the ones already there.
InserirBlocos(v) ==
    /\ passo[v] = "pronta"
    /\ \E us \in Candidatas(v) : unidades' = [unidades EXCEPT ![v] = us]
    /\ Ir(v, "disputando")
    /\ UNCHANGED <<cadastro, produto, lido, lista, recusadas, daTroca, tentativas>>

SemCandidata(v) ==
    /\ passo[v] = "pronta"
    /\ Candidatas(v) = {}
    /\ Ir(v, "recusada")
    /\ UNCHANGED <<cadastro, produto, lido, daVenda, daTroca, tentativas>>

GanharUnidades(v) ==
    /\ passo[v] = "disputando"
    /\ Donos(unidades[v]) = {}
    /\ Rivais(v) = {}
    /\ Ir(v, "alocada")
    /\ UNCHANGED <<cadastro, produto, lido, daVenda, daTroca, tentativas>>

\* 23P01: a sale goes back to the savepoint and on to the next candidate, a
\* block, which is all or nothing, gives up.
PerderUnidades(v) ==
    /\ passo[v] = "disputando"
    /\ Donos(unidades[v]) # {}
    /\ unidades' = [unidades EXCEPT ![v] = {}]
    /\ IF v \in Vendas
       THEN /\ recusadas' = [recusadas EXCEPT ![v] = @ \cup unidades[v]]
            /\ Ir(v, "pronta")
       ELSE /\ UNCHANGED recusadas
            /\ Ir(v, "recusada")
    /\ UNCHANGED <<cadastro, produto, lido, lista, daTroca, tentativas>>

\* conferir_composicao_completa at the end of the sale, over what is committed.
ConferirVenda(v) ==
    /\ passo[v] = "alocada"
    /\ IF /\ consome[produto[v]] = "all_members"
          /\ Cardinality(unidades[v]) # Cardinality(membros[produto[v]])
       THEN Ir(v, "recusada")
       ELSE Ir(v, "conferida")
    /\ UNCHANGED <<cadastro, produto, lido, daVenda, daTroca, tentativas>>

ComitarVenda(v) ==
    /\ passo[v] = "conferida"
    /\ Ir(v, "viva")
    /\ UNCHANGED <<cadastro, produto, lido, daVenda, daTroca, tentativas>>

\* CriarBloqueioOperacional: no reservation, no number, only the rows.
InserirBloqueio(b) ==
    /\ passo[b] = "inicio"
    /\ \E us \in (SUBSET Unidades) \ {{}} : unidades' = [unidades EXCEPT ![b] = us]
    /\ Ir(b, "disputando")
    /\ UNCHANGED <<cadastro, produto, lido, lista, recusadas, daTroca, tentativas>>

ComitarBloqueio(b) ==
    /\ passo[b] = "alocada"
    /\ Ir(b, "viva")
    /\ UNCHANGED <<cadastro, produto, lido, daVenda, daTroca, tentativas>>

\* Cancellation, expiration, departure; or the block is released.
Encerrar(v) ==
    /\ passo[v] = "viva"
    /\ Ir(v, "encerrada")
    /\ UNCHANGED <<cadastro, produto, lido, daVenda, daTroca, tentativas>>

-----------------------------------------------------------------------------
(* PUT /unit-types/{id}/members                                            *)

\* The product is read before the transaction begins.
LerProdutoDaTroca(c) ==
    /\ passo[c] = "inicio"
    /\ lido' = [lido EXCEPT ![c] = consome[produto[c]]]
    /\ Ir(c, "leu")
    /\ UNCHANGED <<cadastro, produto, daVenda, daTroca, tentativas>>

LerComposicao(c) ==
    /\ passo[c] = "leu"
    /\ antes' = [antes EXCEPT ![c] = membros[produto[c]]]
    /\ Ir(c, "composta")
    /\ UNCHANGED <<cadastro, produto, lido, daVenda, pedido, alvo, apagadas, tentativas>>

\* Whether a replacement would change what a visible sale was promised.
FereVenda(c) ==
    LET vivas == VivasDo(produto[c])
    IN  /\ antes[c] # pedido[c]
        /\ IF lido[c] = "all_members"
           THEN vivas # {}
           ELSE \E v \in vivas : unidades[v] \cap (antes[c] \ pedido[c]) # {}

GuardarComposicao(c) ==
    /\ passo[c] = "composta"
    /\ IF FereVenda(c) THEN Ir(c, "recusada") ELSE Ir(c, "guardada")
    /\ UNCHANGED <<cadastro, produto, lido, daVenda, daTroca, tentativas>>

\* DELETE FROM unit_type_members: the rows to remove are those of the moment
\* the statement starts.
ComecarDelete(c) ==
    /\ passo[c] = "guardada"
    /\ alvo' = [alvo EXCEPT ![c] = membros[produto[c]]]
    /\ Ir(c, "apagando")
    /\ UNCHANGED <<cadastro, produto, lido, daVenda, pedido, antes, apagadas, tentativas>>

TerminarDelete(c) ==
    /\ passo[c] = "apagando"
    /\ EsperaParaApagar(c) = {}
    /\ apagadas' = [apagadas EXCEPT ![c] = alvo[c]]
    /\ Ir(c, "apagada")
    /\ UNCHANGED <<cadastro, produto, lido, daVenda, pedido, antes, alvo, tentativas>>

\* The rows a replacement sees at the end.
ComposicaoNova(c) == (membros[produto[c]] \ apagadas[c]) \cup pedido[c]

\* INSERT: a row somebody else has published meanwhile is a duplicate key.
InserirMembros(c) ==
    /\ passo[c] = "apagada"
    /\ EsperaParaInserir(c) = {}
    /\ IF pedido[c] \cap (membros[produto[c]] \ apagadas[c]) # {}
       THEN Ir(c, "recusada")
       ELSE Ir(c, "inserida")
    /\ UNCHANGED <<cadastro, produto, lido, daVenda, daTroca, tentativas>>

\* trg_composicao_do_produto: every visible sale of the product is recounted.
ConferirTroca(c) ==
    /\ passo[c] = "inserida"
    /\ IF /\ consome[produto[c]] = "all_members"
          /\ \E v \in VivasDo(produto[c]) :
                Cardinality(unidades[v]) # Cardinality(ComposicaoNova(c))
       THEN Ir(c, "recusada")
       ELSE Ir(c, "conferida")
    /\ UNCHANGED <<cadastro, produto, lido, daVenda, daTroca, tentativas>>

\* The rows this commit removes are gone for the DELETEs that were waiting.
ComitarTroca(c) ==
    /\ passo[c] = "conferida"
    /\ membros' = [membros EXCEPT ![produto[c]] = ComposicaoNova(c)]
    /\ alvo' = [d \in Trocas |->
                  IF d \in OutrasTrocas(c) THEN alvo[d] \ apagadas[c] ELSE alvo[d]]
    /\ Ir(c, "feita")
    /\ UNCHANGED <<consome, produto, lido, daVenda, pedido, antes, apagadas, tentativas>>

-----------------------------------------------------------------------------
(* PATCH /unit-types/{id} with another `consumes'                          *)

GuardarConsumo(t) ==
    /\ passo[t] = "inicio"
    /\ \E novo \in Consumos : lido' = [lido EXCEPT ![t] = novo]
    /\ IF lido'[t] # consome[produto[t]] /\ VivasDo(produto[t]) # {}
       THEN Ir(t, "recusada")
       ELSE Ir(t, "guardada")
    /\ UNCHANGED <<cadastro, produto, daVenda, daTroca, tentativas>>

AtualizarConsumo(t) ==
    /\ passo[t] = "guardada"
    /\ SeguraProduto(produto[t]) = {}
    /\ Ir(t, "atualizada")
    /\ UNCHANGED <<cadastro, produto, lido, daVenda, daTroca, tentativas>>

\* conferir_troca_de_consumes: take the product FOR UPDATE, then look for sales.
ConferirConsumo(t) ==
    /\ passo[t] = "atualizada"
    /\ IF lido[t] = consome[produto[t]]
       THEN Ir(t, "conferida")
       ELSE /\ EsperaParaConferir(t) = {}
            /\ IF VivasDo(produto[t]) # {} THEN Ir(t, "recusada") ELSE Ir(t, "conferida")
    /\ UNCHANGED <<cadastro, produto, lido, daVenda, daTroca, tentativas>>

ComitarConsumo(t) ==
    /\ passo[t] = "conferida"
    /\ consome' = [consome EXCEPT ![produto[t]] = lido[t]]
    /\ Ir(t, "feita")
    /\ UNCHANGED <<membros, produto, lido, daVenda, daTroca, tentativas>>

-----------------------------------------------------------------------------
(* lock_timeout and TxManager.                                             *)

\* The transactions x is waiting for.
EsperaPor(x) ==
    CASE x \in Vendas /\ passo[x] = "leu"                    -> SeguraContador(x)
      [] x \in Vendas /\ passo[x] = "numerada"               -> SeguraExclusivo(produto[x])
      [] x \in Ocupantes /\ passo[x] = "disputando"          -> Rivais(x)
      [] x \in Trocas /\ passo[x] = "apagando"               -> EsperaParaApagar(x)
      [] x \in Trocas /\ passo[x] = "apagada"                -> EsperaParaInserir(x)
      [] x \in Reclassificacoes /\ passo[x] = "guardada"     -> SeguraProduto(produto[x])
      [] x \in Reclassificacoes /\ passo[x] = "atualizada"   -> EsperaParaConferir(x)
      [] OTHER                                               -> {}

\* Mutant: a session without lock_timeout.
SemLimiteDeEspera(x) == FALSE

\* 55P03: a wait that lasts too long aborts the transaction.
PodeEstourar(x) == EsperaPor(x) # {}

\* Mutant: one attempt more than the budget.
TentativaAMais(x) == tentativas[x] <= MaxTentativas

TemOrcamento(x) == tentativas[x] < MaxTentativas

\* The composition's product was read outside the transaction and is kept.
Recomeco(x) == IF x \in Trocas THEN "leu" ELSE "inicio"

\* TxManager.Do: roll back and start over, until the budget is spent.
EstourarEspera(x) ==
    /\ PodeEstourar(x)
    /\ IF TemOrcamento(x)
       THEN /\ Ir(x, Recomeco(x))
            /\ tentativas' = [tentativas EXCEPT ![x] = @ + 1]
       ELSE /\ Ir(x, "recusada")
            /\ UNCHANGED tentativas
    /\ lista' = [v \in Vendas |-> IF v = x THEN {} ELSE lista[v]]
    /\ unidades' = [v \in Ocupantes |-> IF v = x THEN {} ELSE unidades[v]]
    /\ recusadas' = [v \in Vendas |-> IF v = x THEN {} ELSE recusadas[v]]
    /\ alvo' = [c \in Trocas |-> IF c = x THEN {} ELSE alvo[c]]
    /\ apagadas' = [c \in Trocas |-> IF c = x THEN {} ELSE apagadas[c]]
    /\ UNCHANGED <<cadastro, produto, lido, pedido, antes>>

-----------------------------------------------------------------------------
Venda(v) ==
    \/ LerProduto(v) \/ Numerar(v) \/ InserirReserva(v) \/ LerCandidatas(v)
    \/ InserirBlocos(v) \/ SemCandidata(v)
    \/ GanharUnidades(v) \/ PerderUnidades(v) \/ ConferirVenda(v) \/ ComitarVenda(v)

Bloqueio(b) ==
    InserirBloqueio(b) \/ GanharUnidades(b) \/ PerderUnidades(b) \/ ComitarBloqueio(b)

Troca(c) ==
    \/ LerProdutoDaTroca(c) \/ LerComposicao(c) \/ GuardarComposicao(c)
    \/ ComecarDelete(c) \/ TerminarDelete(c) \/ InserirMembros(c)
    \/ ConferirTroca(c) \/ ComitarTroca(c)

Reclassificacao(t) ==
    \/ GuardarConsumo(t) \/ AtualizarConsumo(t) \/ ConferirConsumo(t) \/ ComitarConsumo(t)

Andar(x) ==
    \/ x \in Vendas /\ Venda(x)
    \/ x \in Bloqueios /\ Bloqueio(x)
    \/ x \in Trocas /\ Troca(x)
    \/ x \in Reclassificacoes /\ Reclassificacao(x)
    \/ EstourarEspera(x)

Next ==
    \/ \E x \in Transacoes : Andar(x)
    \/ \E v \in Ocupantes : Encerrar(v)

\* The server runs every statement it is given, and lock_timeout fires.
Spec == Init /\ [][Next]_vars /\ \A x \in Transacoes : WF_vars(Andar(x))

-----------------------------------------------------------------------------
(* Properties.                                                             *)

TypeOK ==
    /\ membros \in [Produtos -> SUBSET Unidades]
    /\ consome \in [Produtos -> Consumos]
    /\ passo \in [Transacoes -> Passos]
    /\ produto \in [DeProduto -> Produtos]
    /\ lido \in [DeProduto -> Consumos]
    /\ lista \in [Vendas -> SUBSET Unidades]
    /\ unidades \in [Ocupantes -> SUBSET Unidades]
    /\ recusadas \in [Vendas -> SUBSET Unidades]
    /\ pedido \in [Trocas -> Pedidas]
    /\ antes \in [Trocas -> SUBSET Unidades]
    /\ alvo \in [Trocas -> SUBSET Unidades]
    /\ apagadas \in [Trocas -> SUBSET Unidades]
    /\ tentativas \in [Transacoes -> 1..MaxTentativas]

\* A sale and a block that stand, or two of either, never share a unit, although
\* each transaction inserts while the other's rows are still uncommitted.
UnidadeDeUmSo ==
    \A v, w \in Ocupantes :
        (passo[v] = "viva" /\ passo[w] = "viva" /\ v # w)
            => unidades[v] \cap unidades[w] = {}

VivasDaCasa == {v \in Vendas : passo[v] = "viva" /\ consome[produto[v]] = "all_members"}

\* The whole house is the whole house: a standing sale of an all_members
\* product has exactly the units the product declares, whoever reclassified the
\* product while the sale was in flight.  A replacement of the composition may
\* still change them under a sale that stands: the guard compares sizes.
CasaDeclarada ==
    \A v \in VivasDaCasa :
        \/ unidades[v] = membros[produto[v]]
        \/ \E c \in Trocas : passo[c] = "feita" /\ produto[c] = produto[v]

\* What a standing sale says it sold is its own: whole when it is the house, and shared
\* with no other sale or block (reservas/repository_blocos.go, casa_inteira migration).
VendaInteiraESo == CasaDeclarada /\ UnidadeDeUmSo

\* Two sales never wait for each other, nor for each other's units: whoever has
\* rows in the calendar has the year's counter, taken before any of them.
VendasNaoSeTravam ==
    \A v, w \in Vendas :
        w \in EsperaPor(v) => /\ v \notin EsperaPor(w)
                             /\ unidades[v] = {}

\* Every transaction ends, and no crossed wait lasts for ever: a sale and a block
\* that have inserted colliding rows wait for each other until lock_timeout.
TodasTerminam == \A x \in Transacoes : <>Terminou(x)

-----------------------------------------------------------------------------
(* What comments of the migrations and of the inventory service say, and   *)
(* the locks do not give.                                                  *)

\* The count of a house's units matches its composition at every commit.
ContagemDaCasa ==
    \A v \in VivasDaCasa : Cardinality(unidades[v]) = Cardinality(membros[produto[v]])

\* A standing sale of a one_member product has one unit.
UmaUnidadePorVenda ==
    \A v \in Vendas :
        (passo[v] = "viva" /\ consome[produto[v]] = "one_member")
            => Cardinality(unidades[v]) = 1

\* Replacements of one composition are serialized: what is published is what
\* one of them asked for.
ComposicaoPedida ==
    \A p \in Produtos :
        \/ membros[p] = ComposicaoInicial[p]
        \/ \E c \in Trocas : passo[c] = "feita" /\ produto[c] = p /\ membros[p] = pedido[c]
=============================================================================
