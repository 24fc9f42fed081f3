----------------------- MODULE VendaConcorrenteProofs -----------------------
(***************************************************************************)
(* Proofs about VendaConcorrente: a standing sale sold what it says, whole *)
(* when it is the house and shared with nobody, and two sales never wait   *)
(* for each other.                                                         *)
(*                                                                         *)
(* The first needs to know what protects a sale between the moment it read *)
(* what its product consumes and the moment it commits.  From the          *)
(* insertion of the reservation on, its FOR KEY SHARE on the product keeps *)
(* reclassifications out (ConsumoEspera); before it, nothing does, and it  *)
(* is the deferred count that refuses a sale of one unit of what has       *)
(* become a house, unless the house is that very unit (Escolha).           *)
(***************************************************************************)
EXTENDS VendaConcorrente, FiniteSetTheorems, TLAPS

\* A sale that has taken its number holds the counter until it ends.
ComNumero == {"numerada"} \cup EmVenda

ContadorDeUma ==
    \A v, w \in Vendas : passo[v] \in ComNumero /\ passo[w] \in ComNumero => v = w

\* Rows of the calendar are inserted after the number is taken.
SemLinhas ==
    \A v \in Ocupantes :
        passo[v] \in {"inicio", "leu", "numerada", "inserida", "pronta"} => unidades[v] = {}

\* Whoever has passed the exclusion constraint shares nothing with the others that have.
Separadas ==
    \A v, w \in Ocupantes :
        passo[v] \in {"alocada", "conferida", "viva"} /\ passo[w] \in {"alocada", "conferida", "viva"}
            => v = w \/ unidades[v] \cap unidades[w] = {}

\* A composition changes only when a replacement of it commits.
Trocada(p) == \E c \in Trocas : passo[c] = "feita" /\ produto[c] = p
ComposicaoFica == \A p \in Produtos : Trocada(p) \/ membros[p] = ComposicaoInicial[p]

\* One reclassification of a product at a time has written the row of the product.
UmaReclassifica ==
    \A t, r \in Reclassificacoes :
        (/\ produto[t] = produto[r]
         /\ passo[t] \in {"atualizada", "conferida"}
         /\ passo[r] \in {"atualizada", "conferida"})
            => t = r

\* What a product consumes changes while nobody is selling it and no sale of it stands.
ConsumoEspera ==
    \A t \in Reclassificacoes, v \in Vendas :
        (/\ passo[t] = "conferida" /\ lido[t] # consome[produto[t]]
         /\ produto[v] = produto[t])
            => passo[v] \notin EmVenda \cup {"viva"}

\* What a sale is about to take, or has taken and not yet counted: the composition, or
\* one of its members.
Escolha ==
    \A v \in Vendas :
        LET c == ComposicaoInicial[produto[v]] IN
        \/ Trocada(produto[v])
        \/ /\ passo[v] \in {"pronta", "disputando"} /\ lido[v] = "one_member" => lista[v] \subseteq c
           /\ passo[v] \in {"disputando", "alocada"} /\ lido[v] = "one_member" =>
                  \E u \in c : unidades[v] = {u}
           /\ passo[v] \in {"disputando", "alocada"} /\ lido[v] = "all_members" => unidades[v] = c

\* What a sale of a house has, from its count on.
Contada ==
    \A v \in Vendas :
        passo[v] \in {"conferida", "viva"} /\ consome[produto[v]] = "all_members" =>
            Trocada(produto[v]) \/ unidades[v] = ComposicaoInicial[produto[v]]

\* The rows a replacement in course has deleted, or is waiting to delete.
Apagando == {"apagando", "apagada", "inserida", "conferida"}
Alvo(c) == IF passo[c] = "apagando" THEN alvo[c] ELSE apagadas[c]

\* They are rows of the composition; of two replacements of a product, the later to
\* begin saw all that the earlier still means to delete, and no row is deleted twice.
AlvosNoCadastro ==
    \A c \in Trocas : passo[c] \in Apagando => Alvo(c) \subseteq membros[produto[c]]

AlvosEmCadeia ==
    \A c, d \in Trocas :
        passo[c] \in Apagando /\ passo[d] \in Apagando /\ produto[c] = produto[d] =>
            /\ Alvo(c) \subseteq Alvo(d) \/ Alvo(d) \subseteq Alvo(c)
            /\ c # d /\ passo[c] # "apagando" /\ passo[d] # "apagando" =>
                  apagadas[c] \cap apagadas[d] = {}

\* The inductive invariant.
IInv ==
    /\ TypeOK
    /\ ContadorDeUma /\ SemLinhas /\ Separadas
    /\ ComposicaoFica /\ UmaReclassifica /\ ConsumoEspera
    /\ Escolha /\ Contada
    /\ AlvosNoCadastro /\ AlvosEmCadeia

\* How far each transaction is in the order of what it may wait for.
Degrau(x) ==
    CASE passo[x] \in {"leu", "guardada", "apagando"}      -> 1
      [] passo[x] \in {"numerada", "atualizada"}           -> 2
      [] passo[x] = "apagada" /\ apagadas[x] = {}          -> 2
      [] passo[x] = "disputando"                           -> 3
      [] passo[x] = "apagada" /\ apagadas[x] # {}          -> 3
      [] OTHER                                             -> 4

\* Every wait between transactions that are not operational blocks goes up, so any ring
\* of waits, of whatever length, passes through a block: a sale numbers before it
\* inserts (reservas/repository.go InserirReserva), and of the replacements of one
\* composition one at a time has deleted rows (inventario/repository.go DefinirMembros).
EsperaSobe ==
    \A x, w \in DeProduto : w \in EsperaPor(x) => Degrau(w) > Degrau(x)

-----------------------------------------------------------------------------
(* What the operators of the model give.                                   *)

\* Only who is in the middle of its transaction waits, and so may run out of time.
LEMMA QuemEspera ==
    ASSUME NEW x \in Transacoes, EsperaPor(x) # {}
    PROVE  passo[x] \in {"leu", "numerada", "disputando", "apagando", "apagada",
                         "guardada", "atualizada"}
BY DEF EsperaPor

\* An INSERT of a sale is for units of the house.
LEMMA CandidatasSaoUnidades ==
    ASSUME TypeOK, NEW v \in Vendas, NEW us \in Candidatas(v)
    PROVE  us \in SUBSET Unidades
<1>1. membros[produto[v]] \in SUBSET Unidades /\ lista[v] \in SUBSET Unidades
    BY DEF TypeOK, DeProduto
<1> QED
    BY <1>1 DEF Candidatas

\* A set as large as a singleton that holds its member is that singleton.
LEMMA UnicoMembro ==
    ASSUME NEW S, IsFiniteSet(S), NEW u \in S, Cardinality({u}) = Cardinality(S)
    PROVE  S = {u}
<1>1. Cardinality({u}) = 1
    BY FS_Singleton
<1>2. PICK m : S = {m}
    BY <1>1, FS_Singleton
<1> QED
    BY <1>2

-----------------------------------------------------------------------------
(* Each part of the invariant is kept by every step.                       *)


LEMMA FicaTypeOK == ASSUME IInv, [Next]_vars PROVE TypeOK'
<1> USE ConcorrenciaA DEF IInv, TypeOK, vars, cadastro, daVenda, daTroca, Transacoes, DeProduto, Ocupantes, Ir
<1>1. ASSUME NEW v \in Vendas, InserirBlocos(v) PROVE TypeOK'
    <2>1. PICK us \in Candidatas(v) : unidades' = [unidades EXCEPT ![v] = us]
        BY <1>1 DEF InserirBlocos
    <2>2. us \in SUBSET Unidades
        BY CandidatasSaoUnidades
    <2> QED
        BY <1>1, <2>1, <2>2 DEF InserirBlocos, Passos, Consumos
<1>2. ASSUME NEW v \in Vendas,
            LerProduto(v) \/ Numerar(v) \/ InserirReserva(v) \/ LerCandidatas(v) \/ SemCandidata(v) \/ ConferirVenda(v) \/ ComitarVenda(v)
     PROVE  TypeOK'
    BY <1>2 DEF LerProduto, Numerar, InserirReserva, LerCandidatas, SemCandidata, ConferirVenda, ComitarVenda, TypeOK, Passos, Consumos, Recomeco, TemOrcamento
<1>3. ASSUME NEW o \in Ocupantes, PerderUnidades(o) PROVE TypeOK'
    BY <1>3 DEF PerderUnidades, TypeOK, Passos, Consumos, Recomeco, TemOrcamento
<1>4. ASSUME NEW o \in Ocupantes,
            GanharUnidades(o) \/ Encerrar(o)
     PROVE  TypeOK'
    BY <1>4 DEF GanharUnidades, Encerrar, TypeOK, Passos, Consumos, Recomeco, TemOrcamento
<1>5. ASSUME NEW b \in Bloqueios,
            InserirBloqueio(b) \/ ComitarBloqueio(b)
     PROVE  TypeOK'
    BY <1>5 DEF InserirBloqueio, ComitarBloqueio, TypeOK, Passos, Consumos, Recomeco, TemOrcamento
<1>6. ASSUME NEW c \in Trocas, ComitarTroca(c) PROVE TypeOK'
    <2>1. ComposicaoNova(c) \in SUBSET Unidades
        BY DEF ComposicaoNova
    <2>2. alvo' \in [Trocas -> SUBSET Unidades]
        BY <1>6 DEF ComitarTroca
    <2> QED
        BY <1>6, <2>1, <2>2 DEF ComitarTroca, Passos, Consumos
<1>7. ASSUME NEW c \in Trocas,
            LerProdutoDaTroca(c) \/ LerComposicao(c) \/ GuardarComposicao(c) \/ ComecarDelete(c) \/ TerminarDelete(c) \/ InserirMembros(c) \/ ConferirTroca(c)
     PROVE  TypeOK'
    BY <1>7 DEF LerProdutoDaTroca, LerComposicao, GuardarComposicao, ComecarDelete, TerminarDelete, InserirMembros, ConferirTroca, TypeOK, Passos, Consumos, Recomeco, TemOrcamento
<1>8. ASSUME NEW t \in Reclassificacoes, GuardarConsumo(t) PROVE TypeOK'
    BY <1>8 DEF GuardarConsumo, TypeOK, Passos, Consumos, Recomeco, TemOrcamento
<1>9. ASSUME NEW t \in Reclassificacoes,
            AtualizarConsumo(t) \/ ConferirConsumo(t) \/ ComitarConsumo(t)
     PROVE  TypeOK'
    BY <1>9 DEF AtualizarConsumo, ConferirConsumo, ComitarConsumo, TypeOK, Passos, Consumos, Recomeco, TemOrcamento
<1>10. ASSUME NEW x \in Transacoes, EstourarEspera(x) PROVE TypeOK'
    BY <1>10 DEF EstourarEspera, TypeOK, Passos, Consumos, Recomeco, TemOrcamento
<1>11. CASE UNCHANGED vars
    BY <1>11 DEF TypeOK, Passos, Consumos, Recomeco, TemOrcamento
<1> QED
    BY <1>1, <1>2, <1>3, <1>4, <1>5, <1>6, <1>7, <1>8, <1>9, <1>10, <1>11 DEF Next, Andar, Venda, Bloqueio, Troca, Reclassificacao

LEMMA FicaContadorDeUma == ASSUME IInv, [Next]_vars PROVE ContadorDeUma'
<1> USE ConcorrenciaA DEF IInv, TypeOK, vars, cadastro, daVenda, daTroca, Transacoes, DeProduto, Ocupantes, Ir
<1>1. ASSUME NEW v \in Vendas, Numerar(v) PROVE ContadorDeUma'
    BY <1>1 DEF Numerar, ContadorDeUma, ComNumero, EmVenda, SeguraContador, Recomeco, EsperaPor
<1>2. ASSUME NEW v \in Vendas, InserirReserva(v) PROVE ContadorDeUma'
    BY <1>2 DEF InserirReserva, ContadorDeUma, ComNumero, EmVenda, SeguraContador, Recomeco, EsperaPor
<1>3. ASSUME NEW v \in Vendas,
            LerProduto(v) \/ LerCandidatas(v) \/ InserirBlocos(v) \/ SemCandidata(v) \/ ConferirVenda(v) \/ ComitarVenda(v)
     PROVE  ContadorDeUma'
    BY <1>3 DEF LerProduto, LerCandidatas, InserirBlocos, SemCandidata, ConferirVenda, ComitarVenda, ContadorDeUma, ComNumero, EmVenda, SeguraContador, Recomeco, EsperaPor
<1>4. ASSUME NEW o \in Ocupantes,
            GanharUnidades(o) \/ PerderUnidades(o) \/ Encerrar(o)
     PROVE  ContadorDeUma'
    BY <1>4 DEF GanharUnidades, PerderUnidades, Encerrar, ContadorDeUma, ComNumero, EmVenda, SeguraContador, Recomeco, EsperaPor
<1>5. ASSUME NEW b \in Bloqueios,
            InserirBloqueio(b) \/ ComitarBloqueio(b)
     PROVE  ContadorDeUma'
    BY <1>5 DEF InserirBloqueio, ComitarBloqueio, ContadorDeUma, ComNumero, EmVenda, SeguraContador, Recomeco, EsperaPor
<1>6. ASSUME NEW c \in Trocas,
            LerProdutoDaTroca(c) \/ LerComposicao(c) \/ GuardarComposicao(c) \/ ComecarDelete(c) \/ TerminarDelete(c) \/ InserirMembros(c) \/ ConferirTroca(c) \/ ComitarTroca(c)
     PROVE  ContadorDeUma'
    BY <1>6 DEF LerProdutoDaTroca, LerComposicao, GuardarComposicao, ComecarDelete, TerminarDelete, InserirMembros, ConferirTroca, ComitarTroca, ContadorDeUma, ComNumero, EmVenda, SeguraContador, Recomeco, EsperaPor
<1>7. ASSUME NEW t \in Reclassificacoes,
            GuardarConsumo(t) \/ AtualizarConsumo(t) \/ ConferirConsumo(t) \/ ComitarConsumo(t)
     PROVE  ContadorDeUma'
    BY <1>7 DEF GuardarConsumo, AtualizarConsumo, ConferirConsumo, ComitarConsumo, ContadorDeUma, ComNumero, EmVenda, SeguraContador, Recomeco, EsperaPor
<1>8. ASSUME NEW x \in Transacoes, EstourarEspera(x) PROVE ContadorDeUma'
    BY <1>8 DEF EstourarEspera, ContadorDeUma, ComNumero, EmVenda, SeguraContador, Recomeco, EsperaPor
<1>9. CASE UNCHANGED vars
    BY <1>9 DEF ContadorDeUma, ComNumero, EmVenda, SeguraContador, Recomeco, EsperaPor
<1> QED
    BY <1>1, <1>2, <1>3, <1>4, <1>5, <1>6, <1>7, <1>8, <1>9 DEF Next, Andar, Venda, Bloqueio, Troca, Reclassificacao

LEMMA FicaSemLinhas == ASSUME IInv, [Next]_vars PROVE SemLinhas'
<1> USE ConcorrenciaA DEF IInv, TypeOK, vars, cadastro, daVenda, daTroca, Transacoes, DeProduto, Ocupantes, Ir
<1>1. ASSUME NEW v \in Vendas, InserirBlocos(v) PROVE SemLinhas'
    BY <1>1 DEF InserirBlocos, SemLinhas, Recomeco
<1>2. ASSUME NEW v \in Vendas,
            LerProduto(v) \/ Numerar(v) \/ InserirReserva(v) \/ LerCandidatas(v) \/ SemCandidata(v) \/ ConferirVenda(v) \/ ComitarVenda(v)
     PROVE  SemLinhas'
    BY <1>2 DEF LerProduto, Numerar, InserirReserva, LerCandidatas, SemCandidata, ConferirVenda, ComitarVenda, SemLinhas, Recomeco
<1>3. ASSUME NEW o \in Ocupantes, PerderUnidades(o) PROVE SemLinhas'
    BY <1>3 DEF PerderUnidades, SemLinhas, Recomeco
<1>4. ASSUME NEW o \in Ocupantes,
            GanharUnidades(o) \/ Encerrar(o)
     PROVE  SemLinhas'
    BY <1>4 DEF GanharUnidades, Encerrar, SemLinhas, Recomeco
<1>5. ASSUME NEW b \in Bloqueios, InserirBloqueio(b) PROVE SemLinhas'
    BY <1>5 DEF InserirBloqueio, SemLinhas, Recomeco
<1>6. ASSUME NEW b \in Bloqueios,
            ComitarBloqueio(b)
     PROVE  SemLinhas'
    BY <1>6 DEF ComitarBloqueio, SemLinhas, Recomeco
<1>7. ASSUME NEW c \in Trocas,
            LerProdutoDaTroca(c) \/ LerComposicao(c) \/ GuardarComposicao(c) \/ ComecarDelete(c) \/ TerminarDelete(c) \/ InserirMembros(c) \/ ConferirTroca(c) \/ ComitarTroca(c)
     PROVE  SemLinhas'
    BY <1>7 DEF LerProdutoDaTroca, LerComposicao, GuardarComposicao, ComecarDelete, TerminarDelete, InserirMembros, ConferirTroca, ComitarTroca, SemLinhas, Recomeco
<1>8. ASSUME NEW t \in Reclassificacoes,
            GuardarConsumo(t) \/ AtualizarConsumo(t) \/ ConferirConsumo(t) \/ ComitarConsumo(t)
     PROVE  SemLinhas'
    BY <1>8 DEF GuardarConsumo, AtualizarConsumo, ConferirConsumo, ComitarConsumo, SemLinhas, Recomeco
<1>9. ASSUME NEW x \in Transacoes, EstourarEspera(x) PROVE SemLinhas'
    BY <1>9 DEF EstourarEspera, SemLinhas, Recomeco
<1>10. CASE UNCHANGED vars
    BY <1>10 DEF SemLinhas, Recomeco
<1> QED
    BY <1>1, <1>2, <1>3, <1>4, <1>5, <1>6, <1>7, <1>8, <1>9, <1>10 DEF Next, Andar, Venda, Bloqueio, Troca, Reclassificacao

LEMMA FicaSeparadas == ASSUME IInv, [Next]_vars PROVE Separadas'
<1> USE ConcorrenciaA DEF IInv, TypeOK, vars, cadastro, daVenda, daTroca, Transacoes, DeProduto, Ocupantes, Ir
<1>1. ASSUME NEW v \in Vendas, InserirBlocos(v) PROVE Separadas'
    BY <1>1 DEF InserirBlocos, Separadas, Donos, Rivais, Recomeco
<1>2. ASSUME NEW v \in Vendas,
            LerProduto(v) \/ Numerar(v) \/ InserirReserva(v) \/ LerCandidatas(v) \/ SemCandidata(v) \/ ConferirVenda(v) \/ ComitarVenda(v)
     PROVE  Separadas'
    BY <1>2 DEF LerProduto, Numerar, InserirReserva, LerCandidatas, SemCandidata, ConferirVenda, ComitarVenda, Separadas, Donos, Rivais, Recomeco
<1>3. ASSUME NEW o \in Ocupantes, GanharUnidades(o) PROVE Separadas'
    BY <1>3 DEF GanharUnidades, Separadas, Donos, Rivais, Recomeco
<1>4. ASSUME NEW o \in Ocupantes, PerderUnidades(o) PROVE Separadas'
    BY <1>4 DEF PerderUnidades, Separadas, Donos, Rivais, Recomeco
<1>5. ASSUME NEW o \in Ocupantes,
            Encerrar(o)
     PROVE  Separadas'
    BY <1>5 DEF Encerrar, Separadas, Donos, Rivais, Recomeco
<1>6. ASSUME NEW b \in Bloqueios, InserirBloqueio(b) PROVE Separadas'
    BY <1>6 DEF InserirBloqueio, Separadas, Donos, Rivais, Recomeco
<1>7. ASSUME NEW b \in Bloqueios,
            ComitarBloqueio(b)
     PROVE  Separadas'
    BY <1>7 DEF ComitarBloqueio, Separadas, Donos, Rivais, Recomeco
<1>8. ASSUME NEW c \in Trocas,
            LerProdutoDaTroca(c) \/ LerComposicao(c) \/ GuardarComposicao(c) \/ ComecarDelete(c) \/ TerminarDelete(c) \/ InserirMembros(c) \/ ConferirTroca(c) \/ ComitarTroca(c)
     PROVE  Separadas'
    BY <1>8 DEF LerProdutoDaTroca, LerComposicao, GuardarComposicao, ComecarDelete, TerminarDelete, InserirMembros, ConferirTroca, ComitarTroca, Separadas, Donos, Rivais, Recomeco
<1>9. ASSUME NEW t \in Reclassificacoes,
            GuardarConsumo(t) \/ AtualizarConsumo(t) \/ ConferirConsumo(t) \/ ComitarConsumo(t)
     PROVE  Separadas'
    BY <1>9 DEF GuardarConsumo, AtualizarConsumo, ConferirConsumo, ComitarConsumo, Separadas, Donos, Rivais, Recomeco
<1>10. ASSUME NEW x \in Transacoes, EstourarEspera(x) PROVE Separadas'
    BY <1>10 DEF EstourarEspera, Separadas, Donos, Rivais, Recomeco
<1>11. CASE UNCHANGED vars
    BY <1>11 DEF Separadas, Donos, Rivais, Recomeco
<1> QED
    BY <1>1, <1>2, <1>3, <1>4, <1>5, <1>6, <1>7, <1>8, <1>9, <1>10, <1>11 DEF Next, Andar, Venda, Bloqueio, Troca, Reclassificacao

LEMMA FicaComposicaoFica == ASSUME IInv, [Next]_vars PROVE ComposicaoFica'
<1> USE ConcorrenciaA DEF IInv, TypeOK, vars, cadastro, daVenda, daTroca, Transacoes, DeProduto, Ocupantes, Ir
<1>1. ASSUME NEW v \in Vendas,
            LerProduto(v) \/ Numerar(v) \/ InserirReserva(v) \/ LerCandidatas(v) \/ InserirBlocos(v) \/ SemCandidata(v) \/ ConferirVenda(v) \/ ComitarVenda(v)
     PROVE  ComposicaoFica'
    BY <1>1 DEF LerProduto, Numerar, InserirReserva, LerCandidatas, InserirBlocos, SemCandidata, ConferirVenda, ComitarVenda, ComposicaoFica, Trocada, Recomeco
<1>2. ASSUME NEW o \in Ocupantes,
            GanharUnidades(o) \/ PerderUnidades(o) \/ Encerrar(o)
     PROVE  ComposicaoFica'
    BY <1>2 DEF GanharUnidades, PerderUnidades, Encerrar, ComposicaoFica, Trocada, Recomeco
<1>3. ASSUME NEW b \in Bloqueios,
            InserirBloqueio(b) \/ ComitarBloqueio(b)
     PROVE  ComposicaoFica'
    BY <1>3 DEF InserirBloqueio, ComitarBloqueio, ComposicaoFica, Trocada, Recomeco
<1>4. ASSUME NEW c \in Trocas, ComitarTroca(c) PROVE ComposicaoFica'
    BY <1>4 DEF ComitarTroca, ComposicaoFica, Trocada, Recomeco
<1>5. ASSUME NEW c \in Trocas,
            LerProdutoDaTroca(c) \/ LerComposicao(c) \/ GuardarComposicao(c) \/ ComecarDelete(c) \/ TerminarDelete(c) \/ InserirMembros(c) \/ ConferirTroca(c)
     PROVE  ComposicaoFica'
    BY <1>5 DEF LerProdutoDaTroca, LerComposicao, GuardarComposicao, ComecarDelete, TerminarDelete, InserirMembros, ConferirTroca, ComposicaoFica, Trocada, Recomeco
<1>6. ASSUME NEW t \in Reclassificacoes,
            GuardarConsumo(t) \/ AtualizarConsumo(t) \/ ConferirConsumo(t) \/ ComitarConsumo(t)
     PROVE  ComposicaoFica'
    BY <1>6 DEF GuardarConsumo, AtualizarConsumo, ConferirConsumo, ComitarConsumo, ComposicaoFica, Trocada, Recomeco
<1>7. ASSUME NEW x \in Transacoes, EstourarEspera(x) PROVE ComposicaoFica'
    <2>1. passo[x] # "feita"
        BY <1>7, QuemEspera DEF EstourarEspera, PodeEstourar
    <2>2. \A p : Trocada(p) => Trocada(p)'
        BY <1>7, <2>1 DEF EstourarEspera, Trocada
    <2> QED
        BY <1>7, <2>2 DEF EstourarEspera, Recomeco, ComposicaoFica
<1>8. CASE UNCHANGED vars
    BY <1>8 DEF ComposicaoFica, Trocada, Recomeco
<1> QED
    BY <1>1, <1>2, <1>3, <1>4, <1>5, <1>6, <1>7, <1>8 DEF Next, Andar, Venda, Bloqueio, Troca, Reclassificacao

LEMMA FicaUmaReclassifica == ASSUME IInv, [Next]_vars PROVE UmaReclassifica'
<1> USE ConcorrenciaA DEF IInv, TypeOK, vars, cadastro, daVenda, daTroca, Transacoes, DeProduto, Ocupantes, Ir
<1>1. ASSUME NEW v \in Vendas,
            LerProduto(v) \/ Numerar(v) \/ InserirReserva(v) \/ LerCandidatas(v) \/ InserirBlocos(v) \/ SemCandidata(v) \/ ConferirVenda(v) \/ ComitarVenda(v)
     PROVE  UmaReclassifica'
    BY <1>1 DEF LerProduto, Numerar, InserirReserva, LerCandidatas, InserirBlocos, SemCandidata, ConferirVenda, ComitarVenda, UmaReclassifica, SeguraProduto, Recomeco
<1>2. ASSUME NEW o \in Ocupantes,
            GanharUnidades(o) \/ PerderUnidades(o) \/ Encerrar(o)
     PROVE  UmaReclassifica'
    BY <1>2 DEF GanharUnidades, PerderUnidades, Encerrar, UmaReclassifica, SeguraProduto, Recomeco
<1>3. ASSUME NEW b \in Bloqueios,
            InserirBloqueio(b) \/ ComitarBloqueio(b)
     PROVE  UmaReclassifica'
    BY <1>3 DEF InserirBloqueio, ComitarBloqueio, UmaReclassifica, SeguraProduto, Recomeco
<1>4. ASSUME NEW c \in Trocas,
            LerProdutoDaTroca(c) \/ LerComposicao(c) \/ GuardarComposicao(c) \/ ComecarDelete(c) \/ TerminarDelete(c) \/ InserirMembros(c) \/ ConferirTroca(c) \/ ComitarTroca(c)
     PROVE  UmaReclassifica'
    BY <1>4 DEF LerProdutoDaTroca, LerComposicao, GuardarComposicao, ComecarDelete, TerminarDelete, InserirMembros, ConferirTroca, ComitarTroca, UmaReclassifica, SeguraProduto, Recomeco
<1>5. ASSUME NEW t \in Reclassificacoes, AtualizarConsumo(t) PROVE UmaReclassifica'
    BY <1>5 DEF AtualizarConsumo, UmaReclassifica, SeguraProduto, Recomeco
<1>6. ASSUME NEW t \in Reclassificacoes,
            GuardarConsumo(t) \/ ConferirConsumo(t) \/ ComitarConsumo(t)
     PROVE  UmaReclassifica'
    BY <1>6 DEF GuardarConsumo, ConferirConsumo, ComitarConsumo, UmaReclassifica, SeguraProduto, Recomeco
<1>7. ASSUME NEW x \in Transacoes, EstourarEspera(x) PROVE UmaReclassifica'
    BY <1>7 DEF EstourarEspera, UmaReclassifica, SeguraProduto, Recomeco
<1>8. CASE UNCHANGED vars
    BY <1>8 DEF UmaReclassifica, SeguraProduto, Recomeco
<1> QED
    BY <1>1, <1>2, <1>3, <1>4, <1>5, <1>6, <1>7, <1>8 DEF Next, Andar, Venda, Bloqueio, Troca, Reclassificacao

LEMMA FicaConsumoEspera == ASSUME IInv, [Next]_vars PROVE ConsumoEspera'
<1> USE ConcorrenciaA DEF IInv, TypeOK, vars, cadastro, daVenda, daTroca, Transacoes, DeProduto, Ocupantes, Ir
<1>1. ASSUME NEW v \in Vendas, LerProduto(v) PROVE ConsumoEspera'
    BY <1>1 DEF LerProduto, ConsumoEspera, UmaReclassifica, EmVenda, SeguraExclusivo, SeguraChave, VivasDo, EsperaParaConferir, Recomeco
<1>2. ASSUME NEW v \in Vendas, InserirReserva(v) PROVE ConsumoEspera'
    BY <1>2 DEF InserirReserva, ConsumoEspera, UmaReclassifica, EmVenda, SeguraExclusivo, SeguraChave, VivasDo, EsperaParaConferir, Recomeco
<1>3. ASSUME NEW v \in Vendas,
            Numerar(v) \/ LerCandidatas(v) \/ InserirBlocos(v) \/ SemCandidata(v) \/ ConferirVenda(v) \/ ComitarVenda(v)
     PROVE  ConsumoEspera'
    BY <1>3 DEF Numerar, LerCandidatas, InserirBlocos, SemCandidata, ConferirVenda, ComitarVenda, ConsumoEspera, UmaReclassifica, EmVenda, SeguraExclusivo, SeguraChave, VivasDo, EsperaParaConferir, Recomeco
<1>4. ASSUME NEW o \in Ocupantes,
            GanharUnidades(o) \/ PerderUnidades(o) \/ Encerrar(o)
     PROVE  ConsumoEspera'
    BY <1>4 DEF GanharUnidades, PerderUnidades, Encerrar, ConsumoEspera, UmaReclassifica, EmVenda, SeguraExclusivo, SeguraChave, VivasDo, EsperaParaConferir, Recomeco
<1>5. ASSUME NEW b \in Bloqueios,
            InserirBloqueio(b) \/ ComitarBloqueio(b)
     PROVE  ConsumoEspera'
    BY <1>5 DEF InserirBloqueio, ComitarBloqueio, ConsumoEspera, UmaReclassifica, EmVenda, SeguraExclusivo, SeguraChave, VivasDo, EsperaParaConferir, Recomeco
<1>6. ASSUME NEW c \in Trocas,
            LerProdutoDaTroca(c) \/ LerComposicao(c) \/ GuardarComposicao(c) \/ ComecarDelete(c) \/ TerminarDelete(c) \/ InserirMembros(c) \/ ConferirTroca(c) \/ ComitarTroca(c)
     PROVE  ConsumoEspera'
    BY <1>6 DEF LerProdutoDaTroca, LerComposicao, GuardarComposicao, ComecarDelete, TerminarDelete, InserirMembros, ConferirTroca, ComitarTroca, ConsumoEspera, UmaReclassifica, EmVenda, SeguraExclusivo, SeguraChave, VivasDo, EsperaParaConferir, Recomeco
<1>7. ASSUME NEW t \in Reclassificacoes, GuardarConsumo(t) PROVE ConsumoEspera'
    BY <1>7 DEF GuardarConsumo, ConsumoEspera, UmaReclassifica, EmVenda, SeguraExclusivo, SeguraChave, VivasDo, EsperaParaConferir, Recomeco
<1>8. ASSUME NEW t \in Reclassificacoes, ConferirConsumo(t) PROVE ConsumoEspera'
    BY <1>8 DEF ConferirConsumo, ConsumoEspera, UmaReclassifica, EmVenda, SeguraExclusivo, SeguraChave, VivasDo, EsperaParaConferir, Recomeco
<1>9. ASSUME NEW t \in Reclassificacoes, ComitarConsumo(t) PROVE ConsumoEspera'
    BY <1>9 DEF ComitarConsumo, ConsumoEspera, UmaReclassifica, EmVenda, SeguraExclusivo, SeguraChave, VivasDo, EsperaParaConferir, Recomeco
<1>10. ASSUME NEW t \in Reclassificacoes,
            AtualizarConsumo(t)
     PROVE  ConsumoEspera'
    BY <1>10 DEF AtualizarConsumo, ConsumoEspera, UmaReclassifica, EmVenda, SeguraExclusivo, SeguraChave, VivasDo, EsperaParaConferir, Recomeco
<1>11. ASSUME NEW x \in Transacoes, EstourarEspera(x) PROVE ConsumoEspera'
    BY <1>11 DEF EstourarEspera, ConsumoEspera, UmaReclassifica, EmVenda, SeguraExclusivo, SeguraChave, VivasDo, EsperaParaConferir, Recomeco
<1>12. CASE UNCHANGED vars
    BY <1>12 DEF ConsumoEspera, UmaReclassifica, EmVenda, SeguraExclusivo, SeguraChave, VivasDo, EsperaParaConferir, Recomeco
<1> QED
    BY <1>1, <1>2, <1>3, <1>4, <1>5, <1>6, <1>7, <1>8, <1>9, <1>10, <1>11, <1>12 DEF Next, Andar, Venda, Bloqueio, Troca, Reclassificacao

LEMMA FicaEscolha == ASSUME IInv, [Next]_vars PROVE Escolha'
<1> USE ConcorrenciaA DEF IInv, TypeOK, vars, cadastro, daVenda, daTroca, Transacoes, DeProduto, Ocupantes, Ir
<1>1. ASSUME NEW v \in Vendas, LerProduto(v) PROVE Escolha'
    BY <1>1 DEF LerProduto, Escolha, Trocada, ComposicaoFica, Candidatas, Recomeco
<1>2. ASSUME NEW v \in Vendas, LerCandidatas(v) PROVE Escolha'
    BY <1>2 DEF LerCandidatas, Escolha, Trocada, ComposicaoFica, Candidatas, Recomeco
<1>3. ASSUME NEW v \in Vendas, InserirBlocos(v) PROVE Escolha'
    BY <1>3 DEF InserirBlocos, Escolha, Trocada, ComposicaoFica, Candidatas, Recomeco
<1>4. ASSUME NEW v \in Vendas,
            Numerar(v) \/ InserirReserva(v) \/ SemCandidata(v) \/ ConferirVenda(v) \/ ComitarVenda(v)
     PROVE  Escolha'
    BY <1>4 DEF Numerar, InserirReserva, SemCandidata, ConferirVenda, ComitarVenda, Escolha, Trocada, ComposicaoFica, Candidatas, Recomeco
<1>5. ASSUME NEW o \in Ocupantes, PerderUnidades(o) PROVE Escolha'
    BY <1>5 DEF PerderUnidades, Escolha, Trocada, ComposicaoFica, Candidatas, Recomeco
<1>6. ASSUME NEW o \in Ocupantes,
            GanharUnidades(o) \/ Encerrar(o)
     PROVE  Escolha'
    BY <1>6 DEF GanharUnidades, Encerrar, Escolha, Trocada, ComposicaoFica, Candidatas, Recomeco
<1>7. ASSUME NEW b \in Bloqueios,
            InserirBloqueio(b) \/ ComitarBloqueio(b)
     PROVE  Escolha'
    BY <1>7 DEF InserirBloqueio, ComitarBloqueio, Escolha, Trocada, ComposicaoFica, Candidatas, Recomeco
<1>8. ASSUME NEW c \in Trocas, ComitarTroca(c) PROVE Escolha'
    BY <1>8 DEF ComitarTroca, Escolha, Trocada, ComposicaoFica, Candidatas, Recomeco
<1>9. ASSUME NEW c \in Trocas,
            LerProdutoDaTroca(c) \/ LerComposicao(c) \/ GuardarComposicao(c) \/ ComecarDelete(c) \/ TerminarDelete(c) \/ InserirMembros(c) \/ ConferirTroca(c)
     PROVE  Escolha'
    BY <1>9 DEF LerProdutoDaTroca, LerComposicao, GuardarComposicao, ComecarDelete, TerminarDelete, InserirMembros, ConferirTroca, Escolha, Trocada, ComposicaoFica, Candidatas, Recomeco
<1>10. ASSUME NEW t \in Reclassificacoes,
            GuardarConsumo(t) \/ AtualizarConsumo(t) \/ ConferirConsumo(t) \/ ComitarConsumo(t)
     PROVE  Escolha'
    BY <1>10 DEF GuardarConsumo, AtualizarConsumo, ConferirConsumo, ComitarConsumo, Escolha, Trocada, ComposicaoFica, Candidatas, Recomeco
<1>11. ASSUME NEW x \in Transacoes, EstourarEspera(x) PROVE Escolha'
    <2>1. passo[x] # "feita"
        BY <1>11, QuemEspera DEF EstourarEspera, PodeEstourar
    <2>2. \A p : Trocada(p) => Trocada(p)'
        BY <1>11, <2>1 DEF EstourarEspera, Trocada
    <2> QED
        BY <1>11, <2>2 DEF EstourarEspera, Recomeco, Escolha
<1>12. CASE UNCHANGED vars
    BY <1>12 DEF Escolha, Trocada, ComposicaoFica, Candidatas, Recomeco
<1> QED
    BY <1>1, <1>2, <1>3, <1>4, <1>5, <1>6, <1>7, <1>8, <1>9, <1>10, <1>11, <1>12 DEF Next, Andar, Venda, Bloqueio, Troca, Reclassificacao

LEMMA FicaContada == ASSUME IInv, [Next]_vars PROVE Contada'
<1> USE ConcorrenciaA DEF IInv, TypeOK, vars, cadastro, daVenda, daTroca, Transacoes, DeProduto, Ocupantes, Ir
<1>1. ASSUME NEW v \in Vendas, ConferirVenda(v) PROVE Contada'
    <2> DEFINE c == ComposicaoInicial[produto[v]]
    <2>1. \A p : Trocada(p) => Trocada(p)'
        BY <1>1 DEF ConferirVenda, Trocada
    <2>2. ASSUME ~Trocada(produto[v]), consome[produto[v]] = "all_members", passo'[v] = "conferida"
          PROVE  unidades[v] = c
        <3>1. membros[produto[v]] = c /\ IsFiniteSet(c)
            BY <2>2 DEF ComposicaoFica
        <3>2. Cardinality(unidades[v]) = Cardinality(c)
            BY <1>1, <2>2, <3>1 DEF ConferirVenda
        <3>3. CASE lido[v] = "all_members"
            BY <1>1, <2>2, <3>3 DEF ConferirVenda, Escolha
        <3>4. CASE lido[v] = "one_member"
            <4>1. PICK u \in c : unidades[v] = {u}
                BY <1>1, <2>2, <3>4 DEF ConferirVenda, Escolha
            <4> QED
                BY <3>1, <3>2, <4>1, UnicoMembro
        <3> QED
            BY <3>3, <3>4 DEF Consumos
    <2> QED
        BY <1>1, <2>1, <2>2 DEF ConferirVenda, Contada
<1>2. ASSUME NEW v \in Vendas,
            LerProduto(v) \/ Numerar(v) \/ InserirReserva(v) \/ LerCandidatas(v) \/ InserirBlocos(v) \/ SemCandidata(v) \/ ComitarVenda(v)
     PROVE  Contada'
    BY <1>2 DEF LerProduto, Numerar, InserirReserva, LerCandidatas, InserirBlocos, SemCandidata, ComitarVenda, Contada, Escolha, Trocada, ComposicaoFica, ConsumoEspera, EmVenda, Recomeco
<1>3. ASSUME NEW o \in Ocupantes, PerderUnidades(o) PROVE Contada'
    BY <1>3 DEF PerderUnidades, Contada, Escolha, Trocada, ComposicaoFica, ConsumoEspera, EmVenda, Recomeco
<1>4. ASSUME NEW o \in Ocupantes,
            GanharUnidades(o) \/ Encerrar(o)
     PROVE  Contada'
    BY <1>4 DEF GanharUnidades, Encerrar, Contada, Escolha, Trocada, ComposicaoFica, ConsumoEspera, EmVenda, Recomeco
<1>5. ASSUME NEW b \in Bloqueios,
            InserirBloqueio(b) \/ ComitarBloqueio(b)
     PROVE  Contada'
    BY <1>5 DEF InserirBloqueio, ComitarBloqueio, Contada, Escolha, Trocada, ComposicaoFica, ConsumoEspera, EmVenda, Recomeco
<1>6. ASSUME NEW c \in Trocas, ComitarTroca(c) PROVE Contada'
    BY <1>6 DEF ComitarTroca, Contada, Escolha, Trocada, ComposicaoFica, ConsumoEspera, EmVenda, Recomeco
<1>7. ASSUME NEW c \in Trocas,
            LerProdutoDaTroca(c) \/ LerComposicao(c) \/ GuardarComposicao(c) \/ ComecarDelete(c) \/ TerminarDelete(c) \/ InserirMembros(c) \/ ConferirTroca(c)
     PROVE  Contada'
    BY <1>7 DEF LerProdutoDaTroca, LerComposicao, GuardarComposicao, ComecarDelete, TerminarDelete, InserirMembros, ConferirTroca, Contada, Escolha, Trocada, ComposicaoFica, ConsumoEspera, EmVenda, Recomeco
<1>8. ASSUME NEW t \in Reclassificacoes, ComitarConsumo(t) PROVE Contada'
    BY <1>8 DEF ComitarConsumo, Contada, Escolha, Trocada, ComposicaoFica, ConsumoEspera, EmVenda, Recomeco
<1>9. ASSUME NEW t \in Reclassificacoes,
            GuardarConsumo(t) \/ AtualizarConsumo(t) \/ ConferirConsumo(t)
     PROVE  Contada'
    BY <1>9 DEF GuardarConsumo, AtualizarConsumo, ConferirConsumo, Contada, Escolha, Trocada, ComposicaoFica, ConsumoEspera, EmVenda, Recomeco
<1>10. ASSUME NEW x \in Transacoes, EstourarEspera(x) PROVE Contada'
    <2>1. passo[x] # "feita"
        BY <1>10, QuemEspera DEF EstourarEspera, PodeEstourar
    <2>2. \A p : Trocada(p) => Trocada(p)'
        BY <1>10, <2>1 DEF EstourarEspera, Trocada
    <2> QED
        BY <1>10, <2>2 DEF EstourarEspera, Recomeco, Contada
<1>11. CASE UNCHANGED vars
    BY <1>11 DEF Contada, Escolha, Trocada, ComposicaoFica, ConsumoEspera, EmVenda, Recomeco
<1> QED
    BY <1>1, <1>2, <1>3, <1>4, <1>5, <1>6, <1>7, <1>8, <1>9, <1>10, <1>11 DEF Next, Andar, Venda, Bloqueio, Troca, Reclassificacao

LEMMA FicaAlvosNoCadastro == ASSUME IInv, [Next]_vars PROVE AlvosNoCadastro'
<1> USE ConcorrenciaA DEF IInv, TypeOK, vars, cadastro, daVenda, daTroca, Transacoes, DeProduto, Ocupantes, Ir
<1>1. ASSUME NEW v \in Vendas,
            LerProduto(v) \/ Numerar(v) \/ InserirReserva(v) \/ LerCandidatas(v) \/ InserirBlocos(v) \/ SemCandidata(v) \/ ConferirVenda(v) \/ ComitarVenda(v)
     PROVE  AlvosNoCadastro'
    BY <1>1 DEF LerProduto, Numerar, InserirReserva, LerCandidatas, InserirBlocos, SemCandidata, ConferirVenda, ComitarVenda, AlvosNoCadastro, Alvo, Apagando, Recomeco
<1>2. ASSUME NEW o \in Ocupantes,
            GanharUnidades(o) \/ PerderUnidades(o) \/ Encerrar(o)
     PROVE  AlvosNoCadastro'
    BY <1>2 DEF GanharUnidades, PerderUnidades, Encerrar, AlvosNoCadastro, Alvo, Apagando, Recomeco
<1>3. ASSUME NEW b \in Bloqueios,
            InserirBloqueio(b) \/ ComitarBloqueio(b)
     PROVE  AlvosNoCadastro'
    BY <1>3 DEF InserirBloqueio, ComitarBloqueio, AlvosNoCadastro, Alvo, Apagando, Recomeco
<1>4. ASSUME NEW c \in Trocas, ComecarDelete(c) PROVE AlvosNoCadastro'
    BY <1>4 DEF ComecarDelete, AlvosNoCadastro, Alvo, Apagando, Recomeco
<1>5. ASSUME NEW c \in Trocas, TerminarDelete(c) PROVE AlvosNoCadastro'
    BY <1>5 DEF TerminarDelete, AlvosNoCadastro, Alvo, Apagando, Recomeco
<1>6. ASSUME NEW c \in Trocas, ComitarTroca(c) PROVE AlvosNoCadastro'
    <2> SUFFICES ASSUME NEW d \in Trocas, passo'[d] \in Apagando
                 PROVE  Alvo(d)' \subseteq membros'[produto'[d]]
        BY DEF AlvosNoCadastro
    <2>1. d # c /\ passo'[d] = passo[d] /\ produto'[d] = produto[d] /\ passo[c] = "conferida"
        BY <1>6 DEF ComitarTroca, Apagando
    <2>2. Alvo(d) \subseteq membros[produto[d]]
        BY <2>1 DEF AlvosNoCadastro
    <2>3. CASE produto[d] # produto[c]
        BY <1>6, <2>1, <2>2, <2>3 DEF ComitarTroca, Alvo, OutrasTrocas
    <2>4. CASE produto[d] = produto[c]
        <3>1. membros'[produto[d]] = (membros[produto[d]] \ apagadas[c]) \cup pedido[c]
            BY <1>6, <2>4 DEF ComitarTroca, ComposicaoNova
        <3>2. CASE passo[d] = "apagando"
            <4>1. Alvo(d)' = alvo[d] \ apagadas[c]
                BY <1>6, <2>1, <2>4, <3>2 DEF ComitarTroca, Alvo, OutrasTrocas
            <4> QED
                BY <2>1, <2>2, <3>1, <3>2, <4>1 DEF Alvo
        <3>3. CASE passo[d] # "apagando"
            <4>1. Alvo(d)' = apagadas[d]
                BY <1>6, <2>1, <3>3 DEF ComitarTroca, Alvo
            <4>2. apagadas[d] \cap apagadas[c] = {}
                BY <2>1, <2>4, <3>3 DEF AlvosEmCadeia, Apagando
            <4> QED
                BY <2>1, <2>2, <3>1, <3>3, <4>1, <4>2 DEF Alvo
        <3> QED
            BY <3>2, <3>3
    <2> QED
        BY <2>3, <2>4
<1>7. ASSUME NEW c \in Trocas,
            LerProdutoDaTroca(c) \/ LerComposicao(c) \/ GuardarComposicao(c) \/ InserirMembros(c) \/ ConferirTroca(c)
     PROVE  AlvosNoCadastro'
    BY <1>7 DEF LerProdutoDaTroca, LerComposicao, GuardarComposicao, InserirMembros, ConferirTroca, AlvosNoCadastro, Alvo, Apagando, Recomeco
<1>8. ASSUME NEW t \in Reclassificacoes,
            GuardarConsumo(t) \/ AtualizarConsumo(t) \/ ConferirConsumo(t) \/ ComitarConsumo(t)
     PROVE  AlvosNoCadastro'
    BY <1>8 DEF GuardarConsumo, AtualizarConsumo, ConferirConsumo, ComitarConsumo, AlvosNoCadastro, Alvo, Apagando, Recomeco
<1>9. ASSUME NEW x \in Transacoes, EstourarEspera(x) PROVE AlvosNoCadastro'
    BY <1>9 DEF EstourarEspera, AlvosNoCadastro, Alvo, Apagando, Recomeco
<1>10. CASE UNCHANGED vars
    BY <1>10 DEF AlvosNoCadastro, Alvo, Apagando, Recomeco
<1> QED
    BY <1>1, <1>2, <1>3, <1>4, <1>5, <1>6, <1>7, <1>8, <1>9, <1>10 DEF Next, Andar, Venda, Bloqueio, Troca, Reclassificacao

LEMMA FicaAlvosEmCadeia == ASSUME IInv, [Next]_vars PROVE AlvosEmCadeia'
<1> USE ConcorrenciaA DEF IInv, TypeOK, vars, cadastro, daVenda, daTroca, Transacoes, DeProduto, Ocupantes, Ir
<1>1. ASSUME NEW v \in Vendas,
            LerProduto(v) \/ Numerar(v) \/ InserirReserva(v) \/ LerCandidatas(v) \/ InserirBlocos(v) \/ SemCandidata(v) \/ ConferirVenda(v) \/ ComitarVenda(v)
     PROVE  AlvosEmCadeia'
    BY <1>1 DEF LerProduto, Numerar, InserirReserva, LerCandidatas, InserirBlocos, SemCandidata, ConferirVenda, ComitarVenda, AlvosEmCadeia, AlvosNoCadastro, Alvo, Apagando, Recomeco
<1>2. ASSUME NEW o \in Ocupantes, PerderUnidades(o) PROVE AlvosEmCadeia'
    BY <1>2 DEF PerderUnidades, AlvosEmCadeia, AlvosNoCadastro, Alvo, Apagando, Recomeco
<1>3. ASSUME NEW o \in Ocupantes,
            GanharUnidades(o) \/ Encerrar(o)
     PROVE  AlvosEmCadeia'
    BY <1>3 DEF GanharUnidades, Encerrar, AlvosEmCadeia, AlvosNoCadastro, Alvo, Apagando, Recomeco
<1>4. ASSUME NEW b \in Bloqueios,
            InserirBloqueio(b) \/ ComitarBloqueio(b)
     PROVE  AlvosEmCadeia'
    BY <1>4 DEF InserirBloqueio, ComitarBloqueio, AlvosEmCadeia, AlvosNoCadastro, Alvo, Apagando, Recomeco
<1>5. ASSUME NEW c \in Trocas, ComecarDelete(c) PROVE AlvosEmCadeia'
    BY <1>5 DEF ComecarDelete, AlvosEmCadeia, AlvosNoCadastro, Alvo, Apagando, Recomeco
<1>6. ASSUME NEW c \in Trocas, TerminarDelete(c) PROVE AlvosEmCadeia'
    <2> SUFFICES ASSUME NEW d \in Trocas, NEW e \in Trocas, produto'[d] = produto'[e],
                        passo'[d] \in Apagando, passo'[e] \in Apagando
                 PROVE  /\ Alvo(d)' \subseteq Alvo(e)' \/ Alvo(e)' \subseteq Alvo(d)'
                        /\ d # e /\ passo'[d] # "apagando" /\ passo'[e] # "apagando" =>
                              apagadas'[d] \cap apagadas'[e] = {}
        BY DEF AlvosEmCadeia
    <2>1. /\ passo[d] \in Apagando /\ Alvo(d)' = Alvo(d)
          /\ passo[e] \in Apagando /\ Alvo(e)' = Alvo(e)
        BY <1>6 DEF TerminarDelete, Alvo, Apagando
    <2>2. Alvo(d) \subseteq Alvo(e) \/ Alvo(e) \subseteq Alvo(d)
        BY <1>6, <2>1 DEF TerminarDelete, AlvosEmCadeia
    <2>3. ASSUME NEW f \in Trocas, f # c, passo'[f] # "apagando", passo'[f] \in Apagando,
                 produto[f] = produto[c]
          PROVE  apagadas'[f] \cap apagadas'[c] = {}
        BY <1>6, <2>3 DEF TerminarDelete, EsperaParaApagar, OutrasTrocas, Apagando
    <2>4. ASSUME d # e, passo'[d] # "apagando", passo'[e] # "apagando"
          PROVE  apagadas'[d] \cap apagadas'[e] = {}
        <3>1. CASE d = c \/ e = c
            BY <1>6, <2>3, <2>4, <3>1 DEF TerminarDelete
        <3>2. CASE d # c /\ e # c
            BY <1>6, <2>1, <2>4, <3>2 DEF TerminarDelete, AlvosEmCadeia
        <3> QED
            BY <3>1, <3>2
    <2> QED
        BY <2>1, <2>2, <2>4
<1>7. ASSUME NEW c \in Trocas, ComitarTroca(c) PROVE AlvosEmCadeia'
    <2> SUFFICES ASSUME NEW d \in Trocas, NEW e \in Trocas, produto'[d] = produto'[e],
                        passo'[d] \in Apagando, passo'[e] \in Apagando
                 PROVE  /\ Alvo(d)' \subseteq Alvo(e)' \/ Alvo(e)' \subseteq Alvo(d)'
                        /\ d # e /\ passo'[d] # "apagando" /\ passo'[e] # "apagando" =>
                              apagadas'[d] \cap apagadas'[e] = {}
        BY DEF AlvosEmCadeia
    <2> DEFINE A == apagadas[c]
    <2>1. /\ passo[c] = "conferida" /\ produto' = produto /\ apagadas' = apagadas
          /\ d # c /\ passo'[d] = passo[d] /\ e # c /\ passo'[e] = passo[e]
        BY <1>7 DEF ComitarTroca, Apagando
    <2>2. CASE produto[d] # produto[c]
        <3>1. Alvo(d)' = Alvo(d) /\ Alvo(e)' = Alvo(e)
            BY <1>7, <2>1, <2>2 DEF ComitarTroca, Alvo, OutrasTrocas
        <3> QED
            BY <2>1, <3>1 DEF AlvosEmCadeia
    <2>3. CASE produto[d] = produto[c]
        <3>1. ASSUME NEW f \in Trocas, f # c, passo[f] \in Apagando, passo'[f] = passo[f],
                     produto[f] = produto[c]
              PROVE  Alvo(f)' = Alvo(f) \ A
            <4>1. CASE passo[f] = "apagando"
                BY <1>7, <3>1, <4>1 DEF ComitarTroca, Alvo, OutrasTrocas
            <4>2. CASE passo[f] # "apagando"
                <5>1. apagadas[f] \cap A = {}
                    BY <2>1, <3>1, <4>2 DEF AlvosEmCadeia, Apagando
                <5> QED
                    BY <2>1, <3>1, <4>2, <5>1 DEF Alvo
            <4> QED
                BY <4>1, <4>2
        <3>2. Alvo(d)' = Alvo(d) \ A /\ Alvo(e)' = Alvo(e) \ A
            BY <2>1, <2>3, <3>1
        <3>3. Alvo(d) \subseteq Alvo(e) \/ Alvo(e) \subseteq Alvo(d)
            BY <2>1 DEF AlvosEmCadeia
        <3> QED
            BY <2>1, <3>2, <3>3 DEF AlvosEmCadeia
    <2> QED
        BY <2>2, <2>3
<1>8. ASSUME NEW c \in Trocas,
            LerProdutoDaTroca(c) \/ LerComposicao(c) \/ GuardarComposicao(c) \/ InserirMembros(c) \/ ConferirTroca(c)
     PROVE  AlvosEmCadeia'
    BY <1>8 DEF LerProdutoDaTroca, LerComposicao, GuardarComposicao, InserirMembros, ConferirTroca, AlvosEmCadeia, AlvosNoCadastro, Alvo, Apagando, Recomeco
<1>9. ASSUME NEW t \in Reclassificacoes,
            GuardarConsumo(t) \/ AtualizarConsumo(t) \/ ConferirConsumo(t) \/ ComitarConsumo(t)
     PROVE  AlvosEmCadeia'
    BY <1>9 DEF GuardarConsumo, AtualizarConsumo, ConferirConsumo, ComitarConsumo, AlvosEmCadeia, AlvosNoCadastro, Alvo, Apagando, Recomeco
<1>10. ASSUME NEW x \in Transacoes, EstourarEspera(x) PROVE AlvosEmCadeia'
    BY <1>10 DEF EstourarEspera, AlvosEmCadeia, AlvosNoCadastro, Alvo, Apagando, Recomeco
<1>11. CASE UNCHANGED vars
    BY <1>11 DEF AlvosEmCadeia, AlvosNoCadastro, Alvo, Apagando, Recomeco
<1> QED
    BY <1>1, <1>2, <1>3, <1>4, <1>5, <1>6, <1>7, <1>8, <1>9, <1>10, <1>11 DEF Next, Andar, Venda, Bloqueio, Troca, Reclassificacao

\* Every step of the system keeps the invariant.
LEMMA FicaIInv == ASSUME IInv, [Next]_vars PROVE IInv'
BY FicaTypeOK, FicaContadorDeUma, FicaSemLinhas, FicaSeparadas, FicaComposicaoFica,
   FicaUmaReclassifica, FicaConsumoEspera, FicaEscolha, FicaContada, FicaAlvosNoCadastro,
   FicaAlvosEmCadeia
   DEF IInv

LEMMA ComecaIInv == ASSUME Init PROVE IInv
<1> USE ConcorrenciaA DEF Init, Transacoes, DeProduto, Ocupantes
<1>1. TypeOK
    BY DEF TypeOK, Passos, Consumos
<1>2. ContadorDeUma /\ SemLinhas /\ Separadas /\ ComposicaoFica
    BY DEF ContadorDeUma, ComNumero, EmVenda, SemLinhas, Separadas, ComposicaoFica
<1>3. UmaReclassifica /\ ConsumoEspera /\ Escolha /\ Contada
    BY DEF UmaReclassifica, ConsumoEspera, Escolha, Contada
<1>4. AlvosNoCadastro /\ AlvosEmCadeia
    BY DEF AlvosNoCadastro, AlvosEmCadeia, Apagando
<1> QED
    BY <1>1, <1>2, <1>3, <1>4 DEF IInv

\* The inductive invariant holds of every behaviour.
LEMMA SempreIInv == Spec => []IInv
BY ComecaIInv, FicaIInv, PTL DEF Spec

-----------------------------------------------------------------------------
(* What follows from it.                                                   *)

LEMMA DonaDoQueVendeu == ASSUME IInv PROVE VendaInteiraESo
<1>1. UnidadeDeUmSo
    BY DEF IInv, Separadas, UnidadeDeUmSo
<1>2. CasaDeclarada
    <2> SUFFICES ASSUME NEW v \in VivasDaCasa, ~Trocada(produto[v])
                 PROVE  unidades[v] = membros[produto[v]]
        BY DEF CasaDeclarada, Trocada
    <2>1. unidades[v] = ComposicaoInicial[produto[v]]
        BY DEF VivasDaCasa, IInv, Contada
    <2>2. membros[produto[v]] = ComposicaoInicial[produto[v]]
        BY DEF VivasDaCasa, IInv, TypeOK, DeProduto, ComposicaoFica
    <2> QED
        BY <2>1, <2>2
<1> QED
    BY <1>1, <1>2 DEF VendaInteiraESo

\* Two sales of the same units cannot both be inserting: only one has the counter.
LEMMA RivalNaoEVenda ==
    ASSUME IInv, NEW v \in Vendas, passo[v] = "disputando", NEW w \in Rivais(v)
    PROVE  w \in Bloqueios
BY DEF IInv, ContadorDeUma, ComNumero, EmVenda, Rivais, Ocupantes

LEMMA NenhumaEsperaCruzada == ASSUME IInv PROVE VendasNaoSeTravam
<1> USE ConcorrenciaA DEF Transacoes, DeProduto, Ocupantes
<1> SUFFICES ASSUME NEW v \in Vendas, NEW w \in Vendas, w \in EsperaPor(v)
             PROVE  v \notin EsperaPor(w) /\ unidades[v] = {}
    BY DEF VendasNaoSeTravam
<1>1. passo[v] = "leu" /\ passo[w] \in {"numerada"} \cup EmVenda
    <2>1. CASE passo[v] = "leu"
        BY <2>1 DEF EsperaPor, SeguraContador
    <2>2. CASE passo[v] = "numerada"
        BY <2>2 DEF EsperaPor, SeguraExclusivo
    <2>3. CASE passo[v] = "disputando"
        BY <2>3, RivalNaoEVenda DEF EsperaPor
    <2> QED
        BY <2>1, <2>2, <2>3 DEF EsperaPor
<1>2. v \notin EsperaPor(w)
    BY <1>1 DEF EsperaPor, SeguraExclusivo, Rivais, EmVenda
<1>3. unidades[v] = {}
    BY <1>1 DEF IInv, SemLinhas
<1> QED
    BY <1>2, <1>3

LEMMA EsperaSempreSobe == ASSUME IInv PROVE EsperaSobe
<1> USE ConcorrenciaA DEF Transacoes, DeProduto, Ocupantes
<1> SUFFICES ASSUME NEW x \in DeProduto, NEW w \in DeProduto, w \in EsperaPor(x)
             PROVE  Degrau(w) > Degrau(x)
    BY DEF EsperaSobe
<1>1. CASE x \in Vendas /\ passo[x] = "leu"
    BY <1>1 DEF EsperaPor, SeguraContador, EmVenda, Degrau
<1>2. CASE x \in Vendas /\ passo[x] = "numerada"
    BY <1>2 DEF EsperaPor, SeguraExclusivo, Degrau
<1>3. CASE x \in Vendas /\ passo[x] = "disputando"
    BY <1>3, RivalNaoEVenda DEF EsperaPor
<1>4. CASE x \in Trocas /\ passo[x] = "apagando"
    BY <1>4 DEF EsperaPor, EsperaParaApagar, OutrasTrocas, Degrau
<1>5. CASE x \in Trocas /\ passo[x] = "apagada"
    <2>1. \/ w \in SeguraExclusivo(produto[x])
          \/ w \in Trocas /\ passo[w] \in {"inserida", "conferida"}
          \/ w \in OutrasTrocas(x) /\ passo[w] = "apagada" /\ apagadas[w] # {}
        <3>1. w \in EsperaParaInserir(x)
            BY <1>5 DEF EsperaPor
        <3> QED
            BY <3>1 DEF EsperaParaInserir, OutrasTrocas
    <2>2. CASE w \in OutrasTrocas(x) /\ passo[w] = "apagada" /\ apagadas[w] # {}
        <3>1. apagadas[x] = {}
            BY <1>5, <2>2 DEF OutrasTrocas, IInv, AlvosEmCadeia, Alvo, Apagando
        <3> QED
            BY <1>5, <2>2, <3>1 DEF Degrau
    <2>3. CASE \/ w \in SeguraExclusivo(produto[x])
               \/ w \in Trocas /\ passo[w] \in {"inserida", "conferida"}
        BY <1>5, <2>3 DEF SeguraExclusivo, Degrau
    <2> QED
        BY <2>1, <2>2, <2>3
<1>6. CASE x \in Reclassificacoes /\ passo[x] = "guardada"
    BY <1>6 DEF EsperaPor, SeguraProduto, Degrau
<1>7. CASE x \in Reclassificacoes /\ passo[x] = "atualizada"
    BY <1>7 DEF EsperaPor, EsperaParaConferir, SeguraChave, EmVenda, Degrau
<1> QED
    BY <1>1, <1>2, <1>3, <1>4, <1>5, <1>6, <1>7 DEF EsperaPor

-----------------------------------------------------------------------------
(* The theorems.                                                           *)

\* Whoever reclassifies the product or edits its composition meanwhile, a standing sale
\* of a house has the units the product declares, unless a replacement committed, and no
\* sale or block shares a unit with another (reservas/repository_blocos.go).
THEOREM VendaSempreInteira == Spec => []VendaInteiraESo
BY SempreIInv, DonaDoQueVendeu, PTL

\* Two sales never wait for each other, however many there are
\* (reservas/repository.go InserirReserva, the year's counter).
THEOREM VendasNaoSeCruzam == Spec => []VendasNaoSeTravam
BY SempreIInv, NenhumaEsperaCruzada, PTL

\* No ring of waits, of any length, is made of sales, replacements and reclassifications
\* alone: only an operational block can close one.
THEOREM SoBloqueioFechaOCirculo == Spec => []EsperaSobe
BY SempreIInv, EsperaSempreSobe, PTL
=============================================================================
