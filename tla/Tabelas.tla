-------------------------------- MODULE Tabelas --------------------------------
(***************************************************************************)
(* The rate tables of the house (modules/tarifario).  A quote is priced by *)
(* the table in force today, and a house without one sells nothing, so the *)
(* last cannot be deactivated by its button.  Nothing here is locked       *)
(* between a reading and the write it allows: each request is a            *)
(* transaction at READ COMMITTED whose one UPDATE, the last thing that can *)
(* wait, is taken together with its commit.                                *)
(***************************************************************************)
EXTENDS Integers, FiniteSets

CONSTANTS Quadros,      \* tables
          Requisicoes,  \* requests in course at the same time
          UltimaData,   \* bound: days are 0..UltimaData
          Vazio         \* no table, a table without end, or a field not sent

ASSUME TabelasAssumption ==
    IsFiniteSet(Quadros) /\ UltimaData \in Nat /\ Vazio \notin 0..UltimaData

VARIABLES hoje, tabela, requer

varsTabelas == <<hoje, tabela, requer>>

Datas == 0..UltimaData
SemRequisicao == [passo |-> "livre", id |-> Vazio, hoje |-> 0, de |-> Vazio, ate |-> Vazio,
                  vigentes |-> 0, mudou |-> FALSE]

Cobre(t, d) == t # Vazio /\ t.ativa /\ t.de <= d /\ (t.ate # Vazio => t.ate >= d)
VigentesEm(ts, d) == {i \in Quadros : Cobre(ts[i], d)}
Vigentes(d) == VigentesEm(tabela, d)
Coerente(de, ate) == ate # Vazio => ate >= de

InitTabelas ==
    /\ hoje = 0
    /\ \E i \in Quadros : tabela = [j \in Quadros |->
          IF j = i THEN [ativa |-> TRUE, de |-> 0, ate |-> Vazio] ELSE Vazio]
    /\ requer = [p \in Requisicoes |-> SemRequisicao]

\* The write of p: the others in course read before it.
Escrever(p, i, linha) ==
    /\ tabela' = [tabela EXCEPT ![i] = linha]
    /\ requer' = [q \in Requisicoes |->
          IF q = p THEN SemRequisicao
          ELSE IF requer[q] = SemRequisicao THEN SemRequisicao
          ELSE [requer[q] EXCEPT !.mudou = @ \/ linha # tabela[i]]]
    /\ UNCHANGED hoje

Desistir(p) == requer' = [requer EXCEPT ![p] = SemRequisicao] /\ UNCHANGED <<hoje, tabela>>

----------------------------------------------------------------------------

\* POST, and PUT of every field: judged by the body alone.
CriarTabela(p, i, de, ate) ==
    /\ requer[p] = SemRequisicao /\ tabela[i] = Vazio
    /\ Coerente(de, ate)
    /\ Escrever(p, i, [ativa |-> TRUE, de |-> de, ate |-> ate])

SubstituirTabela(p, i, ativa, de, ate) ==
    /\ requer[p] = SemRequisicao /\ tabela[i] # Vazio
    /\ Coerente(de, ate)
    /\ Escrever(p, i, [ativa |-> ativa, de |-> de, ate |-> ate])

\* DELETE: the table is read, the tables in force counted, then those besides it; the
\* day is that of the transaction.
BuscarTabela(p, i) ==
    /\ requer[p] = SemRequisicao /\ tabela[i] # Vazio /\ tabela[i].ativa
    /\ requer' = [requer EXCEPT ![p] = [SemRequisicao EXCEPT
           !.passo = "contar", !.id = i, !.hoje = hoje]]
    /\ UNCHANGED <<hoje, tabela>>

ContarTabelasVigentes(p) ==
    /\ requer[p].passo = "contar"
    /\ requer' = [requer EXCEPT ![p].passo = "restantes",
                                ![p].vigentes = Cardinality(Vigentes(requer[p].hoje))]
    /\ UNCHANGED <<hoje, tabela>>

\* Mutant: the table itself is counted among those that remain.
ContarComEla(p) ==
    /\ requer[p].passo = "restantes"
    /\ IF requer[p].vigentes > 0 /\ Vigentes(requer[p].hoje) = {}
       THEN Desistir(p)
       ELSE requer' = [requer EXCEPT ![p].passo = "desativar"] /\ UNCHANGED <<hoje, tabela>>

\* Refused when it is the only one in force.
ContarRestantes(p) ==
    /\ requer[p].passo = "restantes"
    /\ IF requer[p].vigentes > 0 /\ Vigentes(requer[p].hoje) \ {requer[p].id} = {}
       THEN Desistir(p)
       ELSE requer' = [requer EXCEPT ![p].passo = "desativar"] /\ UNCHANGED <<hoje, tabela>>

DesativarTabela(p) ==
    /\ requer[p].passo = "desativar"
    /\ Escrever(p, requer[p].id, [tabela[requer[p].id] EXCEPT !.ativa = FALSE])

\* PATCH of one end of the validity: judged with the other as it was read, and written
\* alone.
LerVigencia(p, i, de, ate) ==
    /\ requer[p] = SemRequisicao /\ tabela[i] # Vazio
    /\ Coerente(IF de # Vazio THEN de ELSE tabela[i].de, IF ate # Vazio THEN ate ELSE tabela[i].ate)
    /\ requer' = [requer EXCEPT ![p] = [SemRequisicao EXCEPT
           !.passo = "atualizar", !.id = i, !.de = de, !.ate = ate]]
    /\ UNCHANGED <<hoje, tabela>>

AtualizarTabela(p) ==
    LET r == requer[p] IN
    /\ r.passo = "atualizar"
    /\ Escrever(p, r.id, [tabela[r.id] EXCEPT !.de = IF r.de # Vazio THEN r.de ELSE @,
                                              !.ate = IF r.ate # Vazio THEN r.ate ELSE @])

\* PATCH with valid_to null: nothing it read can refuse it, and the beginning may go along.
RetirarFim(p, i, de) ==
    /\ requer[p] = SemRequisicao /\ tabela[i] # Vazio
    /\ Escrever(p, i, [tabela[i] EXCEPT !.de = IF de # Vazio THEN de ELSE @, !.ate = Vazio])

CairRequisicao(p) == requer[p] # SemRequisicao /\ Desistir(p)

VirarDia ==
    /\ hoje < UltimaData
    /\ hoje' = hoje + 1
    /\ UNCHANGED <<tabela, requer>>

PassoTabelas(p) ==
    \/ \E i \in Quadros, de \in Datas, ate \in Datas \cup {Vazio} :
          CriarTabela(p, i, de, ate) \/ \E a \in BOOLEAN : SubstituirTabela(p, i, a, de, ate)
    \/ \E i \in Quadros :
          \/ BuscarTabela(p, i)
          \/ \E d \in Datas : LerVigencia(p, i, d, Vazio) \/ LerVigencia(p, i, Vazio, d)
          \/ \E d \in Datas \cup {Vazio} : RetirarFim(p, i, d)
    \/ ContarTabelasVigentes(p) \/ ContarRestantes(p) \/ DesativarTabela(p)
    \/ AtualizarTabela(p) \/ CairRequisicao(p)

NextTabelas == VirarDia \/ \E p \in Requisicoes : PassoTabelas(p)

SpecTabelas == InitTabelas /\ [][NextTabelas]_varsTabelas

----------------------------------------------------------------------------
(* Properties.                                                             *)

\* The button never takes the last table in force from the house, and no request leaves
\* a table that ends before it begins, unless another request wrote between its reading
\* and its write (tarifario/service.go DesativarTabela, vigenciaCoerente).
SoFuraQuemCorreu ==
    \A p \in Requisicoes :
        /\ DesativarTabela(p) /\ Vigentes(requer[p].hoje) # {}
           /\ VigentesEm(tabela', requer[p].hoje) = {} =>
              requer[p].mudou
        /\ \A i \in Quadros :
              AtualizarTabela(p) /\ requer[p].id = i /\ ~Coerente(tabela'[i].de, tabela'[i].ate) =>
                  requer[p].mudou

SoCorridaFuraAsTabelas == [][SoFuraQuemCorreu]_varsTabelas
===============================================================================
