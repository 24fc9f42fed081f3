--------------------------------- MODULE Grade ---------------------------------
(***************************************************************************)
(* The grid of one rate table (modules/tarifario): a price for each pair   *)
(* of product and kind of date.  The screen saves the products it shows in *)
(* one request (SalvarGrade), and a single rate may be created, edited or  *)
(* excluded meanwhile.                                                     *)
(*                                                                         *)
(* Each request is a transaction at READ COMMITTED: what it writes stays   *)
(* in `grava' until it commits, a row it wrote or locked makes the others  *)
(* wait, and so does a key it wrote (UNIQUE).  The rows of a scope are     *)
(* locked one by one in the code and together here, which leaves the same  *)
(* data; requests that wait for each other are undone by PostgreSQL and    *)
(* fall (CairEdicao).                                                      *)
(***************************************************************************)
EXTENDS Integers, FiniteSets

CONSTANTS Edicoes,    \* requests in course at the same time
          Produtos,   \* unit types
          Chaves,     \* pairs <<product, kind of date>>
          Valores,    \* amount_cents
          IdsDaGrade, \* ids of rows, taken again once nobody remembers them
          Ausente

ASSUME GradeAssumption ==
    /\ \A k \in Chaves : k[1] \in Produtos
    /\ Ausente \notin [chave : Chaves, valor : Valores]

VARIABLES celula,     \* rates: the committed row of each id, or Ausente
          edicao

varsGrade == <<celula, edicao>>

SemLinhas == [i \in {} |-> Ausente]
SemEdicao == [tipo |-> "livre", passo |-> "", alvo |-> Ausente, escopo |-> {}, pede |-> SemLinhas,
              vistas |-> SemLinhas, antes |-> SemLinhas, grava |-> SemLinhas]

Gravadas == {i \in IdsDaGrade : celula[i] # Ausente}

InitGrade ==
    /\ \E i \in IdsDaGrade, k \in Chaves, v \in Valores :
          celula = [j \in IdsDaGrade |-> IF j = i THEN [chave |-> k, valor |-> v] ELSE Ausente]
    /\ edicao = [p \in Edicoes |-> SemEdicao]

----------------------------------------------------------------------------
(* Rows, locks and keys.                                                   *)

Escreve(p, i) == i \in DOMAIN edicao[p].grava

\* Mutant: the scope is read without FOR UPDATE.
TravaSoEscrevendo(p, i) == Escreve(p, i)

Trava(p, i) == Escreve(p, i) \/ i \in DOMAIN edicao[p].antes
TravadaPorOutro(p, i) == \E q \in Edicoes \ {p} : Trava(q, i)

\* Somebody else wrote the key, or is taking it off a row, and has not committed.
ChaveDisputada(p, k) ==
    \E q \in Edicoes \ {p}, i \in IdsDaGrade :
        /\ Escreve(q, i)
        /\ \/ edicao[q].grava[i] # Ausente /\ edicao[q].grava[i].chave = k
           \/ celula[i] # Ausente /\ celula[i].chave = k

\* The row p sees under an id, and the ids it sees under a key.
Linha(p, i) == IF Escreve(p, i) THEN edicao[p].grava[i] ELSE celula[i]
ComChave(p, k) == {i \in IdsDaGrade : Linha(p, i) # Ausente /\ Linha(p, i).chave = k}

\* An id nobody holds: neither a row nor a memory of any request.
IdNovo(i) ==
    /\ celula[i] = Ausente
    /\ \A q \in Edicoes :
          /\ i # edicao[q].alvo
          /\ i \notin DOMAIN edicao[q].vistas \cup DOMAIN edicao[q].grava

Grava(f, i, linha) == [j \in DOMAIN f \cup {i} |-> IF j = i THEN linha ELSE f[j]]

TerminarEdicao(p) == edicao' = [edicao EXCEPT ![p] = SemEdicao]

----------------------------------------------------------------------------
(* The grid of some products.                                              *)

\* A cell is of a product of the scope; with no declared scope, the scope is the
\* products of the cells.  No key comes twice.
ComecarGrade(p, escopo, chaves) ==
    /\ edicao[p] = SemEdicao
    /\ \A k \in chaves : k[1] \in escopo
    /\ \E pede \in [chaves -> Valores] :
          edicao' = [edicao EXCEPT ![p] = [SemEdicao EXCEPT
              !.tipo = "grade", !.passo = "ler", !.escopo = escopo, !.pede = pede]]
    /\ UNCHANGED celula

DoEscopo(p) == {i \in Gravadas : celula[i].chave[1] \in edicao[p].escopo}

\* The statement sees the rows committed when it begins ...
VerEscopo(p) ==
    /\ edicao[p].passo = "ler"
    /\ edicao' = [edicao EXCEPT ![p].passo = "travar",
                                ![p].vistas = [i \in DoEscopo(p) |-> celula[i].chave[1]]]
    /\ UNCHANGED celula

\* ... and waits for each: one excluded meanwhile, or moved to another product, is
\* no longer of the result (the joined unit_types row is the one first read).
CelulasDoEscopo(p) ==
    /\ edicao[p].passo = "travar"
    /\ \A i \in DOMAIN edicao[p].vistas : ~TravadaPorOutro(p, i)
    /\ LET ficam == {i \in DOMAIN edicao[p].vistas \cap Gravadas :
                        celula[i].chave[1] = edicao[p].vistas[i]}
       IN  edicao' = [edicao EXCEPT ![p].passo = "apagar",
                                    ![p].antes = [i \in ficam |-> celula[i]]]
    /\ UNCHANGED celula

\* The rows of the scope the request did not send go, by id.
ApagarForaDaGrade(p) ==
    /\ edicao[p].passo = "apagar"
    /\ LET r == edicao[p]
           remover == {i \in DOMAIN r.antes : r.antes[i].chave \notin DOMAIN r.pede}
       IN  edicao' = [edicao EXCEPT ![p].passo = "gravar",
                                    ![p].grava = [i \in remover |-> Ausente]]
    /\ UNCHANGED celula

\* INSERT ... ON CONFLICT DO UPDATE, one key of the request at a time: the row that
\* has the key takes the price, whoever put it there.
GravarCelula(p, k) ==
    /\ edicao[p].passo = "gravar" /\ edicao[p].tipo = "grade"
    /\ k \in DOMAIN edicao[p].pede
    /\ \A i \in ComChave(p, k) : ~Escreve(p, i)
    /\ ~ChaveDisputada(p, k)
    /\ \A i \in ComChave(p, k) : ~TravadaPorOutro(p, i)
    /\ \E i \in IdsDaGrade :
          /\ IF ComChave(p, k) = {} THEN IdNovo(i) ELSE i \in ComChave(p, k)
          /\ edicao' = [edicao EXCEPT ![p].grava =
                Grava(@, i, [chave |-> k, valor |-> edicao[p].pede[k]])]
    /\ UNCHANGED celula

GradeEscrita(p) ==
    \A k \in DOMAIN edicao[p].pede : \E i \in ComChave(p, k) : Escreve(p, i)

----------------------------------------------------------------------------
(* One rate.                                                               *)

\* The row is read for the audit trail, without a lock.
LerTarifa(p, tipo, i, pede) ==
    /\ edicao[p] = SemEdicao
    /\ i \in Gravadas
    /\ edicao' = [edicao EXCEPT ![p] = [SemEdicao EXCEPT
           !.tipo = tipo, !.passo = "gravar", !.alvo = i, !.pede = pede]]
    /\ UNCHANGED celula

CriarTarifa(p, k, v) ==
    /\ edicao[p] = SemEdicao
    /\ ~ChaveDisputada(p, k) /\ ComChave(p, k) = {}
    /\ \E i \in IdsDaGrade :
          /\ IdNovo(i)
          /\ edicao' = [edicao EXCEPT ![p] = [SemEdicao EXCEPT
                 !.tipo = "criar", !.passo = "confirmar",
                 !.grava = Grava(SemLinhas, i, [chave |-> k, valor |-> v])]]
    /\ UNCHANGED celula

\* The UPDATE waits for the row and writes over what it finds there; 404 when it is
\* gone, and a key somebody else has is refused (CODE_IN_USE).
AtualizarTarifa(p) ==
    LET r == edicao[p]
        nova == [celula[r.alvo] EXCEPT
                    !.chave = IF "chave" \in DOMAIN r.pede THEN r.pede["chave"] ELSE @,
                    !.valor = IF "valor" \in DOMAIN r.pede THEN r.pede["valor"] ELSE @]
    IN  /\ r.tipo = "editar" /\ r.passo = "gravar"
        /\ ~TravadaPorOutro(p, r.alvo)
        /\ IF celula[r.alvo] = Ausente THEN TerminarEdicao(p)
           ELSE /\ ~ChaveDisputada(p, nova.chave)
                /\ IF ComChave(p, nova.chave) \ {r.alvo} # {} THEN TerminarEdicao(p)
                   ELSE edicao' = [edicao EXCEPT ![p].passo = "confirmar",
                                                 ![p].grava = Grava(SemLinhas, r.alvo, nova)]
        /\ UNCHANGED celula

ExcluirTarifa(p) ==
    LET r == edicao[p]
    IN  /\ r.tipo = "excluir" /\ r.passo = "gravar"
        /\ ~TravadaPorOutro(p, r.alvo)
        /\ IF celula[r.alvo] = Ausente THEN TerminarEdicao(p)
           ELSE edicao' = [edicao EXCEPT ![p].passo = "confirmar",
                                         ![p].grava = Grava(SemLinhas, r.alvo, Ausente)]
        /\ UNCHANGED celula

----------------------------------------------------------------------------

ConfirmarEdicao(p) ==
    /\ \/ edicao[p].passo = "confirmar"
       \/ edicao[p].tipo = "grade" /\ edicao[p].passo = "gravar" /\ GradeEscrita(p)
    /\ celula' = [i \in IdsDaGrade |-> Linha(p, i)]
    /\ TerminarEdicao(p)

CairEdicao(p) ==
    /\ edicao[p] # SemEdicao
    /\ TerminarEdicao(p)
    /\ UNCHANGED celula

PassoGrade(p) ==
    \/ \E escopo \in SUBSET Produtos, chaves \in SUBSET Chaves : ComecarGrade(p, escopo, chaves)
    \/ VerEscopo(p) \/ CelulasDoEscopo(p) \/ ApagarForaDaGrade(p)
    \/ \E k \in Chaves : GravarCelula(p, k) \/ \E v \in Valores : CriarTarifa(p, k, v)
    \/ \E i \in IdsDaGrade :
          \/ \E v \in Valores : LerTarifa(p, "editar", i, [valor |-> v])
          \/ \E k \in Chaves : LerTarifa(p, "editar", i, [chave |-> k])
          \/ LerTarifa(p, "excluir", i, SemLinhas)
    \/ AtualizarTarifa(p) \/ ExcluirTarifa(p)
    \/ ConfirmarEdicao(p) \/ CairEdicao(p)

NextGrade == \E p \in Edicoes : PassoGrade(p)

SpecGrade == InitGrade /\ [][NextGrade]_varsGrade

----------------------------------------------------------------------------
(* Properties.                                                             *)

\* One row for each key, and a row is written by one request at a time.
UmaCelulaPorChave ==
    /\ \A i, j \in Gravadas : celula[i].chave = celula[j].chave => i = j
    /\ \A p, q \in Edicoes, i \in IdsDaGrade : Escreve(p, i) /\ Escreve(q, i) => p = q

\* What the grid save p tells its caller it found and changed is what its commit does:
\* outside the scope nothing changes; a row of the scope it removed or updated is still
\* the one it read; only a row that came after the reading is kept although not sent,
\* or replaced without having been seen.
ComoDeclarou(p) ==
    LET r == edicao[p] IN
    \A i \in IdsDaGrade :
        /\ celula[i] # celula'[i] /\ celula[i] # Ausente =>
              /\ celula[i].chave[1] \in r.escopo
              /\ \/ i \in DOMAIN r.antes /\ celula[i] = r.antes[i]
                 \/ i \notin DOMAIN r.antes /\ celula[i].chave \in DOMAIN r.pede
        /\ i \in DOMAIN r.antes =>
              celula'[i] = IF r.antes[i].chave \in DOMAIN r.pede
                           THEN [r.antes[i] EXCEPT !.valor = r.pede[r.antes[i].chave]]
                           ELSE Ausente
        /\ celula'[i] # Ausente /\ celula'[i].chave \in DOMAIN r.pede =>
              celula'[i].valor = r.pede[celula'[i].chave]

\* A grid is saved as its summary says, whatever single rates are edited meanwhile
\* (tarifario/service.go SalvarGrade, repository.go CelulasDoEscopo FOR UPDATE).
SalvaComoDeclarou ==
    \A p \in Edicoes :
        edicao[p].tipo = "grade" /\ ConfirmarEdicao(p) => ComoDeclarou(p) /\ UmaCelulaPorChave'

GradeDeclarada == [][SalvaComoDeclarou]_varsGrade
===============================================================================
