-------------------------- MODULE ConferenciasProofs --------------------------
(***************************************************************************)
(* What a count of the goods of a unit guarantees, for any number of goods, *)
(* counts, damage reports and requests.                                    *)
(*                                                                         *)
(* The inductive invariant says, of each request in course, what the lock  *)
(* it took keeps true until its commit: who opens a count opens one that   *)
(* does not exist, who counts or closes finds it open, who erases a report *)
(* finds it there and its count not closed, who brings goods in bulk finds *)
(* no count open and nobody opening one.  Sozinhos says which two of them  *)
(* never meet, which is what makes the rest inductive.                     *)
(***************************************************************************)
EXTENDS Conferencias, FiniteSetTheorems, TLAPS

Linha     == [esperada : Quantidades, contada : Quantidades \cup {Nenhum}, custo : Custos \cup {Nenhum}]
Folhas    == UNION {[F -> Linha] : F \in SUBSET Bens}
Contagens == [estado : {"ausente", "aberta", "fechada", "cancelada"}, linhas : Folhas, abriu : BOOLEAN]
Postos    == [qtd : Quantidades, via : {"mao", "copia"}]
Ops       == {"nenhuma", "copiar", "importar", "abrir", "contar", "fechar", "apagar"}
Tarefas   == [op : Ops, conf : Conferencias \cup {Nenhum}, bem : Bens \cup {Nenhum},
              avaria : Avarias \cup {Nenhum}, bens : SUBSET Bens, linhas : Folhas, abriu : BOOLEAN]

TypeOK ==
    /\ colocacao \in [Bens -> Postos \cup {Nenhum}]
    /\ custo \in [Bens -> Custos]
    /\ conferencia \in [Conferencias -> Contagens]
    /\ avaria \in [Avarias -> Relatos \cup {Nenhum}]
    /\ pedido \in [Pedidos -> Tarefas]

\* What the lock of a request keeps true.
Guardado(r) ==
    /\ r.op = "abrir" => r.conf \in Conferencias /\ conferencia[r.conf].estado = "ausente"
    /\ r.op \in {"contar", "fechar"} =>
          r.conf \in Conferencias /\ conferencia[r.conf].estado = "aberta"
    /\ r.op = "contar" => r.bem \in DOMAIN conferencia[r.conf].linhas
    /\ r.op = "apagar" =>
          /\ r.avaria \in Avarias /\ avaria[r.avaria] # Nenhum /\ avaria[r.avaria].conf = r.conf
          /\ r.conf \in Conferencias => conferencia[r.conf].estado # "fechada"
    /\ r.op # "apagar" => r.avaria = Nenhum

\* Which two requests never meet.
Sozinhos(r, s) ==
    /\ ~(r.op = "abrir" /\ s.op \in {"abrir"} \cup EmLote)
    /\ r.op = "fechar" /\ s.op \in {"fechar", "contar", "apagar"} => r.conf # s.conf
    /\ r.op = "apagar" /\ s.op = "apagar" => r.avaria # s.avaria

\* Who brings goods in bulk finds no count open.
CopiaSemContagem == (\E p \in Pedidos : pedido[p].op \in EmLote) => ~HaAberta

\* Who opens a count wrote down all that bulk ever brought.
Escrita ==
    \A p \in Pedidos : pedido[p].op = "abrir" =>
        \A b \in Colocados : colocacao[b].via = "copia" => b \in DOMAIN pedido[p].linhas

\* A report born in a closing is of a closed count.
NascidaDeFechada ==
    \A a \in Avarias : avaria[a] # Nenhum /\ avaria[a].nascida
        => avaria[a].conf \in Conferencias /\ conferencia[avaria[a].conf].estado = "fechada"

Guardados == \A p \in Pedidos : Guardado(pedido[p])
Separados == \A p, q \in Pedidos : p # q => Sozinhos(pedido[p], pedido[q])

IInv ==
    /\ TypeOK /\ Guardados /\ Separados
    /\ CopiaSemContagem /\ Escrita /\ NascidaDeFechada
    /\ FaltaViraUmaAvaria /\ ContagemVeACopia

----------------------------------------------------------------------------
(* Lemmas on one request.                                                  *)

LEMMA LivreServe == Livre \in Tarefas /\ Livre.op = "nenhuma" /\ Livre.avaria = Nenhum
<1>1. Vazio \in [{} -> Linha]
  BY DEF Vazio
<1>2. Vazio \in Folhas
  BY <1>1 DEF Folhas
<1>3. QED
  BY <1>2 DEF Livre, Tarefas, Ops

\* A request starts, under a lock, and no row changes.
LEMMA Comeca ==
    ASSUME IInv, NEW p \in Pedidos, NEW r \in Tarefas, Comecar(p, r),
           UNCHANGED <<colocacao, custo, conferencia, avaria>>,
           Guardado(r),
           \A q \in Pedidos \ {p} : Sozinhos(r, pedido[q]) /\ Sozinhos(pedido[q], r),
           r.op \in EmLote => ~HaAberta,
           r.op = "abrir" => \A b \in Colocados : b \in DOMAIN r.linhas
    PROVE  IInv'
<1>1. /\ colocacao' = colocacao /\ custo' = custo /\ conferencia' = conferencia /\ avaria' = avaria
      /\ pedido \in [Pedidos -> Tarefas] /\ pedido' = [pedido EXCEPT ![p] = r]
  BY DEF Comecar, IInv, TypeOK
<1>2. /\ pedido' \in [Pedidos -> Tarefas] /\ pedido'[p] = r
      /\ \A q \in Pedidos \ {p} : pedido'[q] = pedido[q]
  BY <1>1
<1>3. TypeOK'
  BY <1>1, <1>2 DEF IInv, TypeOK
<1>4. Guardados'
  <2>1. \A q \in Pedidos : Guardado(pedido'[q])
    BY <1>2 DEF IInv, Guardados
  <2>2. QED
    BY <1>1, <2>1 DEF Guardados, Guardado
<1>5. Separados'
  BY <1>2 DEF IInv, Separados, Sozinhos
<1>6. CopiaSemContagem'
  BY <1>1, <1>2 DEF IInv, CopiaSemContagem, HaAberta
<1>7. Escrita'
  BY <1>1, <1>2 DEF IInv, Escrita, Colocados
<1>8. NascidaDeFechada' /\ FaltaViraUmaAvaria' /\ ContagemVeACopia'
  BY <1>1 DEF IInv, NascidaDeFechada, FaltaViraUmaAvaria, ContagemVeACopia, Colocados
<1>9. QED
  BY <1>3, <1>4, <1>5, <1>6, <1>7, <1>8 DEF IInv

LEMMA PassoCair ==
    ASSUME IInv, NEW p \in Pedidos, Cair(p)
    PROVE  IInv'
<1>1. Guardado(Livre) /\ \A q \in Pedidos : Sozinhos(Livre, pedido[q]) /\ Sozinhos(pedido[q], Livre)
  BY LivreServe DEF Guardado, Sozinhos, EmLote
<1>2. QED
  BY <1>1, LivreServe, Comeca DEF Cair, Terminar, Comecar, EmLote

\* The end of a request that wrote rows: what is left to show of the others.
LEMMA Termina ==
    ASSUME IInv, NEW p \in Pedidos, Terminar(p)
    PROVE  /\ pedido' \in [Pedidos -> Tarefas]
           /\ \A q \in Pedidos \ {p} : pedido'[q] = pedido[q]
           /\ pedido'[p] = Livre /\ Guardado(Livre)' /\ Separados'
<1>1. pedido \in [Pedidos -> Tarefas] /\ pedido' = [pedido EXCEPT ![p] = Livre]
  BY DEF Terminar, IInv, TypeOK
<1>2. /\ pedido' \in [Pedidos -> Tarefas] /\ pedido'[p] = Livre
      /\ \A q \in Pedidos \ {p} : pedido'[q] = pedido[q]
  BY <1>1, LivreServe
<1>3. Guardado(Livre)'
  BY LivreServe DEF Guardado
<1>4. Separados'
  BY <1>2, LivreServe DEF IInv, Separados, Sozinhos, EmLote
<1>5. QED
  BY <1>2, <1>3, <1>4

----------------------------------------------------------------------------
(* Placements and catalogue.                                               *)

\* Only placements change, none of them brought in bulk.
LEMMA Arruma ==
    ASSUME IInv, colocacao' \in [Bens -> Postos \cup {Nenhum}], custo' \in [Bens -> Custos],
           UNCHANGED <<conferencia, avaria, pedido>>,
           \A b \in Bens : colocacao'[b] # Nenhum /\ colocacao'[b].via = "copia" =>
               colocacao[b] # Nenhum /\ colocacao[b].via = "copia"
    PROVE  IInv'
<1>1. TypeOK'
  BY DEF IInv, TypeOK
<1>2. Guardados' /\ Separados' /\ CopiaSemContagem' /\ NascidaDeFechada' /\ FaltaViraUmaAvaria'
  BY DEF IInv, Guardados, Guardado, Separados, CopiaSemContagem, HaAberta, NascidaDeFechada,
         FaltaViraUmaAvaria
<1>3. Escrita' /\ ContagemVeACopia'
  BY DEF IInv, Escrita, ContagemVeACopia, Colocados
<1>4. QED
  BY <1>1, <1>2, <1>3 DEF IInv

LEMMA PassoCatalogo ==
    ASSUME IInv, Catalogo
    PROVE  IInv'
<1>0. colocacao \in [Bens -> Postos \cup {Nenhum}] /\ custo \in [Bens -> Custos]
  BY DEF IInv, TypeOK
<1>1. ASSUME NEW b \in Bens, NEW q \in Quantidades, CriarColocacao(b, q) PROVE IInv'
  <2>1. /\ colocacao' \in [Bens -> Postos \cup {Nenhum}] /\ custo' = custo
        /\ UNCHANGED <<conferencia, avaria, pedido>>
        /\ colocacao'[b].via = "mao" /\ \A x \in Bens \ {b} : colocacao'[x] = colocacao[x]
    BY <1>0, <1>1 DEF CriarColocacao, Postos
  <2>2. QED
    BY <1>0, <2>1, Arruma
<1>2. ASSUME NEW b \in Bens, NEW q \in Quantidades, GravarColocacao(b, q) PROVE IInv'
  <2> DEFINE x == [colocacao[b] EXCEPT !.qtd = q]
  <2>1. colocacao' = [colocacao EXCEPT ![b] = x] /\ colocacao[b] \in Postos
    BY <1>0, <1>2 DEF GravarColocacao
  <2>2. x \in Postos /\ x.via = colocacao[b].via
    BY <2>1 DEF Postos
  <2> HIDE DEF x
  <2>3. /\ colocacao' \in [Bens -> Postos \cup {Nenhum}] /\ custo' = custo
        /\ UNCHANGED <<conferencia, avaria, pedido>> /\ colocacao[b] # Nenhum
        /\ colocacao'[b].via = colocacao[b].via /\ \A y \in Bens \ {b} : colocacao'[y] = colocacao[y]
    BY <1>0, <1>2, <2>1, <2>2 DEF GravarColocacao
  <2>4. QED
    BY <1>0, <2>3, Arruma
<1>3. ASSUME NEW b \in Bens, ApagarColocacao(b) PROVE IInv'
  <2>1. /\ colocacao' \in [Bens -> Postos \cup {Nenhum}] /\ custo' = custo
        /\ UNCHANGED <<conferencia, avaria, pedido>>
        /\ colocacao'[b] = Nenhum /\ \A x \in Bens \ {b} : colocacao'[x] = colocacao[x]
    BY <1>0, <1>3 DEF ApagarColocacao
  <2>2. QED
    BY <1>0, <2>1, Arruma
<1>4. ASSUME NEW b \in Bens, NEW k \in Custos, GravarBem(b, k) PROVE IInv'
  <2>1. /\ custo' \in [Bens -> Custos] /\ colocacao' = colocacao
        /\ UNCHANGED <<conferencia, avaria, pedido>>
    BY <1>0, <1>4 DEF GravarBem
  <2>2. QED
    BY <1>0, <2>1, Arruma
<1>5. QED
  BY <1>1, <1>2, <1>3, <1>4 DEF Catalogo

----------------------------------------------------------------------------
(* The statements that take a lock.                                        *)

\* Who starts, and what the locks say of the others.
LEMMA PassoPlanejar ==
    ASSUME IInv, NEW p \in Pedidos, NEW op \in EmLote, NEW B \in SUBSET Bens, PlanejarCopia(p, op, B)
    PROVE  IInv'
<1> DEFINE X == B \ Colocados
           u == [Livre EXCEPT !.op = op]
           r == [Livre EXCEPT !.op = op, !.bens = X]
<1>1. u \in Tarefas /\ u.op = op /\ u.avaria = Nenhum
  BY LivreServe DEF Tarefas, Ops, EmLote
<1>2. r = [u EXCEPT !.bens = X] /\ X \in SUBSET Bens
  OBVIOUS
<1> HIDE DEF u, X
<1>3. r \in Tarefas /\ r.op = op /\ r.avaria = Nenhum
  BY <1>1, <1>2 DEF Tarefas
<1>4. Comecar(p, r) /\ ~HaAberta /\ \A q \in Pedidos \ {p} : pedido[q].op \notin {"abrir"} \cup EmLote
  BY DEF PlanejarCopia, TravarInventarioDaUnidade, X
<1> HIDE DEF r
<1>5. Guardado(r) /\ \A q \in Pedidos \ {p} : Sozinhos(r, pedido[q]) /\ Sozinhos(pedido[q], r)
  BY <1>3, <1>4 DEF Guardado, Sozinhos, EmLote
<1>6. QED
  BY <1>3, <1>4, <1>5, Comeca DEF PlanejarCopia, EmLote

LEMMA PassoAbrir ==
    ASSUME IInv, NEW p \in Pedidos, NEW c \in Conferencias, AbrirConferencia(p, c)
    PROVE  IInv'
<1> DEFINE L == CongelarLinhas
           u == [Livre EXCEPT !.op = "abrir"]
           w == [u EXCEPT !.conf = c]
           r == [Livre EXCEPT !.op = "abrir", !.conf = c, !.linhas = L]
<1>1. L \in Folhas /\ DOMAIN L = Colocados
  <2>1. Colocados \in SUBSET Bens
    BY DEF Colocados
  <2>2. \A b \in Colocados : colocacao[b].qtd \in Quantidades
    BY DEF Colocados, IInv, TypeOK, Postos
  <2>3. L \in [Colocados -> Linha]
    BY <2>2 DEF CongelarLinhas, Linha
  <2>4. QED
    BY <2>1, <2>3 DEF Folhas, CongelarLinhas
<1>2. u \in Tarefas /\ u.op = "abrir" /\ u.avaria = Nenhum
  BY LivreServe DEF Tarefas, Ops
<1>3. r = [w EXCEPT !.linhas = L]
  OBVIOUS
<1>0. Comecar(p, r) /\ conferencia[c] = Ausente
  BY DEF AbrirConferencia
<1> HIDE DEF u, L
<1>4. w \in Tarefas /\ w.op = "abrir" /\ w.avaria = Nenhum /\ w.conf = c
  BY <1>2 DEF Tarefas
<1> HIDE DEF w
<1>5. r \in Tarefas /\ r.op = "abrir" /\ r.avaria = Nenhum /\ r.conf = c /\ r.linhas = L
  BY <1>1, <1>3, <1>4 DEF Tarefas
<1>6. \A q \in Pedidos \ {p} : pedido[q].op \notin {"abrir"} \cup EmLote
  BY DEF AbrirConferencia, TravarInventarioDaUnidade
<1> HIDE DEF r
<1>7. Guardado(r) /\ \A q \in Pedidos \ {p} : Sozinhos(r, pedido[q]) /\ Sozinhos(pedido[q], r)
  BY <1>0, <1>5, <1>6 DEF Guardado, Sozinhos, Ausente
<1>8. QED
  BY <1>0, <1>1, <1>5, <1>7, Comeca DEF AbrirConferencia, EmLote

LEMMA PassoContar ==
    ASSUME IInv, NEW p \in Pedidos, NEW c \in Conferencias, NEW b \in Bens, ContarLinha(p, c, b)
    PROVE  IInv'
<1> DEFINE u == [Livre EXCEPT !.op = "contar"]
           w == [u EXCEPT !.conf = c]
           r == [Livre EXCEPT !.op = "contar", !.conf = c, !.bem = b]
<1>1. u \in Tarefas /\ u.op = "contar" /\ u.avaria = Nenhum
  BY LivreServe DEF Tarefas, Ops
<1>2. r = [w EXCEPT !.bem = b]
  OBVIOUS
<1>3. Comecar(p, r) /\ conferencia[c].estado = "aberta" /\ b \in DOMAIN conferencia[c].linhas
      /\ \A q \in Pedidos \ {p} : pedido[q].conf = c => pedido[q].op \notin {"fechar"}
  BY DEF ContarLinha, TravarConferencia
<1> HIDE DEF u
<1>4. w \in Tarefas /\ w.op = "contar" /\ w.avaria = Nenhum /\ w.conf = c
  BY <1>1 DEF Tarefas
<1> HIDE DEF w
<1>5. r \in Tarefas /\ r.op = "contar" /\ r.avaria = Nenhum /\ r.conf = c /\ r.bem = b
  BY <1>2, <1>4 DEF Tarefas
<1> HIDE DEF r
<1>6. Guardado(r) /\ \A q \in Pedidos \ {p} : Sozinhos(r, pedido[q]) /\ Sozinhos(pedido[q], r)
  BY <1>3, <1>5 DEF Guardado, Sozinhos, EmLote
<1>7. QED
  BY <1>3, <1>5, <1>6, Comeca DEF ContarLinha, EmLote

\* The costs frozen in the lines leave the lines of a count what they are.
LEMMA Congela ==
    ASSUME TypeOK, NEW c \in Conferencias
    PROVE  CongelarCustos(c) \in Folhas
<1>1. PICK F \in SUBSET Bens : conferencia[c].linhas \in [F -> Linha]
  <2>1. conferencia[c].linhas \in Folhas
    BY DEF TypeOK, Contagens
  <2>2. QED
    BY <2>1 DEF Folhas
<1> DEFINE l(b) == [conferencia[c].linhas[b] EXCEPT !.custo = custo[b]]
<1>2. \A b \in F : l(b) \in Linha
  BY <1>1 DEF Linha, TypeOK
<1>3. CongelarCustos(c) = [b \in F |-> l(b)]
  BY <1>1 DEF CongelarCustos
<1> HIDE DEF l
<1>4. CongelarCustos(c) \in [F -> Linha]
  BY <1>2, <1>3
<1>5. QED
  BY <1>4 DEF Folhas

LEMMA PassoFechar ==
    ASSUME IInv, NEW p \in Pedidos, NEW c \in Conferencias, NEW s \in BOOLEAN, FecharConferencia(p, c, s)
    PROVE  IInv'
<1> DEFINE L == CongelarCustos(c)
           u == [Livre EXCEPT !.op = "fechar"]
           v == [u EXCEPT !.conf = c]
           w == [v EXCEPT !.abriu = s]
           r == [Livre EXCEPT !.op = "fechar", !.conf = c, !.abriu = s, !.linhas = L]
<1>0. L \in Folhas
  BY Congela DEF IInv
<1>1. u \in Tarefas /\ u.op = "fechar" /\ u.avaria = Nenhum
  BY LivreServe DEF Tarefas, Ops
<1>2. r = [w EXCEPT !.linhas = L]
  OBVIOUS
<1>3. Comecar(p, r) /\ conferencia[c].estado = "aberta"
      /\ \A q \in Pedidos \ {p} : pedido[q].conf = c => pedido[q].op \notin {"fechar", "contar", "apagar"}
  BY DEF FecharConferencia, TravarConferencia, AindaAberta
<1> HIDE DEF u, L
<1>4. v \in Tarefas /\ v.op = "fechar" /\ v.avaria = Nenhum /\ v.conf = c
  BY <1>1 DEF Tarefas
<1> HIDE DEF v
<1>5. w \in Tarefas /\ w.op = "fechar" /\ w.avaria = Nenhum /\ w.conf = c
  BY <1>4 DEF Tarefas
<1> HIDE DEF w
<1>6. r \in Tarefas /\ r.op = "fechar" /\ r.avaria = Nenhum /\ r.conf = c
  BY <1>0, <1>2, <1>5 DEF Tarefas
<1> HIDE DEF r
<1>7. Guardado(r) /\ \A q \in Pedidos \ {p} : Sozinhos(r, pedido[q]) /\ Sozinhos(pedido[q], r)
  BY <1>3, <1>6 DEF Guardado, Sozinhos, EmLote
<1>8. QED
  BY <1>3, <1>6, <1>7, Comeca DEF FecharConferencia, EmLote

LEMMA PassoApagar ==
    ASSUME IInv, NEW p \in Pedidos, NEW a \in Avarias, ApagarAvaria(p, a)
    PROVE  IInv'
<1> DEFINE c == avaria[a].conf
           u == [Livre EXCEPT !.op = "apagar"]
           w == [u EXCEPT !.avaria = a]
           r == [Livre EXCEPT !.op = "apagar", !.avaria = a, !.conf = c]
<1>0. avaria[a] # Nenhum /\ c \in Conferencias \cup {Nenhum} /\ Nenhum \notin Conferencias
  BY ConferenciasAssumption DEF ApagarAvaria, IInv, TypeOK, Relatos
<1>1. u \in Tarefas /\ u.op = "apagar"
  BY LivreServe DEF Tarefas, Ops
<1>2. r = [w EXCEPT !.conf = c]
  OBVIOUS
<1>3. /\ Comecar(p, r)
      /\ \A q \in Pedidos \ {p} : pedido[q].avaria # a
      /\ c \in Conferencias =>
            /\ conferencia[c].estado # "fechada"
            /\ \A q \in Pedidos \ {p} : pedido[q].conf = c => pedido[q].op \notin {"fechar"}
  BY <1>0 DEF ApagarAvaria, TravarConferencia
<1>4. \A q \in Pedidos : pedido[q].op = "fechar" => pedido[q].conf \in Conferencias
  BY DEF IInv, Guardados, Guardado
<1> HIDE DEF u
<1>5. w \in Tarefas /\ w.op = "apagar" /\ w.avaria = a
  BY <1>1 DEF Tarefas
<1> HIDE DEF w
<1>6. r \in Tarefas /\ r.op = "apagar" /\ r.avaria = a /\ r.conf = c
  BY <1>0, <1>2, <1>5 DEF Tarefas
<1> HIDE DEF r
<1>7. Guardado(r)
  BY <1>0, <1>3, <1>6 DEF Guardado
<1>8. \A q \in Pedidos \ {p} : Sozinhos(r, pedido[q]) /\ Sozinhos(pedido[q], r)
  BY <1>0, <1>3, <1>4, <1>6 DEF Sozinhos, EmLote
<1>9. QED
  BY <1>3, <1>6, <1>7, <1>8, Comeca DEF ApagarAvaria, EmLote

----------------------------------------------------------------------------
(* The commits.                                                            *)

LEMMA PassoGravarCopia ==
    ASSUME IInv, NEW p \in Pedidos, NEW k \in Quantidades, GravarCopia(p, k)
    PROVE  IInv'
<1>1. /\ pedido[p].op \in EmLote /\ Terminar(p)
      /\ custo' = custo /\ conferencia' = conferencia /\ avaria' = avaria
      /\ ~HaAberta /\ ~HaAberta'
  BY DEF GravarCopia, IInv, CopiaSemContagem, HaAberta
<1>2. \A q \in Pedidos \ {p} : pedido[q].op # "abrir"
  BY <1>1 DEF IInv, Separados, Sozinhos
<1>3. /\ pedido' \in [Pedidos -> Tarefas] /\ pedido'[p] = Livre /\ Separados' /\ Guardado(Livre)'
      /\ \A q \in Pedidos \ {p} : pedido'[q] = pedido[q]
  BY <1>1, Termina
<1>4. colocacao' \in [Bens -> Postos \cup {Nenhum}]
  <2> DEFINE g(b) == IF b \in pedido[p].bens \ Colocados THEN [qtd |-> k, via |-> "copia"] ELSE colocacao[b]
  <2>1. \A b \in Bens : g(b) \in Postos \cup {Nenhum}
    BY DEF Postos, IInv, TypeOK
  <2>2. colocacao' = [b \in Bens |-> g(b)]
    BY DEF GravarCopia
  <2> HIDE DEF g
  <2>3. QED
    BY <2>1, <2>2
<1>5. TypeOK'
  BY <1>1, <1>3, <1>4 DEF IInv, TypeOK
<1>6. Guardados'
  <2>1. \A q \in Pedidos \ {p} : Guardado(pedido[q])'
    BY <1>1, <1>3 DEF IInv, Guardados, Guardado
  <2>2. QED
    BY <1>3, <2>1 DEF Guardados, Guardado
<1>7. CopiaSemContagem' /\ ContagemVeACopia' /\ Escrita'
  BY <1>1, <1>2, <1>3, LivreServe DEF CopiaSemContagem, ContagemVeACopia, HaAberta, Escrita
<1>8. NascidaDeFechada' /\ FaltaViraUmaAvaria'
  BY <1>1 DEF IInv, NascidaDeFechada, FaltaViraUmaAvaria
<1>9. QED
  BY <1>3, <1>5, <1>6, <1>7, <1>8 DEF IInv

LEMMA PassoGravarAbertura ==
    ASSUME IInv, NEW p \in Pedidos, GravarAbertura(p)
    PROVE  IInv'
<1>1. PICK c \in Conferencias : c = pedido[p].conf /\ conferencia[c].estado = "ausente"
  BY DEF GravarAbertura, IInv, Guardados, Guardado
<1> DEFINE L == pedido[p].linhas
           n == [estado |-> "aberta", linhas |-> L, abriu |-> FALSE]
<1>2. /\ pedido[p].op = "abrir" /\ Terminar(p) /\ conferencia' = [conferencia EXCEPT ![c] = n]
      /\ colocacao' = colocacao /\ custo' = custo /\ avaria' = avaria
      /\ conferencia \in [Conferencias -> Contagens] /\ L \in Folhas
  BY <1>1 DEF GravarAbertura, IInv, TypeOK, Tarefas
<1>3. n \in Contagens /\ n.estado = "aberta" /\ n.linhas = L
  BY <1>2 DEF Contagens
<1>4. \A q \in Pedidos \ {p} : pedido[q].op # "abrir" /\ pedido[q].op \notin EmLote
  BY <1>2 DEF IInv, Separados, Sozinhos
<1>5. \A b \in Colocados : colocacao[b].via = "copia" => b \in DOMAIN L
  BY <1>2 DEF IInv, Escrita
<1> HIDE DEF n, L
<1>6. /\ conferencia' \in [Conferencias -> Contagens] /\ conferencia'[c] = n
      /\ \A x \in Conferencias \ {c} : conferencia'[x] = conferencia[x]
  BY <1>2, <1>3
<1>7. /\ pedido' \in [Pedidos -> Tarefas] /\ pedido'[p] = Livre /\ Separados' /\ Guardado(Livre)'
      /\ \A q \in Pedidos \ {p} : pedido'[q] = pedido[q]
  BY <1>2, Termina
<1>8. TypeOK'
  BY <1>2, <1>6, <1>7 DEF IInv, TypeOK
<1>9. Guardados'
  <2>1. ASSUME NEW q \in Pedidos \ {p} PROVE Guardado(pedido[q])'
    <3>1. Guardado(pedido[q]) /\ pedido'[q] = pedido[q] /\ pedido[q].op # "abrir"
      BY <1>4, <1>7 DEF IInv, Guardados
    <3>2. QED
      BY <1>1, <1>2, <1>3, <1>6, <3>1 DEF Guardado
  <2>2. QED
    BY <1>7, <2>1 DEF Guardados, Guardado
<1>10. CopiaSemContagem' /\ Escrita'
  BY <1>4, <1>7, LivreServe DEF CopiaSemContagem, Escrita, EmLote
<1>11. NascidaDeFechada' /\ FaltaViraUmaAvaria'
  BY <1>1, <1>2, <1>3, <1>6 DEF IInv, NascidaDeFechada, FaltaViraUmaAvaria
<1>12. ContagemVeACopia'
  BY <1>2, <1>3, <1>5, <1>6 DEF IInv, ContagemVeACopia, Colocados
<1>13. QED
  BY <1>7, <1>8, <1>9, <1>10, <1>11, <1>12 DEF IInv

LEMMA PassoGravarContagem ==
    ASSUME IInv, NEW p \in Pedidos, NEW k \in Quantidades \cup {Nenhum}, GravarContagem(p, k)
    PROVE  IInv'
<1>1. PICK c \in Conferencias : /\ c = pedido[p].conf /\ conferencia[c].estado = "aberta"
                                /\ pedido[p].bem \in DOMAIN conferencia[c].linhas
  BY DEF GravarContagem, IInv, Guardados, Guardado
<1> DEFINE b == pedido[p].bem
           L == conferencia[c].linhas
           l == [L[b] EXCEPT !.contada = k]
           M == [L EXCEPT ![b] = l]
           n == [conferencia[c] EXCEPT !.linhas = M]
<1>2. /\ Terminar(p) /\ conferencia' = [conferencia EXCEPT ![c] = n]
      /\ colocacao' = colocacao /\ custo' = custo /\ avaria' = avaria
      /\ conferencia \in [Conferencias -> Contagens] /\ conferencia[c] \in Contagens
  BY <1>1 DEF GravarContagem, IInv, TypeOK
<1>3. M \in Folhas /\ DOMAIN M = DOMAIN L
  <2>1. L \in Folhas
    BY <1>2 DEF Contagens
  <2>2. PICK F \in SUBSET Bens : L \in [F -> Linha]
    BY <2>1 DEF Folhas
  <2>3. b \in F
    BY <1>1, <2>2
  <2>4. l \in Linha
    BY <2>2, <2>3 DEF Linha
  <2> HIDE DEF l, L, b
  <2>5. M \in [F -> Linha] /\ DOMAIN M = DOMAIN L
    BY <2>2, <2>3, <2>4
  <2>6. QED
    BY <2>5 DEF Folhas
<1> HIDE DEF M
<1>4. n \in Contagens /\ n.estado = "aberta" /\ n.linhas = M
  BY <1>1, <1>2, <1>3 DEF Contagens
<1> HIDE DEF n
<1>5. /\ conferencia' \in [Conferencias -> Contagens] /\ conferencia'[c] = n
      /\ \A x \in Conferencias \ {c} : conferencia'[x] = conferencia[x]
  BY <1>2, <1>4
<1>6. /\ pedido' \in [Pedidos -> Tarefas] /\ pedido'[p] = Livre /\ Separados' /\ Guardado(Livre)'
      /\ \A q \in Pedidos \ {p} : pedido'[q] = pedido[q]
  BY <1>2, Termina
<1>7. \A x \in Conferencias : /\ conferencia'[x].estado = conferencia[x].estado
                              /\ DOMAIN conferencia'[x].linhas = DOMAIN conferencia[x].linhas
                              /\ conferencia[x].estado = "fechada" => conferencia'[x] = conferencia[x]
  BY <1>1, <1>3, <1>4, <1>5
<1>8. TypeOK'
  BY <1>2, <1>5, <1>6 DEF IInv, TypeOK
<1>9. Guardados'
  <2>1. ASSUME NEW q \in Pedidos \ {p} PROVE Guardado(pedido[q])'
    <3>1. Guardado(pedido[q]) /\ pedido'[q] = pedido[q]
      BY <1>6 DEF IInv, Guardados
    <3>2. QED
      BY <1>2, <1>7, <3>1 DEF Guardado
  <2>2. QED
    BY <1>6, <2>1 DEF Guardados, Guardado
<1>10. CopiaSemContagem' /\ Escrita'
  BY <1>2, <1>6, <1>7, LivreServe DEF IInv, CopiaSemContagem, HaAberta, Escrita, EmLote, Colocados
<1>11. NascidaDeFechada' /\ FaltaViraUmaAvaria'
  BY <1>2, <1>7 DEF IInv, NascidaDeFechada, FaltaViraUmaAvaria
<1>12. ContagemVeACopia'
  BY <1>2, <1>7 DEF IInv, ContagemVeACopia, Colocados
<1>13. QED
  BY <1>6, <1>8, <1>9, <1>10, <1>11, <1>12 DEF IInv

LEMMA PassoCancelar ==
    ASSUME IInv, NEW p \in Pedidos, NEW c \in Conferencias, CancelarConferencia(p, c)
    PROVE  IInv'
<1> DEFINE n == [Ausente EXCEPT !.estado = "cancelada"]
<1>1. /\ conferencia[c].estado = "aberta" /\ conferencia' = [conferencia EXCEPT ![c] = n]
      /\ colocacao' = colocacao /\ custo' = custo /\ avaria' = avaria /\ pedido' = pedido
      /\ conferencia \in [Conferencias -> Contagens] /\ pedido[p] = Livre
      /\ \A q \in Pedidos \ {p} : pedido[q].conf = c => pedido[q].op \notin {"fechar", "contar", "apagar"}
  BY DEF CancelarConferencia, TravarConferencia, IInv, TypeOK
<1>2. Ausente \in Contagens
  <2>1. Vazio \in [{} -> Linha]
    BY DEF Vazio
  <2>2. Vazio \in Folhas
    BY <2>1 DEF Folhas
  <2>3. QED
    BY <2>2 DEF Ausente, Contagens
<1>3. n \in Contagens /\ n.estado = "cancelada"
  BY <1>2 DEF Contagens
<1> HIDE DEF n
<1>4. /\ conferencia' \in [Conferencias -> Contagens] /\ conferencia'[c] = n
      /\ \A x \in Conferencias \ {c} : conferencia'[x] = conferencia[x]
  BY <1>1, <1>3
<1>5. TypeOK' /\ Separados'
  BY <1>1, <1>4 DEF IInv, TypeOK, Separados
<1>6. Guardados'
  <2>1. ASSUME NEW q \in Pedidos PROVE Guardado(pedido[q])'
    <3>1. Guardado(pedido[q]) /\ (pedido[q].conf = c => pedido[q].op \notin {"fechar", "contar", "apagar"})
      BY <1>1, LivreServe DEF IInv, Guardados
    <3>2. pedido[q].op = "abrir" => pedido[q].conf # c
      BY <1>1, <3>1 DEF Guardado
    <3>3. QED
      BY <1>1, <1>3, <1>4, <3>1, <3>2 DEF Guardado
  <2>2. QED
    BY <1>1, <2>1 DEF Guardados, Guardado
<1>7. CopiaSemContagem' /\ Escrita'
  BY <1>1, <1>3, <1>4 DEF IInv, CopiaSemContagem, HaAberta, Escrita, Colocados
<1>8. NascidaDeFechada' /\ FaltaViraUmaAvaria'
  BY <1>1, <1>3, <1>4 DEF IInv, NascidaDeFechada, FaltaViraUmaAvaria
<1>9. ContagemVeACopia'
  BY <1>1, <1>3, <1>4 DEF IInv, ContagemVeACopia, Colocados
<1>10. QED
  BY <1>5, <1>6, <1>7, <1>8, <1>9 DEF IInv

\* The reports that say one good was counted short in one count.
Faltou(c, b) == {a \in Avarias : avaria[a] = [conf |-> c, bem |-> b, nascida |-> TRUE]}

LEMMA PassoFechamento ==
    ASSUME IInv, NEW p \in Pedidos, NEW novas, GravarFechamento(p, novas)
    PROVE  IInv'
<1>1. PICK c \in Conferencias : c = pedido[p].conf /\ conferencia[c].estado = "aberta"
  BY DEF GravarFechamento, IInv, Guardados, Guardado
<1> DEFINE L == pedido[p].linhas
           s == pedido[p].abriu
           F == IF s THEN Faltas(L) ELSE {}
           n == [estado |-> "fechada", linhas |-> L, abriu |-> s]
           nasce(b) == [conf |-> c, bem |-> b, nascida |-> TRUE]
           g(a) == IF \E b \in F : novas[b] = a THEN nasce(CHOOSE b \in F : novas[b] = a) ELSE avaria[a]
<1>2. /\ pedido[p].op = "fechar" /\ Terminar(p) /\ conferencia' = [conferencia EXCEPT ![c] = n]
      /\ colocacao' = colocacao /\ custo' = custo
      /\ novas \in Injection(F, {a \in Avarias : avaria[a] = Nenhum})
      /\ avaria' = [a \in Avarias |-> g(a)]
  BY <1>1 DEF GravarFechamento
<1>3. L \in Folhas /\ s \in BOOLEAN /\ F \subseteq Bens
      /\ conferencia \in [Conferencias -> Contagens] /\ avaria \in [Avarias -> Relatos \cup {Nenhum}]
  <2>1. L \in Folhas /\ s \in BOOLEAN
    BY DEF IInv, TypeOK, Tarefas
  <2>2. DOMAIN L \subseteq Bens
    BY <2>1 DEF Folhas
  <2>3. QED
    BY <2>1, <2>2 DEF Faltas, IInv, TypeOK
<1>4. n \in Contagens /\ n.estado = "fechada" /\ n.linhas = L /\ n.abriu = s
  BY <1>3 DEF Contagens
<1>5. \A b \in F : novas[b] \in Avarias /\ avaria[novas[b]] = Nenhum
                   /\ \A x \in F : novas[b] = novas[x] => b = x
  BY <1>2 DEF Injection, IsInjective
<1>6. \A b \in F : g(novas[b]) = nasce(b)
  <2> SUFFICES ASSUME NEW b \in F PROVE (CHOOSE x \in F : novas[x] = novas[b]) = b
    OBVIOUS
  <2>1. QED
    BY <1>5
<1>7. \A a \in Avarias : (\A b \in F : novas[b] # a) => g(a) = avaria[a]
  OBVIOUS
<1>8. \A b \in F : nasce(b) \in Relatos /\ nasce(b).conf = c /\ nasce(b).bem = b /\ nasce(b).nascida
  BY <1>3 DEF Relatos
<1>9. \A a \in Avarias : avaria'[a] = g(a)
  BY <1>2
<1>0. F = IF s THEN Faltas(L) ELSE {}
  OBVIOUS
<1> HIDE DEF n, L, s, F, g, nasce
<1>10. /\ \A b \in F : avaria'[novas[b]] = nasce(b)
       /\ \A a \in Avarias : (\A b \in F : novas[b] # a) => avaria'[a] = avaria[a]
       /\ \A a \in Avarias : avaria[a] # Nenhum => avaria'[a] = avaria[a]
  BY <1>5, <1>6, <1>7, <1>9
<1>11. avaria' \in [Avarias -> Relatos \cup {Nenhum}]
  <2>1. \A a \in Avarias : avaria'[a] \in Relatos \cup {Nenhum}
    <3> SUFFICES ASSUME NEW a \in Avarias PROVE avaria'[a] \in Relatos \cup {Nenhum}
      OBVIOUS
    <3>1. CASE \E b \in F : novas[b] = a
      BY <3>1, <1>8, <1>10
    <3>2. CASE \A b \in F : novas[b] # a
      BY <3>2, <1>3, <1>10
    <3>3. QED
      BY <3>1, <3>2
  <2>2. QED
    BY <2>1, <1>2
<1>12. /\ conferencia' \in [Conferencias -> Contagens] /\ conferencia'[c] = n
       /\ \A x \in Conferencias \ {c} : conferencia'[x] = conferencia[x]
  BY <1>2, <1>3, <1>4
<1>13. /\ pedido' \in [Pedidos -> Tarefas] /\ pedido'[p] = Livre /\ Separados' /\ Guardado(Livre)'
       /\ \A q \in Pedidos \ {p} : pedido'[q] = pedido[q]
  BY <1>2, Termina
<1>14. TypeOK'
  BY <1>2, <1>11, <1>12, <1>13 DEF IInv, TypeOK
<1>15. Guardados'
  <2>1. ASSUME NEW q \in Pedidos \ {p} PROVE Guardado(pedido[q])'
    <3>1. Guardado(pedido[q]) /\ pedido'[q] = pedido[q]
      BY <1>13 DEF IInv, Guardados
    <3>2. pedido[q].op \in {"fechar", "contar", "apagar"} => pedido[q].conf # c
      BY <1>1, <1>2 DEF IInv, Separados, Sozinhos
    <3>3. pedido[q].op = "abrir" => pedido[q].conf # c
      BY <1>1, <3>1 DEF Guardado
    <3>4. pedido[q].op = "apagar" => avaria'[pedido[q].avaria] = avaria[pedido[q].avaria]
      BY <1>10, <3>1 DEF Guardado
    <3>5. QED
      BY <1>12, <3>1, <3>2, <3>3, <3>4 DEF Guardado
  <2>2. QED
    BY <1>13, <2>1 DEF Guardados, Guardado
<1>16. CopiaSemContagem' /\ Escrita'
  BY <1>1, <1>2, <1>4, <1>12, <1>13, LivreServe
     DEF IInv, CopiaSemContagem, HaAberta, Escrita, EmLote, Colocados
<1>17. NascidaDeFechada'
  <2> SUFFICES ASSUME NEW a \in Avarias, avaria'[a] # Nenhum, avaria'[a].nascida
               PROVE  avaria'[a].conf \in Conferencias /\ conferencia'[avaria'[a].conf].estado = "fechada"
    BY DEF NascidaDeFechada
  <2>1. CASE \E b \in F : novas[b] = a
    BY <2>1, <1>4, <1>8, <1>10, <1>12
  <2>2. CASE \A b \in F : novas[b] # a
    BY <2>2, <1>1, <1>10, <1>12 DEF IInv, NascidaDeFechada
  <2>3. QED
    BY <2>1, <2>2
<1>18. FaltaViraUmaAvaria'
  <2> SUFFICES ASSUME NEW x \in Conferencias, conferencia'[x].estado = "fechada", NEW b \in Bens
               PROVE  Cardinality(Faltou(x, b)')
                        = IF conferencia'[x].abriu /\ b \in Faltas(conferencia'[x].linhas) THEN 1 ELSE 0
    BY DEF FaltaViraUmaAvaria, Faltou
  <2> DEFINE R == [conf |-> x, bem |-> b, nascida |-> TRUE]
  <2>0. R \in Relatos /\ R # Nenhum /\ R.conf = x /\ R.bem = b /\ R.nascida
    <3>1. R \in Relatos
      BY DEF Relatos
    <3>2. Nenhum \notin Relatos
      BY ConferenciasAssumption
    <3>3. QED
      BY <3>1, <3>2
  <2>1. CASE x # c
    <3>1. \A y \in F : nasce(y) # R
      BY <2>1, <2>0, <1>8
    <3>2. ASSUME NEW a \in Avarias PROVE avaria'[a] = R <=> avaria[a] = R
      <4>1. CASE \E y \in F : novas[y] = a
        BY <4>1, <3>1, <2>0, <1>5, <1>10
      <4>2. CASE \A y \in F : novas[y] # a
        BY <4>2, <1>10
      <4>3. QED
        BY <4>1, <4>2
    <3>3. Faltou(x, b)' = Faltou(x, b)
      BY <3>2 DEF Faltou
    <3>4. conferencia'[x] = conferencia[x]
      BY <2>1, <1>12
    <3>5. QED
      BY <3>3, <3>4 DEF IInv, FaltaViraUmaAvaria, Faltou
  <2>2. CASE x = c
    <3>1. \A a \in Avarias : avaria[a] # R
      BY <2>0, <2>2, <1>1 DEF IInv, NascidaDeFechada
    <3>2. CASE b \in F
      <4>1. Faltou(x, b)' = {novas[b]}
        <5>1. avaria'[novas[b]] = R /\ novas[b] \in Avarias
          BY <2>2, <3>2, <1>5, <1>10 DEF nasce
        <5>2. ASSUME NEW a \in Avarias, avaria'[a] = R PROVE a = novas[b]
          <6>1. PICK y \in F : novas[y] = a
            BY <3>1, <5>2, <1>10
          <6>2. nasce(y) = R
            BY <5>2, <6>1, <1>10
          <6>3. y = b
            BY <2>0, <6>2, <1>8
          <6>4. QED
            BY <6>1, <6>3
        <5>3. QED
          BY <5>1, <5>2 DEF Faltou
      <4>2. Cardinality(Faltou(x, b)') = 1
        BY <4>1, FS_Singleton
      <4>3. conferencia'[x].abriu /\ b \in Faltas(conferencia'[x].linhas)
        BY <2>2, <3>2, <1>0, <1>4, <1>12
      <4>4. QED
        BY <4>2, <4>3
    <3>3. CASE b \notin F
      <4>1. Faltou(x, b)' = {}
        <5>1. ASSUME NEW a \in Avarias, avaria'[a] = R PROVE FALSE
          <6>1. PICK y \in F : novas[y] = a
            BY <3>1, <5>1, <1>10
          <6>2. nasce(y) = R
            BY <5>1, <6>1, <1>10
          <6>3. QED
            BY <2>0, <3>3, <6>2, <1>8
        <5>2. QED
          BY <5>1 DEF Faltou
      <4>2. Cardinality(Faltou(x, b)') = 0
        BY <4>1, FS_EmptySet
      <4>3. ~(conferencia'[x].abriu /\ b \in Faltas(conferencia'[x].linhas))
        BY <2>2, <3>3, <1>0, <1>4, <1>12
      <4>4. QED
        BY <4>2, <4>3
    <3>4. QED
      BY <3>2, <3>3
  <2>3. QED
    BY <2>1, <2>2
<1>19. ContagemVeACopia'
  BY <1>2, <1>4, <1>12 DEF IInv, ContagemVeACopia, Colocados
<1>20. QED
  BY <1>13, <1>14, <1>15, <1>16, <1>17, <1>18, <1>19 DEF IInv

LEMMA PassoCriarAvaria ==
    ASSUME IInv, NEW p \in Pedidos, NEW b \in Bens,
           NEW c \in Conferencias \cup {Nenhum}, CriarAvaria(p, b, c)
    PROVE  IInv'
<1> DEFINE n == [conf |-> c, bem |-> b, nascida |-> FALSE]
<1>1. PICK a \in Avarias : avaria[a] = Nenhum /\ avaria' = [avaria EXCEPT ![a] = n]
  BY DEF CriarAvaria
<1>2. n \in Relatos /\ n.nascida = FALSE
  BY DEF Relatos
<1>3. /\ avaria \in [Avarias -> Relatos \cup {Nenhum}]
      /\ colocacao' = colocacao /\ custo' = custo /\ conferencia' = conferencia /\ pedido' = pedido
  BY DEF CriarAvaria, IInv, TypeOK
<1> HIDE DEF n
<1>4. /\ avaria' \in [Avarias -> Relatos \cup {Nenhum}] /\ avaria'[a] = n
      /\ \A x \in Avarias \ {a} : avaria'[x] = avaria[x]
  BY <1>1, <1>2, <1>3
<1>5. TypeOK' /\ Separados' /\ CopiaSemContagem' /\ Escrita' /\ ContagemVeACopia'
  BY <1>3, <1>4 DEF IInv, TypeOK, Separados, CopiaSemContagem, HaAberta, Escrita, ContagemVeACopia, Colocados
<1>6. Guardados'
  <2>1. ASSUME NEW q \in Pedidos PROVE Guardado(pedido[q])'
    BY <1>1, <1>3, <1>4 DEF IInv, Guardados, Guardado
  <2>2. QED
    BY <1>3, <2>1 DEF Guardados, Guardado
<1>7. NascidaDeFechada'
  BY <1>2, <1>3, <1>4 DEF IInv, NascidaDeFechada
<1>8. FaltaViraUmaAvaria'
  <2> SUFFICES ASSUME NEW x \in Conferencias, NEW y \in Bens PROVE Faltou(x, y)' = Faltou(x, y)
    BY <1>3 DEF IInv, FaltaViraUmaAvaria, Faltou
  <2> DEFINE R == [conf |-> x, bem |-> y, nascida |-> TRUE]
  <2>1. R \in Relatos /\ R.nascida = TRUE
    BY DEF Relatos
  <2>2. R # n /\ R # Nenhum
    BY <1>2, <2>1, ConferenciasAssumption
  <2>3. \A z \in Avarias : avaria'[z] = R <=> avaria[z] = R
    BY <1>1, <1>4, <2>2
  <2>4. QED
    BY <2>3 DEF Faltou
<1>9. QED
  BY <1>5, <1>6, <1>7, <1>8 DEF IInv

LEMMA PassoGravarExclusao ==
    ASSUME IInv, NEW p \in Pedidos, GravarExclusao(p)
    PROVE  IInv'
<1>1. PICK a \in Avarias : /\ a = pedido[p].avaria /\ avaria[a] # Nenhum
                           /\ avaria[a].conf \in Conferencias =>
                                 conferencia[avaria[a].conf].estado # "fechada"
  BY DEF GravarExclusao, IInv, Guardados, Guardado
<1>2. /\ pedido[p].op = "apagar" /\ Terminar(p) /\ avaria' = [avaria EXCEPT ![a] = Nenhum]
      /\ colocacao' = colocacao /\ custo' = custo /\ conferencia' = conferencia
      /\ avaria \in [Avarias -> Relatos \cup {Nenhum}]
  BY <1>1 DEF GravarExclusao, IInv, TypeOK
<1>3. /\ avaria' \in [Avarias -> Relatos \cup {Nenhum}] /\ avaria'[a] = Nenhum
      /\ \A x \in Avarias \ {a} : avaria'[x] = avaria[x]
  BY <1>2
<1>4. /\ pedido' \in [Pedidos -> Tarefas] /\ pedido'[p] = Livre /\ Separados' /\ Guardado(Livre)'
      /\ \A q \in Pedidos \ {p} : pedido'[q] = pedido[q]
  BY <1>2, Termina
<1>5. TypeOK'
  BY <1>2, <1>3, <1>4 DEF IInv, TypeOK
<1>6. Guardados'
  <2>1. ASSUME NEW q \in Pedidos \ {p} PROVE Guardado(pedido[q])'
    <3>1. Guardado(pedido[q]) /\ pedido'[q] = pedido[q]
      BY <1>4 DEF IInv, Guardados
    <3>2. pedido[q].op = "apagar" => pedido[q].avaria # a
      BY <1>1, <1>2 DEF IInv, Separados, Sozinhos
    <3>3. QED
      BY <1>2, <1>3, <3>1, <3>2 DEF Guardado
  <2>2. QED
    BY <1>4, <2>1 DEF Guardados, Guardado
<1>7. CopiaSemContagem' /\ Escrita' /\ ContagemVeACopia'
  BY <1>2, <1>4, LivreServe DEF IInv, CopiaSemContagem, HaAberta, Escrita, ContagemVeACopia, Colocados, EmLote
<1>8. NascidaDeFechada'
  BY <1>2, <1>3 DEF IInv, NascidaDeFechada
<1>9. FaltaViraUmaAvaria'
  <2> SUFFICES ASSUME NEW x \in Conferencias, conferencia[x].estado = "fechada", NEW y \in Bens
               PROVE  Faltou(x, y)' = Faltou(x, y)
    BY <1>2 DEF IInv, FaltaViraUmaAvaria, Faltou
  <2> DEFINE R == [conf |-> x, bem |-> y, nascida |-> TRUE]
  <2>1. R \in Relatos /\ R.conf = x
    BY DEF Relatos
  <2>2. R # Nenhum
    BY <2>1, ConferenciasAssumption
  <2>3. avaria[a] # R
    BY <1>1, <2>1
  <2>4. \A z \in Avarias : avaria'[z] = R <=> avaria[z] = R
    BY <1>3, <2>2, <2>3
  <2>5. QED
    BY <2>4 DEF Faltou
<1>10. QED
  BY <1>4, <1>5, <1>6, <1>7, <1>8, <1>9 DEF IInv

----------------------------------------------------------------------------
(* The invariant.                                                          *)

LEMMA Inicio == Init => IInv
<1> SUFFICES ASSUME Init PROVE IInv
  OBVIOUS
<1>1. Ausente \in Contagens /\ Ausente.estado = "ausente"
  <2>1. Vazio \in [{} -> Linha]
    BY DEF Vazio
  <2>2. Vazio \in Folhas
    BY <2>1 DEF Folhas
  <2>3. QED
    BY <2>2 DEF Ausente, Contagens
<1>2. TypeOK
  BY <1>1, LivreServe DEF Init, TypeOK
<1>3. Guardados /\ Separados
  BY LivreServe DEF Init, Guardados, Guardado, Separados, Sozinhos, EmLote
<1>4. CopiaSemContagem /\ Escrita /\ NascidaDeFechada /\ ContagemVeACopia
  BY <1>1, LivreServe DEF Init, CopiaSemContagem, Escrita, NascidaDeFechada, ContagemVeACopia, EmLote, Colocados
<1>5. FaltaViraUmaAvaria
  BY <1>1 DEF Init, FaltaViraUmaAvaria
<1>6. QED
  BY <1>2, <1>3, <1>4, <1>5 DEF IInv

LEMMA Passo == IInv /\ [Next]_vars => IInv'
<1> SUFFICES ASSUME IInv, [Next]_vars PROVE IInv'
  OBVIOUS
<1>1. CASE UNCHANGED vars
  BY <1>1 DEF vars, IInv, TypeOK, Guardados, Guardado, Separados, CopiaSemContagem, HaAberta, Escrita,
              NascidaDeFechada, FaltaViraUmaAvaria, ContagemVeACopia, Colocados
<1>2. CASE Catalogo
  BY <1>2, PassoCatalogo
<1>3. ASSUME NEW p \in Pedidos, Copia(p) PROVE IInv'
  BY <1>3, PassoPlanejar, PassoGravarCopia DEF Copia, CopiarInventario, Importar, EmLote
<1>4. ASSUME NEW p \in Pedidos, Contagem(p) PROVE IInv'
  BY <1>4, PassoGravarAbertura, PassoGravarContagem, PassoFechamento, PassoAbrir, PassoContar,
     PassoFechar, PassoCancelar DEF Contagem
<1>5. ASSUME NEW p \in Pedidos, Relato(p) PROVE IInv'
  BY <1>5, PassoCriarAvaria, PassoApagar, PassoGravarExclusao DEF Relato
<1>6. ASSUME NEW p \in Pedidos, Cair(p) PROVE IInv'
  BY <1>6, PassoCair
<1>7. QED
  BY <1>1, <1>2, <1>3, <1>4, <1>5, <1>6 DEF Next

\* A closed count has exactly one report for each shortage it was asked to open,
\* whoever else closes it, counts it or erases reports at the same time.
THEOREM CadaFaltaUmaAvaria == Spec => []FaltaViraUmaAvaria
<1>1. IInv => FaltaViraUmaAvaria
  BY DEF IInv
<1>2. QED
  BY <1>1, Inicio, Passo, PTL DEF Spec

\* Nothing brought in bulk is behind an open count.
THEOREM ContagemSempreVe == Spec => []ContagemVeACopia
<1>1. IInv => ContagemVeACopia
  BY DEF IInv
<1>2. QED
  BY <1>1, Inicio, Passo, PTL DEF Spec

----------------------------------------------------------------------------
(* What was found is not changed.                                          *)

\* What a closed count found, and the reports that cite it, never change again.
THEOREM FechadaNaoMuda == Spec => ApuracaoCongelada
<1>1. IInv /\ [Next]_vars => [FechadaFica]_vars
  <2> SUFFICES ASSUME IInv, Next, NEW c \in Conferencias, conferencia[c].estado = "fechada"
               PROVE  /\ conferencia'[c] = conferencia[c]
                      /\ \A a \in Avarias : avaria[a] # Nenhum /\ avaria[a].conf = c
                            => avaria'[a] = avaria[a]
    BY DEF FechadaFica
  <2> DEFINE Q == /\ conferencia'[c] = conferencia[c]
                  /\ \A a \in Avarias : avaria[a] # Nenhum /\ avaria[a].conf = c
                        => avaria'[a] = avaria[a]
  <2>0. /\ conferencia \in [Conferencias -> Contagens] /\ avaria \in [Avarias -> Relatos \cup {Nenhum}]
        /\ \A p \in Pedidos : Guardado(pedido[p])
    BY DEF IInv, TypeOK, Guardados
  <2>1. CASE Catalogo
    BY <2>1 DEF Catalogo, CriarColocacao, GravarColocacao, ApagarColocacao, GravarBem
  <2>2. ASSUME NEW p \in Pedidos, Copia(p) PROVE Q
    BY <2>2 DEF Copia, CopiarInventario, Importar, PlanejarCopia, GravarCopia
  <2>3. ASSUME NEW p \in Pedidos, Contagem(p) PROVE Q
    <3>1. CASE GravarAbertura(p)
      <4>1. pedido[p].conf # c /\ avaria' = avaria
        BY <2>0, <3>1 DEF GravarAbertura, Guardado
      <4>2. QED
        BY <2>0, <3>1, <4>1 DEF GravarAbertura
    <3>2. ASSUME NEW k, GravarContagem(p, k) PROVE Q
      <4>1. pedido[p].conf # c /\ avaria' = avaria
        BY <2>0, <3>2 DEF GravarContagem, Guardado
      <4>2. QED
        BY <2>0, <3>2, <4>1 DEF GravarContagem
    <3>3. ASSUME NEW f, GravarFechamento(p, f) PROVE Q
      <4> DEFINE x == pedido[p].conf
                 faltas == IF pedido[p].abriu THEN Faltas(pedido[p].linhas) ELSE {}
                 g(a) == IF \E b \in faltas : f[b] = a
                         THEN [conf |-> x, bem |-> CHOOSE b \in faltas : f[b] = a, nascida |-> TRUE]
                         ELSE avaria[a]
      <4>1. x # c /\ conferencia'[c] = conferencia[c]
        BY <2>0, <3>3 DEF GravarFechamento, Guardado
      <4>2. \A b \in faltas : avaria[f[b]] = Nenhum
        BY <3>3 DEF GravarFechamento, Injection
      <4>3. avaria' = [a \in Avarias |-> g(a)]
        BY <3>3 DEF GravarFechamento
      <4>4. \A a \in Avarias : (\A b \in faltas : f[b] # a) => g(a) = avaria[a]
        OBVIOUS
      <4> HIDE DEF g, faltas
      <4>5. \A a \in Avarias : avaria[a] # Nenhum => avaria'[a] = avaria[a]
        BY <4>2, <4>3, <4>4
      <4>6. QED
        BY <4>1, <4>5
    <3>4. ASSUME NEW x \in Conferencias, CancelarConferencia(p, x) PROVE Q
      BY <2>0, <3>4 DEF CancelarConferencia
    <3>5. ASSUME NEW x \in Conferencias,
                 \/ AbrirConferencia(p, x)
                 \/ \E b \in Bens : ContarLinha(p, x, b)
                 \/ \E abrirAvarias \in BOOLEAN : FecharConferencia(p, x, abrirAvarias)
          PROVE  Q
      BY <3>5 DEF AbrirConferencia, ContarLinha, FecharConferencia
    <3> HIDE DEF Q
    <3>6. QED
      BY <2>3, <3>1, <3>2, <3>3, <3>4, <3>5 DEF Contagem
  <2>4. ASSUME NEW p \in Pedidos, Relato(p) PROVE Q
    <3>1. ASSUME NEW b \in Bens, NEW x \in Conferencias \cup {Nenhum}, CriarAvaria(p, b, x) PROVE Q
      BY <2>0, <3>1 DEF CriarAvaria
    <3>2. ASSUME NEW a \in Avarias, ApagarAvaria(p, a) PROVE Q
      BY <3>2 DEF ApagarAvaria
    <3>3. CASE GravarExclusao(p)
      <4>1. avaria[pedido[p].avaria].conf # c
        BY <2>0, <3>3 DEF GravarExclusao, Guardado
      <4>2. QED
        BY <2>0, <3>3, <4>1 DEF GravarExclusao
    <3> HIDE DEF Q
    <3>4. QED
      BY <2>4, <3>1, <3>2, <3>3 DEF Relato
  <2>5. ASSUME NEW p \in Pedidos, Cair(p) PROVE Q
    BY <2>5 DEF Cair
  <2> HIDE DEF Q
  <2>6. Q
    BY <2>1, <2>2, <2>3, <2>4, <2>5 DEF Next, Q
  <2>7. QED
    BY <2>6 DEF Q
<1>2. QED
  BY <1>1, Inicio, Passo, PTL DEF Spec, ApuracaoCongelada
=============================================================================
