--------------------------- MODULE RepeticaoProofs ---------------------------
(***************************************************************************)
(* What holds of whatever reaches the server twice: of the sessions, for   *)
(* every set of users, families, tokens, links and concurrent requests;    *)
(* and of the idempotency keys and the public pre-booking built on them,   *)
(* for every set of requests, keys, owners and phones.                     *)
(***************************************************************************)
EXTENDS Sessoes, PreReserva, TLAPS

-----------------------------------------------------------------------------
(* Idempotency keys.  The service and the site hash the body differently,  *)
(* so a step is taken with any function from requests to hashes, and only  *)
(* the replies ask what that function tells apart.                         *)

PassoIdem(p, impressao) == Chegar(p) \/ Andar(p, impressao) \/ Perder(p)

NextCom(impressao) == \E p \in Pedidos : PassoIdem(p, impressao)

LEMMA PassoComOCorpo == NextIdem <=> NextCom(CorpoDe)
BY DEF NextIdem, NextCom, PassoIdem

-----------------------------------------------------------------------------
(* The types.                                                              *)

LEMMA LinhaEhLinha == \A p \in Pedidos : Linha(p) \in Linhas
BY DEF Linhas

LEMMA TiposIniciam == InitIdem => TypeOKIdem
BY IdempotenciaA, LinhaEhLinha
   DEF InitIdem, TypeOKIdem, Fases, Resposta, Sem

LEMMA TiposSeguem ==
    ASSUME NEW STATE impressao, TypeOKIdem, [NextCom(impressao)]_varsIdem
    PROVE  TypeOKIdem'
<1> USE IdempotenciaA, LinhaEhLinha
<1>1. CASE UNCHANGED varsIdem
  BY <1>1 DEF TypeOKIdem, varsIdem
<1>2. CASE NextCom(impressao)
  <2>1. PICK p \in Pedidos : PassoIdem(p, impressao)
    BY <1>2 DEF NextCom
  <2>2. CASE Chegar(p)
    BY <2>2 DEF TypeOKIdem, Chegar, Ir, Fases
  <2>3. CASE Perder(p)
    BY <2>3 DEF TypeOKIdem, Perder, Ir, Fases, Rollback
  <2>4. CASE Tomar(p)
    BY <2>4 DEF TypeOKIdem, Tomar, Ir, Fases
  <2>5. CASE Ler(p, impressao)
    BY <2>5 DEF TypeOKIdem, Ler, Concluir, Ir, Fases, Resposta, Sucesso, Sem
  <2>6. CASE Comitar(p)
    BY <2>6 DEF TypeOKIdem, Comitar, Publicar, Concluir, Ir, Fases, Resposta, Sucesso
  <2>7. CASE ComitarSemSaber(p)
    BY <2>7 DEF TypeOKIdem, ComitarSemSaber, Publicar, Concluir, Ir, Fases, Resposta, Sem
  <2>8. CASE Recusar(p)
    BY <2>8 DEF TypeOKIdem, Recusar, Concluir, Ir, Fases, Resposta, Sem, Rollback
  <2>9. CASE Contender(p)
    <3>1. CASE TemOrcamento(p)
      <4>1. /\ fase' = [fase EXCEPT ![p] = "aberta"]
            /\ tentativas' = [tentativas EXCEPT ![p] = tentativas[p] + 1]
            /\ UNCHANGED <<linhas, efeitos, resposta>>
        BY <2>9, <3>1 DEF Contender, ProximaTentativa, Ir, Rollback
      <4>2. tentativas[p] + 1 \in 1..MaxTentativas
        BY <3>1 DEF TypeOKIdem, TemOrcamento
      <4> QED
        BY <4>1, <4>2 DEF TypeOKIdem, Fases
    <3>2. CASE ~TemOrcamento(p)
      BY <2>9, <3>2 DEF TypeOKIdem, Contender, Concluir, Ir, Fases, Resposta, Sem, Rollback
    <3> QED
      BY <3>1, <3>2
  <2>10. CASE Entregar(p)
    BY <2>10 DEF TypeOKIdem, Entregar, Ir, Fases
  <2> QED
    BY <2>1, <2>2, <2>3, <2>4, <2>5, <2>6, <2>7, <2>8, <2>9, <2>10 DEF PassoIdem, Andar
<1> QED
  BY <1>1, <1>2

\* The columns and the counters keep their domains, the attempts their budget.
THEOREM TiposIdem == SpecIdem => []TypeOKIdem
<1>1. TypeOKIdem /\ [NextIdem]_varsIdem => TypeOKIdem'
  BY TiposSeguem, PassoComOCorpo
<1> QED
  BY <1>1, TiposIniciam, PTL DEF SpecIdem

-----------------------------------------------------------------------------
(* The key.  The strengthening: a transaction that has taken a key is the  *)
(* only one in flight with it, and finds it unspent until its own commit.  *)

PosseUnica ==
    \A p \in Pedidos :
        fase[p] = "trabalhando" =>
            /\ linhas[Linha(p)] = Nenhum
            /\ \A q \in Pedidos : fase[q] = "trabalhando" /\ Linha(q) = Linha(p) => q = p

\* A row keeps the reply of a request of its own key.
LinhaDoPedido ==
    \A l \in Linhas : linhas[l] # Nenhum => Linha(linhas[l]) = l

ChaveInv == TypeOKIdem /\ PosseUnica /\ LinhaDoPedido /\ ChaveSoComEfeito

LEMMA ChaveInicia == InitIdem => ChaveInv
<1> SUFFICES ASSUME InitIdem PROVE ChaveInv
  OBVIOUS
<1>1. PosseUnica /\ LinhaDoPedido
  BY DEF InitIdem, PosseUnica, LinhaDoPedido
<1>2. ChaveSoComEfeito
  BY IdempotenciaA, LinhaEhLinha DEF InitIdem, ChaveSoComEfeito
<1> QED
  BY <1>1, <1>2, TiposIniciam DEF ChaveInv

\* A step that publishes nothing and lets nobody into a key that is taken.
LEMMA SemPublicar ==
    ASSUME ChaveInv, linhas' = linhas, efeitos' = efeitos,
           \A q \in Pedidos : fase'[q] = "trabalhando" => fase[q] = "trabalhando"
    PROVE  PosseUnica' /\ LinhaDoPedido' /\ ChaveSoComEfeito'
BY DEF ChaveInv, PosseUnica, LinhaDoPedido, ChaveSoComEfeito, Linha, Linhas

LEMMA ChaveAoTomar ==
    ASSUME ChaveInv, NEW p \in Pedidos, Tomar(p)
    PROVE  PosseUnica' /\ LinhaDoPedido' /\ ChaveSoComEfeito'
<1>1. /\ fase' = [fase EXCEPT ![p] = "trabalhando"]
      /\ linhas' = linhas /\ efeitos' = efeitos
      /\ linhas[Linha(p)] = Nenhum
  BY DEF Tomar, Ir
<1>2. \A q \in Pedidos : fase[q] = "trabalhando" /\ Linha(q) = Linha(p) => q = p
  BY DEF Tomar, EmVoo
<1>3. \A q \in Pedidos : fase'[q] = "trabalhando" => q = p \/ fase[q] = "trabalhando"
  BY <1>1 DEF ChaveInv, TypeOKIdem
<1>4. PosseUnica'
  BY <1>1, <1>2, <1>3 DEF ChaveInv, PosseUnica, Linha
<1> QED
  BY <1>1, <1>4 DEF ChaveInv, LinhaDoPedido, ChaveSoComEfeito, Linha, Linhas

LEMMA ChaveAoPublicar ==
    ASSUME ChaveInv, NEW p \in Pedidos, Publicar(p), fase' = [fase EXCEPT ![p] = "concluida"]
    PROVE  PosseUnica' /\ LinhaDoPedido' /\ ChaveSoComEfeito'
<1> USE IdempotenciaA, LinhaEhLinha
<1>1. /\ fase[p] = "trabalhando"
      /\ efeitos' = efeitos \cup {p}
      /\ linhas' = [linhas EXCEPT ![Linha(p)] = p]
      /\ linhas[Linha(p)] = Nenhum
  BY DEF Publicar, ChaveInv, PosseUnica
<1>2. \A q \in Pedidos : fase'[q] = "trabalhando" => q # p /\ fase[q] = "trabalhando"
  BY DEF ChaveInv, TypeOKIdem
<1>3. \A q \in Pedidos : fase'[q] = "trabalhando" => Linha(q) # Linha(p)
  BY <1>1, <1>2 DEF ChaveInv, PosseUnica
<1>4. \A q \in Pedidos : Linha(q)' = Linha(q)
  BY DEF Linha
<1>5. /\ linhas'[Linha(p)] = p
      /\ \A l \in Linhas : l # Linha(p) => linhas'[l] = linhas[l]
  BY <1>1 DEF ChaveInv, TypeOKIdem
<1>6. PosseUnica'
  BY <1>2, <1>3, <1>4, <1>5 DEF ChaveInv, PosseUnica
<1>7. LinhaDoPedido'
  BY <1>4, <1>5 DEF ChaveInv, LinhaDoPedido, Linhas
<1>8. ASSUME NEW q \in Pedidos
      PROVE  (linhas'[Linha(q)] = q) <=> q \in efeitos'
  <2>1. CASE q = p
    BY <2>1, <1>1, <1>5
  <2>2. CASE q # p /\ Linha(q) = Linha(p)
    <3>1. q \notin efeitos
      BY <2>2, <1>1 DEF ChaveInv, ChaveSoComEfeito
    <3> QED
      BY <2>2, <3>1, <1>1, <1>5
  <2>3. CASE Linha(q) # Linha(p)
    BY <2>3, <1>1, <1>5 DEF ChaveInv, ChaveSoComEfeito
  <2> QED
    BY <2>1, <2>2, <2>3
<1> QED
  BY <1>4, <1>6, <1>7, <1>8 DEF ChaveSoComEfeito

LEMMA ChaveSegue ==
    ASSUME NEW STATE impressao, ChaveInv, [NextCom(impressao)]_varsIdem
    PROVE  ChaveInv'
<1>1. TypeOKIdem'
  BY TiposSeguem DEF ChaveInv
<1>2. PosseUnica' /\ LinhaDoPedido' /\ ChaveSoComEfeito'
  <2>1. CASE UNCHANGED varsIdem
    BY <2>1, SemPublicar DEF varsIdem
  <2>2. CASE NextCom(impressao)
    <3>1. PICK p \in Pedidos : PassoIdem(p, impressao)
      BY <2>2 DEF NextCom
    <3>2. CASE Tomar(p)
      BY <3>2, ChaveAoTomar
    <3>3. CASE Comitar(p) \/ ComitarSemSaber(p)
      BY <3>3, ChaveAoPublicar DEF Comitar, ComitarSemSaber, Concluir, Ir
    <3>4. CASE Chegar(p)
      BY <3>4, SemPublicar DEF Chegar, Ir, ChaveInv, TypeOKIdem
    <3>5. CASE Ler(p, impressao)
      BY <3>5, SemPublicar DEF Ler, Concluir, Ir, ChaveInv, TypeOKIdem
    <3>6. CASE Recusar(p)
      BY <3>6, SemPublicar DEF Recusar, Rollback, Concluir, Ir, ChaveInv, TypeOKIdem
    <3>7. CASE Contender(p)
      <4>1. /\ linhas' = linhas /\ efeitos' = efeitos
            /\ \/ fase' = [fase EXCEPT ![p] = "aberta"]
               \/ fase' = [fase EXCEPT ![p] = "concluida"]
        BY <3>7 DEF Contender, Rollback, Concluir, Ir
      <4> QED
        BY <4>1, SemPublicar DEF ChaveInv, TypeOKIdem
    <3>8. CASE Entregar(p)
      BY <3>8, SemPublicar DEF Entregar, Ir, ChaveInv, TypeOKIdem
    <3>9. CASE Perder(p)
      BY <3>9, SemPublicar DEF Perder, Rollback, Ir, ChaveInv, TypeOKIdem
    <3> QED
      BY <3>1, <3>2, <3>3, <3>4, <3>5, <3>6, <3>7, <3>8, <3>9 DEF PassoIdem, Andar
  <2> QED
    BY <2>1, <2>2
<1> QED
  BY <1>1, <1>2 DEF ChaveInv

LEMMA ChaveSempre == SpecIdem => []ChaveInv
<1>1. ChaveInv /\ [NextIdem]_varsIdem => ChaveInv'
  BY ChaveSegue, PassoComOCorpo
<1> QED
  BY <1>1, ChaveInicia, PTL DEF SpecIdem

\* A key is spent exactly by the committed work it identifies, whatever fails.
THEOREM ChaveGastaPeloEfeito == SpecIdem => []ChaveSoComEfeito
<1>1. ChaveInv => ChaveSoComEfeito
  BY DEF ChaveInv
<1> QED
  BY <1>1, ChaveSempre, PTL

\* The work behind one key of one owner is committed at most once.
THEOREM UmSoEfeito == SpecIdem => []UmEfeitoPorChave
<1>1. ChaveInv => UmEfeitoPorChave
  <2> SUFFICES ASSUME ChaveInv, NEW p \in efeitos, NEW q \in efeitos, MesmaChave(p, q)
               PROVE  p = q
    BY DEF UmEfeitoPorChave
  <2>1. p \in Pedidos /\ q \in Pedidos
    BY DEF ChaveInv, TypeOKIdem
  <2>2. Linha(p) = Linha(q)
    BY DEF MesmaChave, Linha
  <2> QED
    BY <2>1, <2>2 DEF ChaveInv, ChaveSoComEfeito
<1> QED
  BY <1>1, ChaveSempre, PTL

-----------------------------------------------------------------------------
(* The replies.  The strengthening: work is committed only by a request    *)
(* whose transaction is over, so a reply already given stays true.         *)

SoConcluido ==
    \A p \in efeitos : fase[p] \in {"concluida", "respondida", "perdida"}

\* The part of RespostaVerdadeira that speaks of p.
Verdadeira(p) ==
    /\ resposta[p].tipo = "sucesso" =>
          /\ resposta[p].de \in efeitos
          /\ MesmaChave(p, resposta[p].de)
          /\ CorpoDe[p] = CorpoDe[resposta[p].de]
    /\ resposta[p].tipo = "divergente" =>
          /\ p \notin efeitos
          /\ \E q \in efeitos : MesmaChave(p, q) /\ CorpoDe[p] # CorpoDe[q]
    /\ resposta[p].tipo \in {"recusado", "disputado"} => p \notin efeitos

\* No reply is computed before the transaction ends.
SemRespostaAntes ==
    \A p \in Pedidos :
        fase[p] \in {"novo", "aberta", "trabalhando"} => resposta[p].tipo = "nada"

RespostaInv ==
    /\ ChaveInv
    /\ SoConcluido
    /\ SemRespostaAntes
    /\ \A p \in Pedidos : Verdadeira(p)

LEMMA RespostaInicia == InitIdem => RespostaInv
<1> SUFFICES ASSUME InitIdem PROVE RespostaInv
  OBVIOUS
<1>1. SoConcluido /\ SemRespostaAntes /\ \A p \in Pedidos : Verdadeira(p)
  BY DEF InitIdem, Sem, SoConcluido, SemRespostaAntes, Verdadeira
<1> QED
  BY <1>1, ChaveInicia DEF RespostaInv

\* A reply stays true while other requests' work is published.
LEMMA RespostaFica ==
    ASSUME RespostaInv, NEW p \in Pedidos, NEW x \in Pedidos,
           resposta'[x] = resposta[x],
           efeitos' = efeitos \/ (efeitos' = efeitos \cup {p} /\ fase[p] = "trabalhando")
    PROVE  Verdadeira(x)'
<1>1. efeitos \subseteq efeitos'
  OBVIOUS
<1>2. ASSUME x \notin efeitos, resposta[x].tipo # "nada" PROVE x \notin efeitos'
  BY <1>2 DEF RespostaInv, SemRespostaAntes
<1> QED
  BY <1>1, <1>2 DEF RespostaInv, Verdadeira, MesmaChave

\* Of two requests of one key, the hash tells the bodies apart and nothing else.
SoOCorpoDistingue(impressao) ==
    \A p \in Pedidos, q \in efeitos :
        fase[p] = "aberta" /\ MesmaChave(p, q) =>
            (impressao[q] = impressao[p] <=> CorpoDe[q] = CorpoDe[p])

LEMMA RespostaSegue ==
    ASSUME NEW STATE impressao, RespostaInv, SoOCorpoDistingue(impressao),
           [NextCom(impressao)]_varsIdem
    PROVE  RespostaInv'
<1>1. ChaveInv' /\ TypeOKIdem
  BY ChaveSegue DEF RespostaInv, ChaveInv
<1>2. CASE UNCHANGED varsIdem
  BY <1>1, <1>2 DEF varsIdem, RespostaInv, SoConcluido, SemRespostaAntes, Verdadeira, MesmaChave
<1>3. CASE NextCom(impressao)
  <2>1. PICK p \in Pedidos : PassoIdem(p, impressao)
    BY <1>3 DEF NextCom
  <2>2. /\ efeitos' = efeitos \/ (efeitos' = efeitos \cup {p} /\ fase[p] = "trabalhando")
        /\ \A x \in Pedidos \ {p} : fase'[x] = fase[x] /\ resposta'[x] = resposta[x]
    <3>1. CASE Chegar(p)
      BY <1>1, <3>1 DEF Chegar, Ir, TypeOKIdem
    <3>2. CASE Perder(p)
      BY <1>1, <3>2 DEF Perder, Ir, TypeOKIdem
    <3>3. CASE Tomar(p) \/ Entregar(p)
      BY <1>1, <3>3 DEF Tomar, Entregar, Ir, TypeOKIdem
    <3>4. CASE Ler(p, impressao) \/ Recusar(p)
      BY <1>1, <3>4 DEF Ler, Recusar, Concluir, Ir, TypeOKIdem
    <3>5. CASE Contender(p)
      BY <1>1, <3>5 DEF Contender, Concluir, Ir, TypeOKIdem
    <3>6. CASE Comitar(p) \/ ComitarSemSaber(p)
      BY <1>1, <3>6 DEF Comitar, ComitarSemSaber, Publicar, Concluir, Ir, TypeOKIdem
    <3> QED
      BY <2>1, <3>1, <3>2, <3>3, <3>4, <3>5, <3>6 DEF PassoIdem, Andar
  <2>3. \A x \in Pedidos \ {p} : Verdadeira(x)'
    BY <2>2, RespostaFica
  <2>4. /\ p \in efeitos' => fase'[p] \in {"concluida", "respondida", "perdida"}
        /\ fase'[p] \in {"novo", "aberta", "trabalhando"} => resposta'[p].tipo = "nada"
        /\ Verdadeira(p)'
    <3>0. /\ p \in efeitos => fase[p] \in {"concluida", "respondida", "perdida"}
          /\ fase[p] \in {"novo", "aberta", "trabalhando"} => resposta[p].tipo = "nada"
          /\ Verdadeira(p)
      BY DEF RespostaInv, SoConcluido, SemRespostaAntes
    <3>1. CASE Chegar(p)
      <4>1. fase[p] = "novo" /\ fase'[p] = "aberta" /\ resposta' = resposta /\ efeitos' = efeitos
        BY <1>1, <3>1 DEF Chegar, Ir, TypeOKIdem
      <4> QED
        BY <3>0, <4>1, RespostaFica
    <3>2. CASE Perder(p)
      <4>1. /\ fase[p] \in {"aberta", "trabalhando", "concluida"} /\ fase'[p] = "perdida"
            /\ resposta' = resposta /\ efeitos' = efeitos
        BY <1>1, <3>2 DEF Perder, Ir, TypeOKIdem
      <4> QED
        BY <3>0, <4>1, RespostaFica
    <3>3. CASE Tomar(p)
      <4>1. /\ fase[p] = "aberta" /\ fase'[p] = "trabalhando"
            /\ resposta' = resposta /\ efeitos' = efeitos
        BY <1>1, <3>3 DEF Tomar, Ir, TypeOKIdem
      <4> QED
        BY <3>0, <4>1, RespostaFica
    <3>4. CASE Entregar(p)
      <4>1. /\ fase[p] = "concluida" /\ fase'[p] = "respondida"
            /\ resposta' = resposta /\ efeitos' = efeitos
        BY <1>1, <3>4 DEF Entregar, Ir, TypeOKIdem
      <4> QED
        BY <3>0, <4>1, RespostaFica
    <3>5. CASE Ler(p, impressao)
      <4> DEFINE q == linhas[Linha(p)]
      <4>1. /\ fase[p] = "aberta" /\ fase'[p] = "concluida" /\ efeitos' = efeitos
            /\ q # Nenhum
            /\ resposta'[p] = IF impressao[q] = impressao[p] THEN Sucesso(q) ELSE Sem("divergente")
        BY <1>1, <3>5 DEF Ler, Concluir, Ir, TypeOKIdem
      <4>2. q \in Pedidos /\ Linha(q) = Linha(p)
        BY <4>1, LinhaEhLinha DEF RespostaInv, ChaveInv, TypeOKIdem, LinhaDoPedido
      <4>3. q \in efeitos /\ MesmaChave(p, q)
        BY <4>2 DEF RespostaInv, ChaveInv, ChaveSoComEfeito, MesmaChave, Linha
      <4>4. /\ p \notin efeitos
            /\ impressao[q] = impressao[p] <=> CorpoDe[q] = CorpoDe[p]
        BY <3>0, <4>1, <4>3 DEF SoOCorpoDistingue
      <4>5. CASE CorpoDe[q] = CorpoDe[p]
        BY <4>1, <4>3, <4>4, <4>5 DEF Verdadeira, Sucesso, MesmaChave
      <4>6. CASE CorpoDe[q] # CorpoDe[p]
        BY <4>1, <4>3, <4>4, <4>6 DEF Verdadeira, Sem, MesmaChave
      <4> QED
        BY <4>1, <4>5, <4>6
    <3>6. CASE Recusar(p)
      <4>1. /\ fase[p] = "trabalhando" /\ fase'[p] = "concluida" /\ efeitos' = efeitos
            /\ resposta'[p].tipo \in {"recusado", "erro"}
        BY <1>1, <3>6 DEF Recusar, Concluir, Ir, TypeOKIdem, Sem
      <4> QED
        BY <3>0, <4>1 DEF Verdadeira
    <3>7. CASE Contender(p)
      <4>1. /\ fase[p] \in {"aberta", "trabalhando"} /\ efeitos' = efeitos
            /\ \/ fase'[p] = "aberta" /\ resposta' = resposta
               \/ fase'[p] = "concluida" /\ resposta'[p].tipo = "disputado"
        BY <1>1, <3>7 DEF Contender, Concluir, Ir, TypeOKIdem, Sem
      <4>2. CASE resposta' = resposta
        BY <3>0, <4>1, <4>2, RespostaFica
      <4>3. CASE fase'[p] = "concluida" /\ resposta'[p].tipo = "disputado"
        BY <3>0, <4>1, <4>3 DEF Verdadeira
      <4> QED
        BY <4>1, <4>2, <4>3
    <3>8. CASE Comitar(p) \/ ComitarSemSaber(p)
      <4>1. /\ fase'[p] = "concluida" /\ efeitos' = efeitos \cup {p}
            /\ resposta'[p] = Sucesso(p) \/ resposta'[p] = Sem("erro")
        BY <1>1, <3>8 DEF Comitar, ComitarSemSaber, Publicar, Concluir, Ir, TypeOKIdem
      <4> QED
        BY <4>1 DEF Verdadeira, Sucesso, Sem, MesmaChave
    <3> QED
      BY <2>1, <3>1, <3>2, <3>3, <3>4, <3>5, <3>6, <3>7, <3>8 DEF PassoIdem, Andar
  <2>5. SoConcluido' /\ SemRespostaAntes'
    BY <1>1, <2>2, <2>4 DEF RespostaInv, SoConcluido, SemRespostaAntes, TypeOKIdem
  <2> QED
    BY <1>1, <2>3, <2>4, <2>5 DEF RespostaInv
<1> QED
  BY <1>2, <1>3

\* What a client is told is true: a success tells of committed work with the
\* same owner, key and body, and after a refusal nothing was done.
THEOREM RespostasVerdadeiras == SpecIdem => []RespostaVerdadeira
<1>1. RespostaInv => RespostaVerdadeira
  BY DEF RespostaInv, RespostaVerdadeira, Verdadeira
<1>2. RespostaInv /\ [NextIdem]_varsIdem => RespostaInv'
  BY RespostaSegue, PassoComOCorpo DEF SoOCorpoDistingue
<1> QED
  BY <1>1, <1>2, RespostaInicia, PTL DEF SpecIdem
-----------------------------------------------------------------------------
(* The pre-booking of the site.  Its body carries the contact, which two   *)
(* visitors may race to create; that they end with the same one is what    *)
(* makes a repetition look like one.                                       *)

LEMMA PassoDoSite ==
    ASSUME [NextSite]_varsSite
    PROVE  [NextCom(Impressao)]_varsIdem
BY DEF NextSite, varsSite, NextCom, PassoIdem, Preparar, RecusarOrcamento, ContarAbertas,
       ConferirTeto, AcharContato, NaoAcharContato, CriarContato, Entregue, Servir,
       CairVisita, Encerrar, varsIdem

\* One record for a phone; whoever reached the service carries that of its own;
\* and nobody else has begun there.
ContatoInv ==
    /\ etapa \in [Pedidos -> Etapas]
    /\ contato \in [Pedidos -> Pedidos \cup {Nenhum}]
    /\ fichas \subseteq Ficha
    /\ \A f, g \in fichas : f.telefone = g.telefone => f = g
    /\ \A p \in Pedidos : etapa[p] = "entregue" =>
          \E f \in fichas : f.telefone = TelefoneDe[p] /\ f.de = contato[p]
    /\ \A p \in Pedidos : fase[p] # "novo" => etapa[p] = "entregue"

SiteInv == RespostaInv /\ ContatoInv

LEMMA SiteInicia == InitSite => SiteInv
<1> SUFFICES ASSUME InitSite PROVE SiteInv
  OBVIOUS
<1>1. ContatoInv
  BY DEF InitSite, InitIdem, ContatoInv, Etapas
<1> QED
  BY <1>1, RespostaInicia DEF InitSite, SiteInv

\* One body has one phone, one phone one contact: of those who reached the
\* service, the hash tells apart what the bodies do.
LEMMA ImpressaoEhDoCorpo ==
    ASSUME SiteInv
    PROVE  SoOCorpoDistingue(Impressao)
<1> SUFFICES ASSUME NEW p \in Pedidos, NEW q \in efeitos, fase[p] = "aberta"
             PROVE  Impressao[q] = Impressao[p] <=> CorpoDe[q] = CorpoDe[p]
  BY DEF SoOCorpoDistingue
<1>1. q \in Pedidos /\ fase[q] # "novo"
  BY DEF SiteInv, RespostaInv, ChaveInv, TypeOKIdem, SoConcluido
<1>2. ASSUME CorpoDe[q] = CorpoDe[p] PROVE contato[q] = contato[p]
  <2>1. TelefoneDe[q] = TelefoneDe[p]
    BY <1>1, <1>2, PreReservaA
  <2>2. etapa[p] = "entregue" /\ etapa[q] = "entregue"
    BY <1>1 DEF SiteInv, ContatoInv
  <2>3. PICK f \in fichas : f.telefone = TelefoneDe[p] /\ f.de = contato[p]
    BY <2>2 DEF SiteInv, ContatoInv
  <2>4. PICK g \in fichas : g.telefone = TelefoneDe[q] /\ g.de = contato[q]
    BY <1>1, <2>2 DEF SiteInv, ContatoInv
  <2> QED
    BY <2>1, <2>3, <2>4 DEF SiteInv, ContatoInv
<1> QED
  BY <1>1, <1>2 DEF Impressao

LEMMA ContatoSegue ==
    ASSUME SiteInv, [NextSite]_varsSite
    PROVE  ContatoInv'
<1> USE PreReservaA, IdempotenciaA
<1>0. ContatoInv /\ fase \in [Pedidos -> Fases]
  BY DEF SiteInv, RespostaInv, ChaveInv, TypeOKIdem
<1>1. CASE UNCHANGED varsSite
  BY <1>0, <1>1 DEF varsSite, varsIdem, antesDoServico, ContatoInv
<1>2. ASSUME NEW p \in Pedidos, RecusarOrcamento(p) \/ ContarAbertas(p) \/ ConferirTeto(p)
                                 \/ NaoAcharContato(p)
      PROVE  ContatoInv'
  <2>1. /\ fase' = fase /\ contato' = contato /\ fichas' = fichas
        /\ etapa[p] # "entregue"
        /\ \E e \in Etapas \ {"entregue"} : etapa' = [etapa EXCEPT ![p] = e]
    BY <1>2 DEF RecusarOrcamento, ContarAbertas, ConferirTeto, NaoAcharContato, Passar,
                varsIdem, Etapas
  <2> QED
    BY <1>0, <2>1 DEF ContatoInv
<1>3. ASSUME NEW p \in Pedidos, NEW f \in fichas', Entregue(p, f),
             f.telefone = TelefoneDe[p], f.de \in Pedidos,
             fichas \subseteq fichas', fichas' \subseteq Ficha,
             \A g, h \in fichas' : g.telefone = h.telefone => g = h
      PROVE  ContatoInv'
  <2>1. /\ contato' = [contato EXCEPT ![p] = f.de]
        /\ etapa' = [etapa EXCEPT ![p] = "entregue"]
        /\ fase' = [fase EXCEPT ![p] = "aberta"]
    BY <1>3 DEF Entregue, Passar, Chegar, Ir
  <2>2. ASSUME NEW x \in Pedidos, etapa'[x] = "entregue"
        PROVE  \E g \in fichas' : g.telefone = TelefoneDe[x] /\ g.de = contato'[x]
    BY <1>0, <1>3, <2>1, <2>2 DEF ContatoInv
  <2> QED
    BY <1>0, <1>3, <2>1, <2>2 DEF ContatoInv, Etapas
<1>4. ASSUME NEW p \in Pedidos, AcharContato(p)
      PROVE  ContatoInv'
  <2>1. PICK f \in FichasDo(TelefoneDe[p]) : Entregue(p, f)
    BY <1>4 DEF AcharContato
  <2>2. fichas' = fichas /\ f \in fichas /\ f.telefone = TelefoneDe[p] /\ f.de \in Pedidos
    BY <1>0, <1>4, <2>1 DEF AcharContato, FichasDo, ContatoInv, Ficha
  <2> QED
    BY <1>0, <1>3, <2>1, <2>2 DEF ContatoInv
<1>5. ASSUME NEW p \in Pedidos, CriarContato(p)
      PROVE  ContatoInv'
  <2>1. PICK f \in FichaQueFica(p) : fichas' = fichas \cup {f} /\ Entregue(p, f)
    BY <1>5 DEF CriarContato
  <2>2. CASE FichasDo(TelefoneDe[p]) = {}
    <3>1. f = [telefone |-> TelefoneDe[p], de |-> p]
      BY <2>1, <2>2 DEF FichaQueFica
    <3>2. \A g \in fichas : g.telefone # TelefoneDe[p]
      BY <2>2 DEF FichasDo
    <3> QED
      BY <1>0, <1>3, <2>1, <3>1, <3>2 DEF ContatoInv, Ficha
  <2>3. CASE FichasDo(TelefoneDe[p]) # {}
    <3>1. f \in fichas /\ f.telefone = TelefoneDe[p] /\ f.de \in Pedidos
      BY <1>0, <2>1, <2>3 DEF FichaQueFica, FichasDo, ContatoInv, Ficha
    <3>2. fichas' = fichas
      BY <2>1, <3>1
    <3> QED
      BY <1>0, <1>3, <2>1, <3>1, <3>2 DEF ContatoInv
  <2> QED
    BY <2>2, <2>3
<1>6. ASSUME NEW p \in Pedidos, Servir(p)
      PROVE  ContatoInv'
  <2>1. /\ etapa' = etapa /\ contato' = contato /\ fichas' = fichas
        /\ fase[p] # "novo" /\ \E f \in Fases : fase' = [fase EXCEPT ![p] = f]
    BY <1>6 DEF Servir, antesDoServico, Andar, Tomar, Ler, Comitar, ComitarSemSaber, Publicar,
                Recusar, Contender, Entregar, Concluir, Ir, Fases
  <2> QED
    BY <1>0, <2>1 DEF ContatoInv
<1>7. ASSUME NEW p \in Pedidos, CairVisita(p)
      PROVE  ContatoInv'
  <2>1. CASE Perder(p) /\ UNCHANGED etapa
    BY <1>0, <1>7, <2>1 DEF CairVisita, Perder, Ir, ContatoInv
  <2>2. CASE etapa[p] \in {"contada", "buscando", "criando"} /\ Passar(p, "caida") /\ UNCHANGED varsIdem
    BY <1>0, <1>7, <2>2 DEF CairVisita, Passar, varsIdem, ContatoInv, Etapas
  <2> QED
    BY <1>7, <2>1, <2>2 DEF CairVisita
<1>8. ASSUME NEW p \in Pedidos, Encerrar(p)
      PROVE  ContatoInv'
  BY <1>0, <1>8 DEF Encerrar, varsIdem, antesDoServico, ContatoInv
<1> QED
  BY <1>1, <1>2, <1>4, <1>5, <1>6, <1>7, <1>8 DEF NextSite, Preparar

LEMMA SiteSegue ==
    ASSUME SiteInv, [NextSite]_varsSite
    PROVE  SiteInv'
<1>1. SoOCorpoDistingue(Impressao) /\ [NextCom(Impressao)]_varsIdem
  BY ImpressaoEhDoCorpo, PassoDoSite
<1>2. RespostaInv'
  BY <1>1, RespostaSegue DEF SiteInv
<1> QED
  BY <1>2, ContatoSegue DEF SiteInv

\* A visitor's repetition is recognised, whatever tabs race to create the contact: a
\* mismatch is told only to whom sent another body.
THEOREM RepeticaoSempreReconhecida == SpecSite => []RepeticaoReconhecida
<1>1. SiteInv => RepeticaoReconhecida
  BY DEF SiteInv, RespostaInv, Verdadeira, RepeticaoReconhecida
<1> QED
  BY <1>1, SiteInicia, SiteSegue, PTL DEF SpecSite

\* And what the service promises of a key it keeps under the public handler, whose
\* hash is of more than the visitor sent: one pre-booking, and replies that are true.
THEOREM SiteCumpreAChave ==
    SpecSite => [](UmEfeitoPorChave /\ ChaveSoComEfeito /\ RespostaVerdadeira)
<1>1. SiteInv => UmEfeitoPorChave /\ ChaveSoComEfeito /\ RespostaVerdadeira
  <2> SUFFICES ASSUME SiteInv
               PROVE  UmEfeitoPorChave /\ ChaveSoComEfeito /\ RespostaVerdadeira
    OBVIOUS
  <2>1. ChaveSoComEfeito /\ efeitos \subseteq Pedidos
    BY DEF SiteInv, RespostaInv, ChaveInv, TypeOKIdem
  <2>2. UmEfeitoPorChave
    BY <2>1 DEF UmEfeitoPorChave, ChaveSoComEfeito, MesmaChave, Linha
  <2>3. RespostaVerdadeira
    BY DEF SiteInv, RespostaInv, Verdadeira, RespostaVerdadeira
  <2> QED
    BY <2>1, <2>2, <2>3
<1> QED
  BY <1>1, SiteInicia, SiteSegue, PTL DEF SpecSite

-----------------------------------------------------------------------------
(***************************************************************************)
(* Sessions.  None of the properties is inductive: IInv adds what the row  *)
(* locks and the invisibility of uncommitted rows guarantee between two    *)
(* steps of one request.                                                   *)
(***************************************************************************)

Emitindo == {"emitir", "registrar", "rotacionar", "gravar"}
Inserindo == {"registrar", "rotacionar", "gravar"}

\* A token that is not committed is blank but for its owner; a free one has no family.
TokensEmBranco ==
  \A t \in Tokens :
    /\ tokens[t].st = "livre" <=> tokens[t].familia = Ninguem
    /\ tokens[t].st # "gravado" =>
         tokens[t].sucessor = Ninguem /\ ~tokens[t].revogado /\ tokens[t].trava = Ninguem

\* A token being inserted belongs to one request and one step of it.
NovosDeUmSo ==
  \A p \in Chamadas :
    /\ pedidos[p].passo \in Inserindo <=> pedidos[p].novo # Ninguem
    /\ pedidos[p].novo # Ninguem =>
         /\ tokens[pedidos[p].novo].st = "pendente"
         /\ tokens[pedidos[p].novo].familia = pedidos[p].familia
         /\ \A q \in Chamadas \ {p} : pedidos[q].novo # pedidos[p].novo

\* A request that issues a session knows its family; one that refreshes or raises
\* the alarm, the token it was shown.
PedidosCoerentes ==
  \A p \in Chamadas :
    /\ pedidos[p].passo \in Emitindo => pedidos[p].familia # Ninguem
    /\ pedidos[p].passo \in {"rotacionar", "gravar", "reuso"} => pedidos[p].token # Ninguem
    /\ pedidos[p].passo = "registrar" => pedidos[p].token = Ninguem
    /\ pedidos[p].passo \in {"consumir", "senha"} => pedidos[p].familia = Ninguem
    /\ pedidos[p].token # Ninguem =>
         Existe(pedidos[p].token) /\ tokens[pedidos[p].token].familia = pedidos[p].familia

\* The family of a login in flight is nobody else's.
FamiliaNova ==
  \A p \in Chamadas : pedidos[p].passo \in Emitindo /\ pedidos[p].token = Ninguem =>
    /\ \A t \in Tokens : tokens[t].familia = pedidos[p].familia => t = pedidos[p].novo
    /\ \A q \in Chamadas \ {p} : pedidos[q].familia # pedidos[p].familia

\* Between the UPDATE and the commit, the token being exchanged is locked and unspent.
Queimando ==
  \A p \in Chamadas : Em(p, "gravar") =>
    tokens[pedidos[p].token].trava = p /\ ~Revogado(pedidos[p].token)

\* A link a request was shown exists, and only a recovery was shown one.
LinksExistem ==
  \A p \in Chamadas : pedidos[p].reset # Ninguem =>
    /\ resets[pedidos[p].reset].st = "gravado"
    /\ pedidos[p].passo \in {"consumir", "senha", "revogar"}

\* What a revocation of a family will leave behind was born of a token it waited for.
Alcance ==
  \A p \in Chamadas : Em(p, "revogar") =>
    /\ \A s \in pedidos[p].alvo : Existe(s)
    /\ \A t \in Tokens :
         NaoRevogado(t) /\ pedidos[p].familia # Ninguem /\ tokens[t].familia = pedidos[p].familia =>
           t \in pedidos[p].alvo \/ \E s \in pedidos[p].alvo : Rotacionado(s)

IInv == /\ TypeOKSessoes /\ TokensEmBranco /\ NovosDeUmSo /\ PedidosCoerentes /\ FamiliaNova
        /\ Queimando /\ UmElo /\ ReusoSoComSucessor /\ LinksExistem /\ LinkGastoUmaVez /\ Alcance

\* The alternatives of Next that hide two effects behind one name.
Queima(p) ==
  /\ Em(p, "rotacionar") /\ tokens[pedidos[p].token].trava = Ninguem
  /\ RotacaoAplicada(p)
  /\ UNCHANGED <<resets, contas>>
Perde(p) ==
  /\ Em(p, "rotacionar") /\ tokens[pedidos[p].token].trava = Ninguem
  /\ Revogado(pedidos[p].token)
  /\ tokens' = [tokens EXCEPT ![pedidos[p].novo] = TokenLivre]
  /\ UNCHANGED <<resets, contas>>
PerdePorReuso(p) ==
  /\ Perde(p) /\ Rotacionado(pedidos[p].token)
  /\ Avancar(p, [pedidos[p] EXCEPT !.passo = "reuso", !.novo = Ninguem])
PerdePorSaida(p) ==
  /\ Perde(p) /\ ~Rotacionado(pedidos[p].token)
  /\ Terminar(p)
SaiDoToken(p, t) ==
  /\ Em(p, "livre") /\ Existe(t)
  /\ Avancar(p, [PedidoLivre EXCEPT !.passo = "revogar", !.familia = tokens[t].familia,
                   !.alvo = RevogarFamilia(tokens[t].familia)])
  /\ UNCHANGED <<tokens, resets, contas>>
SaiDeTodas(p, u) ==
  /\ Em(p, "livre")
  /\ Avancar(p, [PedidoLivre EXCEPT !.passo = "revogar", !.usuario = u,
                   !.alvo = RevogarSessoesDoUsuario(u)])
  /\ UNCHANGED <<tokens, resets, contas>>
GastaLink(p) ==
  /\ Em(p, "consumir") /\ resets[pedidos[p].reset].trava = Ninguem
  /\ ~resets[pedidos[p].reset].usado
  /\ Avancar(p, [pedidos[p] EXCEPT !.passo = "senha"])
  /\ resets' = [resets EXCEPT ![pedidos[p].reset].trava = p]
  /\ UNCHANGED <<tokens, contas>>
AchaGasto(p) ==
  /\ Em(p, "consumir") /\ resets[pedidos[p].reset].trava = Ninguem
  /\ Terminar(p)
  /\ UNCHANGED <<tokens, resets, contas>>

\* A rotation burns the token, finds it burnt by a rotation or finds it revoked
\* by a logout.
LEMMA CasosDaRotacao ==
  ASSUME NEW p, RotacionarRefresh(p)
  PROVE  Queima(p) \/ PerdePorReuso(p) \/ PerdePorSaida(p)
BY DEF RotacionarRefresh, RotacaoPerdida, Queima, Perde, PerdePorReuso, PerdePorSaida

\* A logout is of one family or of every session of a user.
LEMMA CasosDaSaida ==
  ASSUME NEW p, Logout(p)
  PROVE  (\E t \in Tokens : SaiDoToken(p, t)) \/ (\E u \in Usuarios : SaiDeTodas(p, u))
BY DEF Logout, SaiDoToken, SaiDeTodas

\* A recovery spends the link or finds it spent.
LEMMA CasosDoLink ==
  ASSUME NEW p, ConsumirReset(p)
  PROVE  GastaLink(p) \/ AchaGasto(p)
BY DEF ConsumirReset, GastaLink, AchaGasto

-----------------------------------------------------------------------------
(* What the longer steps do, field by field.                               *)

\* What the last step of a revocation leaves in every row.
LEMMA EfeitoDaRevogacao ==
  ASSUME TypeOKSessoes, NEW p \in Chamadas, ConcluirRevogacao(p)
  PROVE  /\ pedidos[p].passo = "revogar"
         /\ pedidos' = [pedidos EXCEPT ![p] = PedidoLivre]
         /\ \A t \in pedidos[p].alvo : tokens[t].trava = Ninguem
         /\ \A t \in Tokens :
              /\ tokens'[t].st = tokens[t].st /\ tokens'[t].familia = tokens[t].familia
              /\ tokens'[t].sucessor = tokens[t].sucessor /\ tokens'[t].trava = tokens[t].trava
              /\ tokens'[t].revogado <=> tokens[t].revogado \/ t \in pedidos[p].alvo
         /\ \A r \in Resets :
              /\ resets'[r].st = resets[r].st
              /\ r # pedidos[p].reset => resets'[r] = resets[r]
<1> USE DEF ConcluirRevogacao, TypeOKSessoes, TokenT, ResetT
<1>1. /\ pedidos[p].passo = "revogar"
      /\ pedidos' = [pedidos EXCEPT ![p] = PedidoLivre]
      /\ \A t \in pedidos[p].alvo : tokens[t].trava = Ninguem
  BY DEF Em, Terminar, Avancar
<1>2. ASSUME NEW t \in Tokens
      PROVE  /\ tokens'[t].st = tokens[t].st /\ tokens'[t].familia = tokens[t].familia
             /\ tokens'[t].sucessor = tokens[t].sucessor /\ tokens'[t].trava = tokens[t].trava
             /\ tokens'[t].revogado <=> tokens[t].revogado \/ t \in pedidos[p].alvo
  <2>1. tokens'[t] = IF t \in pedidos[p].alvo THEN [tokens[t] EXCEPT !.revogado = TRUE] ELSE tokens[t]
    OBVIOUS
  <2>2. tokens[t] \in TokenT
    OBVIOUS
  <2> HIDE DEF ConcluirRevogacao, TypeOKSessoes
  <2> QED BY <2>1, <2>2
<1>3. ASSUME NEW r \in Resets
      PROVE  /\ resets'[r].st = resets[r].st
             /\ r # pedidos[p].reset => resets'[r] = resets[r]
  OBVIOUS
<1> QED BY <1>1, <1>2, <1>3

\* A link another request holds is not touched by the request that creates one.
LEMMA EfeitoDaCriacao ==
  ASSUME TypeOKSessoes, NEW p \in Chamadas, CriarReset(p)
  PROVE  /\ pedidos[p].passo = "criar"
         /\ pedidos' = [pedidos EXCEPT ![p] = PedidoLivre]
         /\ UNCHANGED <<tokens, contas>>
         /\ \A r \in Resets : resets[r].st = "gravado" =>
              /\ resets'[r].st = "gravado"
              /\ resets[r].trava # p => resets'[r] = resets[r]
<1>1. /\ pedidos[p].passo = "criar"
      /\ pedidos' = [pedidos EXCEPT ![p] = PedidoLivre]
      /\ UNCHANGED <<tokens, contas>>
  BY DEF CriarReset, Em, Terminar, Avancar
<1>2. ASSUME NEW r \in Resets, resets[r].st = "gravado"
      PROVE  resets'[r].st = "gravado" /\ (resets[r].trava # p => resets'[r] = resets[r])
  <2>1. PICK n \in Resets :
          /\ resets[n].st = "livre"
          /\ resets' = [s \in Resets |->
               CASE s = n -> [ResetLivre EXCEPT !.st = "gravado", !.usuario = pedidos[p].usuario]
                 [] s # n /\ resets[s].trava = p -> [resets[s] EXCEPT !.usado = TRUE, !.trava = Ninguem]
                 [] OTHER -> resets[s]]
    BY DEF CriarReset
  <2>2. r # n
    BY <1>2, <2>1
  <2>3. CASE resets[r].trava = p
    <3>1. resets'[r] = [resets[r] EXCEPT !.usado = TRUE, !.trava = Ninguem]
      BY <2>1, <2>2, <2>3, Zenon
    <3> QED BY <1>2, <2>3, <3>1 DEF TypeOKSessoes, ResetT
  <2>4. CASE resets[r].trava # p
    <3>1. resets'[r] = resets[r]
      BY <2>1, <2>2, <2>4, Zenon
    <3> QED BY <1>2, <3>1
  <2> QED BY <2>3, <2>4
<1> QED BY <1>1, <1>2

\* The commit of a rotation spends one token and makes its successor visible.
LEMMA EfeitoDoCommit ==
  ASSUME TypeOKSessoes, NovosDeUmSo, PedidosCoerentes, NEW p \in Chamadas, ComitarRotacao(p)
  PROVE  /\ pedidos[p].passo = "gravar"
         /\ pedidos[p].token \in Tokens /\ pedidos[p].novo \in Tokens
         /\ tokens[pedidos[p].token].st = "gravado" /\ tokens[pedidos[p].novo].st = "pendente"
         /\ pedidos' = [pedidos EXCEPT ![p] = PedidoLivre]
         /\ \A t \in Tokens :
              /\ tokens'[t].familia = tokens[t].familia
              /\ tokens'[t].st = IF t = pedidos[p].novo THEN "gravado" ELSE tokens[t].st
              /\ tokens'[t].sucessor = IF t = pedidos[p].token THEN pedidos[p].novo ELSE tokens[t].sucessor
              /\ t # pedidos[p].token => tokens'[t].revogado = tokens[t].revogado
         /\ tokens'[pedidos[p].token].revogado
<1> USE NinguemDeFora
<1>1. /\ pedidos[p].passo = "gravar"
      /\ pedidos' = [pedidos EXCEPT ![p] = PedidoLivre]
  BY DEF ComitarRotacao, Em, Terminar, Avancar
<1>2. /\ pedidos[p].token \in Tokens /\ pedidos[p].novo \in Tokens
      /\ tokens[pedidos[p].token].st = "gravado" /\ tokens[pedidos[p].novo].st = "pendente"
  BY <1>1 DEF TypeOKSessoes, PedidoT, NovosDeUmSo, PedidosCoerentes, Inserindo, Existe
<1>3. tokens' = [tokens EXCEPT ![pedidos[p].token].revogado = TRUE,
                   ![pedidos[p].token].sucessor = pedidos[p].novo,
                   ![pedidos[p].token].trava = Ninguem, ![pedidos[p].novo].st = "gravado"]
  BY DEF ComitarRotacao
<1>4. pedidos[p].token # pedidos[p].novo
  BY <1>2
<1>5. ASSUME NEW t \in Tokens
      PROVE  /\ tokens'[t].familia = tokens[t].familia
             /\ tokens'[t].st = IF t = pedidos[p].novo THEN "gravado" ELSE tokens[t].st
             /\ tokens'[t].sucessor = IF t = pedidos[p].token THEN pedidos[p].novo ELSE tokens[t].sucessor
             /\ t # pedidos[p].token => tokens'[t].revogado = tokens[t].revogado
  <2>1. CASE t = pedidos[p].token
    BY <1>2, <1>3, <1>4, <2>1 DEF TypeOKSessoes, TokenT
  <2>2. CASE t = pedidos[p].novo
    <3>1. tokens[t] \in TokenT /\ tokens \in [Tokens -> TokenT]
      BY DEF TypeOKSessoes
    <3>2. tokens'[t] = [tokens[t] EXCEPT !.st = "gravado"]
      BY <1>3, <1>4, <2>2, <3>1 DEF TokenT
    <3> QED
      BY <1>4, <2>2, <3>1, <3>2 DEF TokenT
  <2>3. CASE t # pedidos[p].token /\ t # pedidos[p].novo
    BY <1>2, <1>3, <2>3 DEF TypeOKSessoes, TokenT
  <2> QED BY <2>1, <2>2, <2>3
<1>6. tokens'[pedidos[p].token].revogado
  BY <1>2, <1>3, <1>4 DEF TypeOKSessoes, TokenT
<1> QED BY <1>1, <1>2, <1>5, <1>6

\* The account's step revokes what its snapshot shows: committed tokens.
LEMMA EfeitoNaConta ==
  ASSUME TypeOKSessoes, NEW p \in Chamadas, AtualizarConta(p)
  PROVE  /\ pedidos[p].passo = "senha" /\ UNCHANGED <<tokens, resets>>
         /\ \E a \in SUBSET {t \in Tokens : Existe(t)} :
              pedidos' = [pedidos EXCEPT ![p] = [pedidos[p] EXCEPT !.passo = "revogar", !.alvo = a]]
BY DEF AtualizarConta, Em, Avancar, RevogarSessoesDoUsuario, DoUsuario, NaoRevogado

-----------------------------------------------------------------------------
(* Types.  The record sets stay closed; what an assignment does to a member *)
(* of one is said by the next three lemmas.                                 *)

\* What an assignment to a request's field leaves.
LEMMA PedidoMuda ==
  ASSUME NEW d \in PedidoT
  PROVE  /\ \A v \in Passos : [d EXCEPT !.passo = v] \in PedidoT
         /\ \A v \in Usuarios \cup {Ninguem} : [d EXCEPT !.usuario = v] \in PedidoT
         /\ \A v \in Tokens \cup {Ninguem} : [d EXCEPT !.token = v] \in PedidoT
         /\ \A v \in Tokens \cup {Ninguem} : [d EXCEPT !.novo = v] \in PedidoT
         /\ \A v \in Familias \cup {Ninguem} : [d EXCEPT !.familia = v] \in PedidoT
         /\ \A v \in Resets \cup {Ninguem} : [d EXCEPT !.reset = v] \in PedidoT
         /\ \A v \in Efeitos : [d EXCEPT !.efeito = v] \in PedidoT
         /\ \A v \in SUBSET Tokens : [d EXCEPT !.alvo = v] \in PedidoT
<1>1. \A v \in Passos : [d EXCEPT !.passo = v] \in PedidoT BY DEF PedidoT
<1>2. \A v \in Usuarios \cup {Ninguem} : [d EXCEPT !.usuario = v] \in PedidoT BY DEF PedidoT
<1>3. \A v \in Tokens \cup {Ninguem} : [d EXCEPT !.token = v] \in PedidoT BY DEF PedidoT
<1>4. \A v \in Tokens \cup {Ninguem} : [d EXCEPT !.novo = v] \in PedidoT BY DEF PedidoT
<1>5. \A v \in Familias \cup {Ninguem} : [d EXCEPT !.familia = v] \in PedidoT BY DEF PedidoT
<1>6. \A v \in Resets \cup {Ninguem} : [d EXCEPT !.reset = v] \in PedidoT BY DEF PedidoT
<1>7. \A v \in Efeitos : [d EXCEPT !.efeito = v] \in PedidoT BY DEF PedidoT
<1>8. \A v \in SUBSET Tokens : [d EXCEPT !.alvo = v] \in PedidoT BY DEF PedidoT
<1> QED BY <1>1, <1>2, <1>3, <1>4, <1>5, <1>6, <1>7, <1>8

\* What an assignment to a token's column leaves.
LEMMA TokenMuda ==
  ASSUME NEW f \in [Tokens -> TokenT], NEW t
  PROVE  /\ \A v \in {"livre", "pendente", "gravado"} : [f EXCEPT ![t].st = v] \in [Tokens -> TokenT]
         /\ \A v \in BOOLEAN : [f EXCEPT ![t].revogado = v] \in [Tokens -> TokenT]
         /\ \A v \in Tokens \cup {Ninguem} : [f EXCEPT ![t].sucessor = v] \in [Tokens -> TokenT]
         /\ \A v \in Chamadas \cup {Ninguem} : [f EXCEPT ![t].trava = v] \in [Tokens -> TokenT]
<1>1. \A x \in Tokens, v \in {"livre", "pendente", "gravado"} : [f[x] EXCEPT !.st = v] \in TokenT
  BY DEF TokenT
<1>2. \A x \in Tokens, v \in BOOLEAN : [f[x] EXCEPT !.revogado = v] \in TokenT
  BY DEF TokenT
<1>3. \A x \in Tokens, v \in Tokens \cup {Ninguem} : [f[x] EXCEPT !.sucessor = v] \in TokenT
  BY DEF TokenT
<1>4. \A x \in Tokens, v \in Chamadas \cup {Ninguem} : [f[x] EXCEPT !.trava = v] \in TokenT
  BY DEF TokenT
<1> QED BY <1>1, <1>2, <1>3, <1>4

\* The types of the fields the steps read.
LEMMA Campos ==
  ASSUME TypeOKSessoes
  PROVE  /\ \A p \in Chamadas :
              /\ pedidos[p] \in PedidoT
              /\ pedidos[p].usuario \in Usuarios \cup {Ninguem} /\ pedidos[p].novo \in Tokens \cup {Ninguem}
              /\ pedidos[p].token \in Tokens \cup {Ninguem} /\ pedidos[p].familia \in Familias \cup {Ninguem}
              /\ pedidos[p].reset \in Resets \cup {Ninguem} /\ pedidos[p].alvo \in SUBSET Tokens
         /\ \A t \in Tokens :
              /\ tokens[t] \in TokenT
              /\ tokens[t].usuario \in Usuarios \cup {Ninguem} /\ tokens[t].familia \in Familias \cup {Ninguem}
         /\ \A r \in Resets : resets[r] \in ResetT /\ resets[r].usuario \in Usuarios \cup {Ninguem}
<1>1. ASSUME NEW p \in Chamadas
      PROVE  /\ pedidos[p] \in PedidoT
             /\ pedidos[p].usuario \in Usuarios \cup {Ninguem} /\ pedidos[p].novo \in Tokens \cup {Ninguem}
             /\ pedidos[p].token \in Tokens \cup {Ninguem} /\ pedidos[p].familia \in Familias \cup {Ninguem}
             /\ pedidos[p].reset \in Resets \cup {Ninguem} /\ pedidos[p].alvo \in SUBSET Tokens
  BY DEF TypeOKSessoes, PedidoT
<1>2. ASSUME NEW t \in Tokens
      PROVE  /\ tokens[t] \in TokenT
             /\ tokens[t].usuario \in Usuarios \cup {Ninguem} /\ tokens[t].familia \in Familias \cup {Ninguem}
  BY DEF TypeOKSessoes, TokenT
<1>3. ASSUME NEW r \in Resets
      PROVE  resets[r] \in ResetT /\ resets[r].usuario \in Usuarios \cup {Ninguem}
  BY DEF TypeOKSessoes, ResetT
<1> QED BY <1>1, <1>2, <1>3

\* The empty rows are rows.
LEMMA LivresTipados == PedidoLivre \in PedidoT /\ TokenLivre \in TokenT /\ ResetLivre \in ResetT
BY DEF PedidoLivre, PedidoT, TokenLivre, TokenT, ResetLivre, ResetT, Passos, Efeitos

\* The steps that end a request, and those that do not.
LEMMA PedidoSegue ==
  ASSUME TypeOKSessoes, NEW p \in Chamadas, NEW d \in PedidoT, Avancar(p, d)
  PROVE  pedidos' \in [Chamadas -> PedidoT]
BY DEF Avancar, TypeOKSessoes

\* Every step leaves requests that are requests.
LEMMA PedidosTipados ==
  ASSUME TypeOKSessoes, [Next]_vars PROVE pedidos' \in [Chamadas -> PedidoT]
<1>1. ASSUME NEW p \in Chamadas, NEW u \in Usuarios, Login(p, u) PROVE pedidos' \in [Chamadas -> PedidoT]
  <2>1. PICK f \in Familias :
          Avancar(p, [PedidoLivre EXCEPT !.passo = "emitir", !.usuario = u, !.familia = f])
    BY <1>1 DEF Login
  <2>3. [PedidoLivre EXCEPT !.passo = "emitir", !.usuario = u, !.familia = f] \in PedidoT
    BY PedidoMuda, Campos, LivresTipados DEF Passos, Efeitos
  <2> QED BY <2>1, <2>3, PedidoSegue
<1>2. ASSUME NEW p \in Chamadas, EmitirSessao(p) PROVE pedidos' \in [Chamadas -> PedidoT]
  <2>1. PICK t \in Tokens :
          Avancar(p, [pedidos[p] EXCEPT !.novo = t,
               !.passo = IF pedidos[p].token = Ninguem THEN "registrar" ELSE "rotacionar"])
    BY <1>2 DEF EmitirSessao
  <2>3. [pedidos[p] EXCEPT !.novo = t,
               !.passo = IF pedidos[p].token = Ninguem THEN "registrar" ELSE "rotacionar"] \in PedidoT
    BY PedidoMuda, Campos, LivresTipados DEF Passos, Efeitos
  <2> QED BY <2>1, <2>3, PedidoSegue
<1>3. ASSUME NEW p \in Chamadas, ContaInativa(p) PROVE pedidos' \in [Chamadas -> PedidoT]
  BY <1>3, LivresTipados, PedidoSegue DEF ContaInativa, Terminar
<1>4. ASSUME NEW p \in Chamadas, RegistrarLogin(p) PROVE pedidos' \in [Chamadas -> PedidoT]
  BY <1>4, LivresTipados, PedidoSegue DEF RegistrarLogin, Terminar
<1>5. ASSUME NEW p \in Chamadas, NEW t \in Tokens, Refresh(p, t) PROVE pedidos' \in [Chamadas -> PedidoT]
  <2>1. Avancar(p, [PedidoLivre EXCEPT !.passo = IF Rotacionado(t) THEN "reuso" ELSE "emitir",
               !.usuario = tokens[t].usuario, !.token = t, !.familia = tokens[t].familia])
    BY <1>5 DEF Refresh
  <2>3. [PedidoLivre EXCEPT !.passo = IF Rotacionado(t) THEN "reuso" ELSE "emitir",
               !.usuario = tokens[t].usuario, !.token = t, !.familia = tokens[t].familia] \in PedidoT
    BY PedidoMuda, Campos, LivresTipados DEF Passos, Efeitos
  <2> QED BY <2>1, <2>3, PedidoSegue
<1>6. ASSUME NEW p \in Chamadas, Queima(p) PROVE pedidos' \in [Chamadas -> PedidoT]
  <2>1. Avancar(p, [pedidos[p] EXCEPT !.passo = "gravar"])
    BY <1>6 DEF Queima, RotacaoAplicada
  <2>3. [pedidos[p] EXCEPT !.passo = "gravar"] \in PedidoT
    BY PedidoMuda, Campos, LivresTipados DEF Passos, Efeitos
  <2> QED BY <2>1, <2>3, PedidoSegue
<1>7. ASSUME NEW p \in Chamadas, PerdePorReuso(p) PROVE pedidos' \in [Chamadas -> PedidoT]
  <2>1. Avancar(p, [pedidos[p] EXCEPT !.passo = "reuso", !.novo = Ninguem])
    BY <1>7 DEF PerdePorReuso
  <2>3. [pedidos[p] EXCEPT !.passo = "reuso", !.novo = Ninguem] \in PedidoT
    BY PedidoMuda, Campos, LivresTipados DEF Passos, Efeitos
  <2> QED BY <2>1, <2>3, PedidoSegue
<1>8. ASSUME NEW p \in Chamadas, PerdePorSaida(p) PROVE pedidos' \in [Chamadas -> PedidoT]
  BY <1>8, LivresTipados, PedidoSegue DEF PerdePorSaida, Terminar
<1>9. ASSUME NEW p \in Chamadas, ComitarRotacao(p) PROVE pedidos' \in [Chamadas -> PedidoT]
  BY <1>9, LivresTipados, PedidoSegue DEF ComitarRotacao, Terminar
<1>10. ASSUME NEW p \in Chamadas, RevogarFamiliaComprometida(p) PROVE pedidos' \in [Chamadas -> PedidoT]
  <2>1. Avancar(p, [pedidos[p] EXCEPT !.passo = "revogar", !.alvo = RevogarFamilia(pedidos[p].familia)])
    BY <1>10 DEF RevogarFamiliaComprometida
  <2>2. RevogarFamilia(pedidos[p].familia) \in SUBSET Tokens
    BY DEF RevogarFamilia, DaFamilia, RevogarSessoesDoUsuario, DoUsuario
  <2>3. [pedidos[p] EXCEPT !.passo = "revogar", !.alvo = RevogarFamilia(pedidos[p].familia)] \in PedidoT
    BY <2>2, PedidoMuda, Campos, LivresTipados DEF Passos, Efeitos
  <2> QED BY <2>1, <2>3, PedidoSegue
<1>11. ASSUME NEW p \in Chamadas, ConcluirRevogacao(p) PROVE pedidos' \in [Chamadas -> PedidoT]
  BY <1>11, LivresTipados, PedidoSegue DEF ConcluirRevogacao, Terminar
<1>12. ASSUME NEW p \in Chamadas, NEW t \in Tokens, SaiDoToken(p, t) PROVE pedidos' \in [Chamadas -> PedidoT]
  <2>1. Avancar(p, [PedidoLivre EXCEPT !.passo = "revogar", !.familia = tokens[t].familia,
               !.alvo = RevogarFamilia(tokens[t].familia)])
    BY <1>12 DEF SaiDoToken
  <2>2. RevogarFamilia(tokens[t].familia) \in SUBSET Tokens
    BY DEF RevogarFamilia, DaFamilia, RevogarSessoesDoUsuario, DoUsuario
  <2>3. [PedidoLivre EXCEPT !.passo = "revogar", !.familia = tokens[t].familia,
               !.alvo = RevogarFamilia(tokens[t].familia)] \in PedidoT
    BY <2>2, PedidoMuda, Campos, LivresTipados DEF Passos, Efeitos
  <2> QED BY <2>1, <2>3, PedidoSegue
<1>13. ASSUME NEW p \in Chamadas, NEW u \in Usuarios, SaiDeTodas(p, u) PROVE pedidos' \in [Chamadas -> PedidoT]
  <2>1. Avancar(p, [PedidoLivre EXCEPT !.passo = "revogar", !.usuario = u,
               !.alvo = RevogarSessoesDoUsuario(u)])
    BY <1>13 DEF SaiDeTodas
  <2>2. RevogarSessoesDoUsuario(u) \in SUBSET Tokens
    BY DEF RevogarFamilia, DaFamilia, RevogarSessoesDoUsuario, DoUsuario
  <2>3. [PedidoLivre EXCEPT !.passo = "revogar", !.usuario = u,
               !.alvo = RevogarSessoesDoUsuario(u)] \in PedidoT
    BY <2>2, PedidoMuda, Campos, LivresTipados DEF Passos, Efeitos
  <2> QED BY <2>1, <2>3, PedidoSegue
<1>14. ASSUME NEW p \in Chamadas, NEW u \in Usuarios, InvalidarResetsPendentes(p, u) PROVE pedidos' \in [Chamadas -> PedidoT]
  <2>1. Avancar(p, [PedidoLivre EXCEPT !.passo = "criar", !.usuario = u])
    BY <1>14 DEF InvalidarResetsPendentes
  <2>3. [PedidoLivre EXCEPT !.passo = "criar", !.usuario = u] \in PedidoT
    BY PedidoMuda, Campos, LivresTipados DEF Passos, Efeitos
  <2> QED BY <2>1, <2>3, PedidoSegue
<1>15. ASSUME NEW p \in Chamadas, CriarReset(p) PROVE pedidos' \in [Chamadas -> PedidoT]
  BY <1>15, LivresTipados, PedidoSegue DEF CriarReset, Terminar
<1>16. ASSUME NEW p \in Chamadas, NEW r \in Resets, TrocarSenha(p, r) PROVE pedidos' \in [Chamadas -> PedidoT]
  <2>1. Avancar(p, [PedidoLivre EXCEPT !.passo = "consumir", !.reset = r,
               !.usuario = resets[r].usuario, !.efeito = "senha"])
    BY <1>16 DEF TrocarSenha
  <2>3. [PedidoLivre EXCEPT !.passo = "consumir", !.reset = r,
               !.usuario = resets[r].usuario, !.efeito = "senha"] \in PedidoT
    BY PedidoMuda, Campos, LivresTipados DEF Passos, Efeitos
  <2> QED BY <2>1, <2>3, PedidoSegue
<1>17. ASSUME NEW p \in Chamadas, GastaLink(p) PROVE pedidos' \in [Chamadas -> PedidoT]
  <2>1. Avancar(p, [pedidos[p] EXCEPT !.passo = "senha"])
    BY <1>17 DEF GastaLink
  <2>3. [pedidos[p] EXCEPT !.passo = "senha"] \in PedidoT
    BY PedidoMuda, Campos, LivresTipados DEF Passos, Efeitos
  <2> QED BY <2>1, <2>3, PedidoSegue
<1>18. ASSUME NEW p \in Chamadas, AchaGasto(p) PROVE pedidos' \in [Chamadas -> PedidoT]
  BY <1>18, LivresTipados, PedidoSegue DEF AchaGasto, Terminar
<1>19. ASSUME NEW p \in Chamadas, AtualizarConta(p) PROVE pedidos' \in [Chamadas -> PedidoT]
  <2>1. Avancar(p, [pedidos[p] EXCEPT !.passo = "revogar",
               !.alvo = RevogarSessoesDoUsuario(pedidos[p].usuario)])
    BY <1>19 DEF AtualizarConta
  <2>2. RevogarSessoesDoUsuario(pedidos[p].usuario) \in SUBSET Tokens
    BY DEF RevogarFamilia, DaFamilia, RevogarSessoesDoUsuario, DoUsuario
  <2>3. [pedidos[p] EXCEPT !.passo = "revogar",
               !.alvo = RevogarSessoesDoUsuario(pedidos[p].usuario)] \in PedidoT
    BY <2>2, PedidoMuda, Campos, LivresTipados DEF Passos, Efeitos
  <2> QED BY <2>1, <2>3, PedidoSegue
<1>20. ASSUME NEW p \in Chamadas, NEW u \in Usuarios, AlterarConta(p, u) PROVE pedidos' \in [Chamadas -> PedidoT]
  <2>1. PICK efeito \in {"senha", "desativar"} :
          Avancar(p, [PedidoLivre EXCEPT !.passo = "senha", !.usuario = u, !.efeito = efeito])
    BY <1>20 DEF AlterarConta
  <2>3. [PedidoLivre EXCEPT !.passo = "senha", !.usuario = u, !.efeito = efeito] \in PedidoT
    BY PedidoMuda, Campos, LivresTipados DEF Passos, Efeitos
  <2> QED BY <2>1, <2>3, PedidoSegue
<1>21. ASSUME NEW p \in Chamadas, Cair(p) PROVE pedidos' \in [Chamadas -> PedidoT]
  BY <1>21, LivresTipados, PedidoSegue DEF Cair, Terminar
<1>22. ASSUME NEW u \in Usuarios, Reativar(u) PROVE pedidos' \in [Chamadas -> PedidoT]
  BY <1>22 DEF Reativar, TypeOKSessoes
<1>23. ASSUME UNCHANGED vars PROVE pedidos' \in [Chamadas -> PedidoT]
  BY <1>23 DEF vars, TypeOKSessoes
<1> QED
  BY <1>1, <1>2, <1>3, <1>4, <1>5, <1>6, <1>7, <1>8, <1>9, <1>10, <1>11, <1>12, <1>13, <1>14, <1>15, <1>16, <1>17, <1>18, <1>19, <1>20, <1>21, <1>22, <1>23,
     CasosDaRotacao, CasosDaSaida, CasosDoLink DEF Next, Passo

\* Every step leaves tokens that are tokens.
LEMMA TokensTipados ==
  ASSUME TypeOKSessoes, PedidosCoerentes, NovosDeUmSo, [Next]_vars PROVE tokens' \in [Tokens -> TokenT]
<1>1. ASSUME NEW p \in Chamadas, NEW u \in Usuarios, Login(p, u) PROVE tokens' \in [Tokens -> TokenT]
  BY <1>1 DEF Login, TypeOKSessoes
<1>2. ASSUME NEW p \in Chamadas, EmitirSessao(p) PROVE tokens' \in [Tokens -> TokenT]
  <2>1. PICK t \in Tokens : CriarRefresh(t, pedidos[p].usuario, pedidos[p].familia)
    BY <1>2 DEF EmitirSessao
  <2>2. [TokenLivre EXCEPT !.st = "pendente", !.usuario = pedidos[p].usuario,
           !.familia = pedidos[p].familia] \in TokenT
    BY Campos DEF TokenLivre, TokenT
  <2> QED BY <2>1, <2>2 DEF CriarRefresh, TypeOKSessoes
<1>3. ASSUME NEW p \in Chamadas, ContaInativa(p) PROVE tokens' \in [Tokens -> TokenT]
  BY <1>3 DEF ContaInativa, TypeOKSessoes
<1>4. ASSUME NEW p \in Chamadas, RegistrarLogin(p) PROVE tokens' \in [Tokens -> TokenT]
  BY <1>4, TokenMuda DEF RegistrarLogin, TypeOKSessoes
<1>5. ASSUME NEW p \in Chamadas, NEW t \in Tokens, Refresh(p, t) PROVE tokens' \in [Tokens -> TokenT]
  BY <1>5 DEF Refresh, TypeOKSessoes
<1>6. ASSUME NEW p \in Chamadas, Queima(p) PROVE tokens' \in [Tokens -> TokenT]
  BY <1>6, TokenMuda DEF Queima, RotacaoAplicada, TypeOKSessoes
<1>7. ASSUME NEW p \in Chamadas, PerdePorReuso(p) PROVE tokens' \in [Tokens -> TokenT]
  BY <1>7, LivresTipados DEF PerdePorReuso, Perde, TypeOKSessoes
<1>8. ASSUME NEW p \in Chamadas, PerdePorSaida(p) PROVE tokens' \in [Tokens -> TokenT]
  BY <1>8, LivresTipados DEF PerdePorSaida, Perde, TypeOKSessoes
<1>9. ASSUME NEW p \in Chamadas, ComitarRotacao(p) PROVE tokens' \in [Tokens -> TokenT]
  <2>1. pedidos[p].novo \in Tokens
    BY <1>9, EfeitoDoCommit
  <2> DEFINE a == [tokens EXCEPT ![pedidos[p].token].revogado = TRUE]
             b == [a EXCEPT ![pedidos[p].token].sucessor = pedidos[p].novo]
             c == [b EXCEPT ![pedidos[p].token].trava = Ninguem]
  <2>2. tokens' = [c EXCEPT ![pedidos[p].novo].st = "gravado"]
    BY <1>9 DEF ComitarRotacao
  <2>3. a \in [Tokens -> TokenT]
    BY TokenMuda DEF TypeOKSessoes
  <2> HIDE DEF a
  <2>4. b \in [Tokens -> TokenT]
    BY <2>1, <2>3, TokenMuda
  <2> HIDE DEF b
  <2>5. c \in [Tokens -> TokenT]
    BY <2>4, TokenMuda
  <2> HIDE DEF c
  <2> QED BY <2>2, <2>5, TokenMuda
<1>10. ASSUME NEW p \in Chamadas, RevogarFamiliaComprometida(p) PROVE tokens' \in [Tokens -> TokenT]
  BY <1>10 DEF RevogarFamiliaComprometida, TypeOKSessoes
<1>11. ASSUME NEW p \in Chamadas, ConcluirRevogacao(p) PROVE tokens' \in [Tokens -> TokenT]
  <2>1. \A t \in Tokens : [tokens[t] EXCEPT !.revogado = TRUE] \in TokenT
    BY DEF TypeOKSessoes, TokenT
  <2> QED BY <1>11, <2>1 DEF ConcluirRevogacao, TypeOKSessoes
<1>12. ASSUME NEW p \in Chamadas, NEW t \in Tokens, SaiDoToken(p, t) PROVE tokens' \in [Tokens -> TokenT]
  BY <1>12 DEF SaiDoToken, TypeOKSessoes
<1>13. ASSUME NEW p \in Chamadas, NEW u \in Usuarios, SaiDeTodas(p, u) PROVE tokens' \in [Tokens -> TokenT]
  BY <1>13 DEF SaiDeTodas, TypeOKSessoes
<1>14. ASSUME NEW p \in Chamadas, NEW u \in Usuarios, InvalidarResetsPendentes(p, u) PROVE tokens' \in [Tokens -> TokenT]
  BY <1>14 DEF InvalidarResetsPendentes, TypeOKSessoes
<1>15. ASSUME NEW p \in Chamadas, CriarReset(p) PROVE tokens' \in [Tokens -> TokenT]
  BY <1>15 DEF CriarReset, TypeOKSessoes
<1>16. ASSUME NEW p \in Chamadas, NEW r \in Resets, TrocarSenha(p, r) PROVE tokens' \in [Tokens -> TokenT]
  BY <1>16 DEF TrocarSenha, TypeOKSessoes
<1>17. ASSUME NEW p \in Chamadas, GastaLink(p) PROVE tokens' \in [Tokens -> TokenT]
  BY <1>17 DEF GastaLink, TypeOKSessoes
<1>18. ASSUME NEW p \in Chamadas, AchaGasto(p) PROVE tokens' \in [Tokens -> TokenT]
  BY <1>18 DEF AchaGasto, TypeOKSessoes
<1>19. ASSUME NEW p \in Chamadas, AtualizarConta(p) PROVE tokens' \in [Tokens -> TokenT]
  BY <1>19 DEF AtualizarConta, TypeOKSessoes
<1>20. ASSUME NEW p \in Chamadas, NEW u \in Usuarios, AlterarConta(p, u) PROVE tokens' \in [Tokens -> TokenT]
  BY <1>20 DEF AlterarConta, TypeOKSessoes
<1>21. ASSUME NEW p \in Chamadas, Cair(p) PROVE tokens' \in [Tokens -> TokenT]
  <2>1. \A t \in Tokens : [tokens[t] EXCEPT !.trava = Ninguem] \in TokenT
    BY DEF TypeOKSessoes, TokenT
  <2> QED BY <1>21, <2>1, LivresTipados DEF Cair, TypeOKSessoes
<1>22. ASSUME NEW u \in Usuarios, Reativar(u) PROVE tokens' \in [Tokens -> TokenT]
  BY <1>22 DEF Reativar, TypeOKSessoes
<1>23. ASSUME UNCHANGED vars PROVE tokens' \in [Tokens -> TokenT]
  BY <1>23 DEF vars, TypeOKSessoes
<1> QED
  BY <1>1, <1>2, <1>3, <1>4, <1>5, <1>6, <1>7, <1>8, <1>9, <1>10, <1>11, <1>12, <1>13, <1>14, <1>15, <1>16, <1>17, <1>18, <1>19, <1>20, <1>21, <1>22, <1>23,
     CasosDaRotacao, CasosDaSaida, CasosDoLink DEF Next, Passo

\* Every step leaves links that are links.
LEMMA ResetsTipados ==
  ASSUME TypeOKSessoes, PedidosCoerentes, NovosDeUmSo, [Next]_vars PROVE resets' \in [Resets -> ResetT]
<1>1. ASSUME NEW p \in Chamadas, NEW u \in Usuarios, Login(p, u) PROVE resets' \in [Resets -> ResetT]
  BY <1>1 DEF Login, TypeOKSessoes
<1>2. ASSUME NEW p \in Chamadas, EmitirSessao(p) PROVE resets' \in [Resets -> ResetT]
  BY <1>2 DEF EmitirSessao, TypeOKSessoes
<1>3. ASSUME NEW p \in Chamadas, ContaInativa(p) PROVE resets' \in [Resets -> ResetT]
  BY <1>3 DEF ContaInativa, TypeOKSessoes
<1>4. ASSUME NEW p \in Chamadas, RegistrarLogin(p) PROVE resets' \in [Resets -> ResetT]
  BY <1>4 DEF RegistrarLogin, TypeOKSessoes
<1>5. ASSUME NEW p \in Chamadas, NEW t \in Tokens, Refresh(p, t) PROVE resets' \in [Resets -> ResetT]
  BY <1>5 DEF Refresh, TypeOKSessoes
<1>6. ASSUME NEW p \in Chamadas, Queima(p) PROVE resets' \in [Resets -> ResetT]
  BY <1>6 DEF Queima, TypeOKSessoes
<1>7. ASSUME NEW p \in Chamadas, PerdePorReuso(p) PROVE resets' \in [Resets -> ResetT]
  BY <1>7 DEF PerdePorReuso, Perde, TypeOKSessoes
<1>8. ASSUME NEW p \in Chamadas, PerdePorSaida(p) PROVE resets' \in [Resets -> ResetT]
  BY <1>8 DEF PerdePorSaida, Perde, TypeOKSessoes
<1>9. ASSUME NEW p \in Chamadas, ComitarRotacao(p) PROVE resets' \in [Resets -> ResetT]
  BY <1>9 DEF ComitarRotacao, TypeOKSessoes
<1>10. ASSUME NEW p \in Chamadas, RevogarFamiliaComprometida(p) PROVE resets' \in [Resets -> ResetT]
  BY <1>10 DEF RevogarFamiliaComprometida, TypeOKSessoes
<1>11. ASSUME NEW p \in Chamadas, ConcluirRevogacao(p) PROVE resets' \in [Resets -> ResetT]
  <2>1. \A r \in Resets : [resets[r] EXCEPT !.usado = TRUE, !.trava = Ninguem] \in ResetT
    BY DEF TypeOKSessoes, ResetT
  <2> QED BY <1>11, <2>1 DEF ConcluirRevogacao, TypeOKSessoes
<1>12. ASSUME NEW p \in Chamadas, NEW t \in Tokens, SaiDoToken(p, t) PROVE resets' \in [Resets -> ResetT]
  BY <1>12 DEF SaiDoToken, TypeOKSessoes
<1>13. ASSUME NEW p \in Chamadas, NEW u \in Usuarios, SaiDeTodas(p, u) PROVE resets' \in [Resets -> ResetT]
  BY <1>13 DEF SaiDeTodas, TypeOKSessoes
<1>14. ASSUME NEW p \in Chamadas, NEW u \in Usuarios, InvalidarResetsPendentes(p, u) PROVE resets' \in [Resets -> ResetT]
  <2>1. \A r \in Resets : [resets[r] EXCEPT !.trava = p] \in ResetT
    BY DEF TypeOKSessoes, ResetT
  <2> QED BY <1>14, <2>1 DEF InvalidarResetsPendentes, TypeOKSessoes
<1>15. ASSUME NEW p \in Chamadas, CriarReset(p) PROVE resets' \in [Resets -> ResetT]
  <2>1. \A r \in Resets : [resets[r] EXCEPT !.usado = TRUE, !.trava = Ninguem] \in ResetT
    BY DEF TypeOKSessoes, ResetT
  <2>2. [ResetLivre EXCEPT !.st = "gravado", !.usuario = pedidos[p].usuario] \in ResetT
    BY Campos DEF ResetLivre, ResetT
  <2>3. PICK n \in Resets :
          resets' = [r \in Resets |->
            CASE r = n -> [ResetLivre EXCEPT !.st = "gravado", !.usuario = pedidos[p].usuario]
              [] r # n /\ resets[r].trava = p -> [resets[r] EXCEPT !.usado = TRUE, !.trava = Ninguem]
              [] OTHER -> resets[r]]
    BY <1>15 DEF CriarReset
  <2> QED BY <2>1, <2>2, <2>3 DEF TypeOKSessoes
<1>16. ASSUME NEW p \in Chamadas, NEW r \in Resets, TrocarSenha(p, r) PROVE resets' \in [Resets -> ResetT]
  BY <1>16 DEF TrocarSenha, TypeOKSessoes
<1>17. ASSUME NEW p \in Chamadas, GastaLink(p) PROVE resets' \in [Resets -> ResetT]
  BY <1>17 DEF GastaLink, TypeOKSessoes, ResetT
<1>18. ASSUME NEW p \in Chamadas, AchaGasto(p) PROVE resets' \in [Resets -> ResetT]
  BY <1>18 DEF AchaGasto, TypeOKSessoes
<1>19. ASSUME NEW p \in Chamadas, AtualizarConta(p) PROVE resets' \in [Resets -> ResetT]
  BY <1>19 DEF AtualizarConta, TypeOKSessoes
<1>20. ASSUME NEW p \in Chamadas, NEW u \in Usuarios, AlterarConta(p, u) PROVE resets' \in [Resets -> ResetT]
  BY <1>20 DEF AlterarConta, TypeOKSessoes
<1>21. ASSUME NEW p \in Chamadas, Cair(p) PROVE resets' \in [Resets -> ResetT]
  <2>1. \A r \in Resets : [resets[r] EXCEPT !.trava = Ninguem] \in ResetT
    BY DEF TypeOKSessoes, ResetT
  <2> QED BY <1>21, <2>1 DEF Cair, TypeOKSessoes
<1>22. ASSUME NEW u \in Usuarios, Reativar(u) PROVE resets' \in [Resets -> ResetT]
  BY <1>22 DEF Reativar, TypeOKSessoes
<1>23. ASSUME UNCHANGED vars PROVE resets' \in [Resets -> ResetT]
  BY <1>23 DEF vars, TypeOKSessoes
<1> QED
  BY <1>1, <1>2, <1>3, <1>4, <1>5, <1>6, <1>7, <1>8, <1>9, <1>10, <1>11, <1>12, <1>13, <1>14, <1>15, <1>16, <1>17, <1>18, <1>19, <1>20, <1>21, <1>22, <1>23,
     CasosDaRotacao, CasosDaSaida, CasosDoLink DEF Next, Passo

\* Every step leaves accounts that are accounts.
LEMMA ContasTipadas ==
  ASSUME TypeOKSessoes, PedidosCoerentes, NovosDeUmSo, [Next]_vars PROVE contas' \in [Usuarios -> ContaT]
<1>1. ASSUME NEW p \in Chamadas, NEW u \in Usuarios, Login(p, u) PROVE contas' \in [Usuarios -> ContaT]
  BY <1>1 DEF Login, TypeOKSessoes
<1>2. ASSUME NEW p \in Chamadas, EmitirSessao(p) PROVE contas' \in [Usuarios -> ContaT]
  BY <1>2 DEF EmitirSessao, TypeOKSessoes
<1>3. ASSUME NEW p \in Chamadas, ContaInativa(p) PROVE contas' \in [Usuarios -> ContaT]
  BY <1>3 DEF ContaInativa, TypeOKSessoes
<1>4. ASSUME NEW p \in Chamadas, RegistrarLogin(p) PROVE contas' \in [Usuarios -> ContaT]
  BY <1>4 DEF RegistrarLogin, TypeOKSessoes
<1>5. ASSUME NEW p \in Chamadas, NEW t \in Tokens, Refresh(p, t) PROVE contas' \in [Usuarios -> ContaT]
  BY <1>5 DEF Refresh, TypeOKSessoes
<1>6. ASSUME NEW p \in Chamadas, Queima(p) PROVE contas' \in [Usuarios -> ContaT]
  BY <1>6 DEF Queima, TypeOKSessoes
<1>7. ASSUME NEW p \in Chamadas, PerdePorReuso(p) PROVE contas' \in [Usuarios -> ContaT]
  BY <1>7 DEF PerdePorReuso, Perde, TypeOKSessoes
<1>8. ASSUME NEW p \in Chamadas, PerdePorSaida(p) PROVE contas' \in [Usuarios -> ContaT]
  BY <1>8 DEF PerdePorSaida, Perde, TypeOKSessoes
<1>9. ASSUME NEW p \in Chamadas, ComitarRotacao(p) PROVE contas' \in [Usuarios -> ContaT]
  BY <1>9 DEF ComitarRotacao, TypeOKSessoes
<1>10. ASSUME NEW p \in Chamadas, RevogarFamiliaComprometida(p) PROVE contas' \in [Usuarios -> ContaT]
  BY <1>10 DEF RevogarFamiliaComprometida, TypeOKSessoes
<1>11. ASSUME NEW p \in Chamadas, ConcluirRevogacao(p) PROVE contas' \in [Usuarios -> ContaT]
  <2>1. \A u \in Usuarios, e \in Efeitos : Aplicado(contas[u], e) \in ContaT
    BY DEF Aplicado, TypeOKSessoes, ContaT
  <2>2. pedidos[p].efeito \in Efeitos
    BY DEF TypeOKSessoes, PedidoT
  <2> QED BY <1>11, <2>1, <2>2 DEF ConcluirRevogacao, TypeOKSessoes
<1>12. ASSUME NEW p \in Chamadas, NEW t \in Tokens, SaiDoToken(p, t) PROVE contas' \in [Usuarios -> ContaT]
  BY <1>12 DEF SaiDoToken, TypeOKSessoes
<1>13. ASSUME NEW p \in Chamadas, NEW u \in Usuarios, SaiDeTodas(p, u) PROVE contas' \in [Usuarios -> ContaT]
  BY <1>13 DEF SaiDeTodas, TypeOKSessoes
<1>14. ASSUME NEW p \in Chamadas, NEW u \in Usuarios, InvalidarResetsPendentes(p, u) PROVE contas' \in [Usuarios -> ContaT]
  BY <1>14 DEF InvalidarResetsPendentes, TypeOKSessoes
<1>15. ASSUME NEW p \in Chamadas, CriarReset(p) PROVE contas' \in [Usuarios -> ContaT]
  BY <1>15 DEF CriarReset, TypeOKSessoes
<1>16. ASSUME NEW p \in Chamadas, NEW r \in Resets, TrocarSenha(p, r) PROVE contas' \in [Usuarios -> ContaT]
  BY <1>16 DEF TrocarSenha, TypeOKSessoes
<1>17. ASSUME NEW p \in Chamadas, GastaLink(p) PROVE contas' \in [Usuarios -> ContaT]
  BY <1>17 DEF GastaLink, TypeOKSessoes
<1>18. ASSUME NEW p \in Chamadas, AchaGasto(p) PROVE contas' \in [Usuarios -> ContaT]
  BY <1>18 DEF AchaGasto, TypeOKSessoes
<1>19. ASSUME NEW p \in Chamadas, AtualizarConta(p) PROVE contas' \in [Usuarios -> ContaT]
  BY <1>19 DEF AtualizarConta, TypeOKSessoes, ContaT
<1>20. ASSUME NEW p \in Chamadas, NEW u \in Usuarios, AlterarConta(p, u) PROVE contas' \in [Usuarios -> ContaT]
  BY <1>20 DEF AlterarConta, TypeOKSessoes
<1>21. ASSUME NEW p \in Chamadas, Cair(p) PROVE contas' \in [Usuarios -> ContaT]
  <2>1. \A u \in Usuarios : [contas[u] EXCEPT !.trava = Ninguem] \in ContaT
    BY DEF TypeOKSessoes, ContaT
  <2> QED BY <1>21, <2>1 DEF Cair, TypeOKSessoes
<1>22. ASSUME NEW u \in Usuarios, Reativar(u) PROVE contas' \in [Usuarios -> ContaT]
  BY <1>22 DEF Reativar, TypeOKSessoes, ContaT
<1>23. ASSUME UNCHANGED vars PROVE contas' \in [Usuarios -> ContaT]
  BY <1>23 DEF vars, TypeOKSessoes
<1> QED
  BY <1>1, <1>2, <1>3, <1>4, <1>5, <1>6, <1>7, <1>8, <1>9, <1>10, <1>11, <1>12, <1>13, <1>14, <1>15, <1>16, <1>17, <1>18, <1>19, <1>20, <1>21, <1>22, <1>23,
     CasosDaRotacao, CasosDaSaida, CasosDoLink DEF Next, Passo

-----------------------------------------------------------------------------
(* The strengthening, one conjunct and one action at a time.               *)

\* A revocation only marks tokens it saw committed, so the others stay blank.
LEMMA EmBrancoSegue ==
  ASSUME TypeOKSessoes, TokensEmBranco, NovosDeUmSo, PedidosCoerentes, Alcance, [Next]_vars PROVE TokensEmBranco'
<1> USE NinguemDeFora DEF Em, Avancar, Terminar, PedidoLivre, TokenLivre, Existe, NaoRevogado, Rotacionado, Revogado, Perde, TypeOKSessoes, TokenT, PedidoT, TokensEmBranco, NovosDeUmSo, PedidosCoerentes, Inserindo, Emitindo
<1>1. ASSUME NEW p \in Chamadas, NEW u \in Usuarios, Login(p, u) PROVE TokensEmBranco'
  BY <1>1 DEF Login
<1>2. ASSUME NEW p \in Chamadas, EmitirSessao(p) PROVE TokensEmBranco'
  BY <1>2 DEF EmitirSessao, CriarRefresh
<1>3. ASSUME NEW p \in Chamadas, ContaInativa(p) PROVE TokensEmBranco'
  BY <1>3 DEF ContaInativa
<1>4. ASSUME NEW p \in Chamadas, RegistrarLogin(p) PROVE TokensEmBranco'
  BY <1>4 DEF RegistrarLogin
<1>5. ASSUME NEW p \in Chamadas, NEW t \in Tokens, Refresh(p, t) PROVE TokensEmBranco'
  BY <1>5 DEF Refresh
<1>6. ASSUME NEW p \in Chamadas, Queima(p) PROVE TokensEmBranco'
  BY <1>6 DEF Queima, RotacaoAplicada
<1>7. ASSUME NEW p \in Chamadas, PerdePorReuso(p) PROVE TokensEmBranco'
  BY <1>7 DEF PerdePorReuso
<1>8. ASSUME NEW p \in Chamadas, PerdePorSaida(p) PROVE TokensEmBranco'
  BY <1>8 DEF PerdePorSaida
<1>9. ASSUME NEW p \in Chamadas, ComitarRotacao(p) PROVE TokensEmBranco'
  BY <1>9 DEF ComitarRotacao
<1>10. ASSUME NEW p \in Chamadas, RevogarFamiliaComprometida(p) PROVE TokensEmBranco'
  BY <1>10 DEF RevogarFamiliaComprometida, RevogarFamilia, DaFamilia
<1>11. ASSUME NEW p \in Chamadas, ConcluirRevogacao(p) PROVE TokensEmBranco'
  BY <1>11, EfeitoDaRevogacao DEF Alcance
<1>12. ASSUME NEW p \in Chamadas, NEW t \in Tokens, SaiDoToken(p, t) PROVE TokensEmBranco'
  BY <1>12 DEF SaiDoToken, RevogarFamilia, DaFamilia
<1>13. ASSUME NEW p \in Chamadas, NEW u \in Usuarios, SaiDeTodas(p, u) PROVE TokensEmBranco'
  BY <1>13 DEF SaiDeTodas, RevogarSessoesDoUsuario, DoUsuario
<1>14. ASSUME NEW p \in Chamadas, NEW u \in Usuarios, InvalidarResetsPendentes(p, u) PROVE TokensEmBranco'
  BY <1>14 DEF InvalidarResetsPendentes
<1>15. ASSUME NEW p \in Chamadas, CriarReset(p) PROVE TokensEmBranco'
  <2>1. /\ pedidos[p].passo = "criar" /\ UNCHANGED tokens
        /\ pedidos' = [pedidos EXCEPT ![p] = PedidoLivre]
    BY <1>15, EfeitoDaCriacao
  <2> QED BY <2>1
<1>16. ASSUME NEW p \in Chamadas, NEW r \in Resets, TrocarSenha(p, r) PROVE TokensEmBranco'
  BY <1>16 DEF TrocarSenha
<1>17. ASSUME NEW p \in Chamadas, GastaLink(p) PROVE TokensEmBranco'
  BY <1>17 DEF GastaLink
<1>18. ASSUME NEW p \in Chamadas, AchaGasto(p) PROVE TokensEmBranco'
  BY <1>18 DEF AchaGasto
<1>19. ASSUME NEW p \in Chamadas, AtualizarConta(p) PROVE TokensEmBranco'
  BY <1>19 DEF AtualizarConta, RevogarSessoesDoUsuario, DoUsuario
<1>20. ASSUME NEW p \in Chamadas, NEW u \in Usuarios, AlterarConta(p, u) PROVE TokensEmBranco'
  BY <1>20 DEF AlterarConta
<1>21. ASSUME NEW p \in Chamadas, Cair(p) PROVE TokensEmBranco'
  BY <1>21 DEF Cair
<1>22. ASSUME NEW u \in Usuarios, Reativar(u) PROVE TokensEmBranco'
  BY <1>22 DEF Reativar
<1>23. ASSUME UNCHANGED vars PROVE TokensEmBranco'
  BY <1>23 DEF vars
<1> QED
  BY <1>1, <1>2, <1>3, <1>4, <1>5, <1>6, <1>7, <1>8, <1>9, <1>10, <1>11, <1>12, <1>13, <1>14, <1>15, <1>16, <1>17, <1>18, <1>19, <1>20, <1>21, <1>22, <1>23,
     CasosDaRotacao, CasosDaSaida, CasosDoLink DEF Next, Passo

\* A free row is taken by one request only.
LEMMA NovosSeguem ==
  ASSUME TypeOKSessoes, TokensEmBranco, NovosDeUmSo, PedidosCoerentes, [Next]_vars PROVE NovosDeUmSo'
<1> USE NinguemDeFora DEF Em, Avancar, Terminar, PedidoLivre, TokenLivre, Existe, NaoRevogado, Rotacionado, Revogado, Perde, TypeOKSessoes, TokenT, PedidoT, TokensEmBranco, NovosDeUmSo, PedidosCoerentes, Inserindo, Emitindo
<1>1. ASSUME NEW p \in Chamadas, NEW u \in Usuarios, Login(p, u) PROVE NovosDeUmSo'
  BY <1>1 DEF Login
<1>2. ASSUME NEW p \in Chamadas, EmitirSessao(p) PROVE NovosDeUmSo'
  BY <1>2 DEF EmitirSessao, CriarRefresh
<1>3. ASSUME NEW p \in Chamadas, ContaInativa(p) PROVE NovosDeUmSo'
  BY <1>3 DEF ContaInativa
<1>4. ASSUME NEW p \in Chamadas, RegistrarLogin(p) PROVE NovosDeUmSo'
  BY <1>4 DEF RegistrarLogin
<1>5. ASSUME NEW p \in Chamadas, NEW t \in Tokens, Refresh(p, t) PROVE NovosDeUmSo'
  BY <1>5 DEF Refresh
<1>6. ASSUME NEW p \in Chamadas, Queima(p) PROVE NovosDeUmSo'
  BY <1>6 DEF Queima, RotacaoAplicada
<1>7. ASSUME NEW p \in Chamadas, PerdePorReuso(p) PROVE NovosDeUmSo'
  BY <1>7 DEF PerdePorReuso
<1>8. ASSUME NEW p \in Chamadas, PerdePorSaida(p) PROVE NovosDeUmSo'
  BY <1>8 DEF PerdePorSaida
<1>9. ASSUME NEW p \in Chamadas, ComitarRotacao(p) PROVE NovosDeUmSo'
  BY <1>9 DEF ComitarRotacao
<1>10. ASSUME NEW p \in Chamadas, RevogarFamiliaComprometida(p) PROVE NovosDeUmSo'
  BY <1>10 DEF RevogarFamiliaComprometida, RevogarFamilia, DaFamilia
<1>11. ASSUME NEW p \in Chamadas, ConcluirRevogacao(p) PROVE NovosDeUmSo'
  BY <1>11, EfeitoDaRevogacao
<1>12. ASSUME NEW p \in Chamadas, NEW t \in Tokens, SaiDoToken(p, t) PROVE NovosDeUmSo'
  BY <1>12 DEF SaiDoToken, RevogarFamilia, DaFamilia
<1>13. ASSUME NEW p \in Chamadas, NEW u \in Usuarios, SaiDeTodas(p, u) PROVE NovosDeUmSo'
  BY <1>13 DEF SaiDeTodas, RevogarSessoesDoUsuario, DoUsuario
<1>14. ASSUME NEW p \in Chamadas, NEW u \in Usuarios, InvalidarResetsPendentes(p, u) PROVE NovosDeUmSo'
  BY <1>14 DEF InvalidarResetsPendentes
<1>15. ASSUME NEW p \in Chamadas, CriarReset(p) PROVE NovosDeUmSo'
  <2>1. /\ pedidos[p].passo = "criar" /\ UNCHANGED tokens
        /\ pedidos' = [pedidos EXCEPT ![p] = PedidoLivre]
    BY <1>15, EfeitoDaCriacao
  <2> QED BY <2>1
<1>16. ASSUME NEW p \in Chamadas, NEW r \in Resets, TrocarSenha(p, r) PROVE NovosDeUmSo'
  BY <1>16 DEF TrocarSenha
<1>17. ASSUME NEW p \in Chamadas, GastaLink(p) PROVE NovosDeUmSo'
  BY <1>17 DEF GastaLink
<1>18. ASSUME NEW p \in Chamadas, AchaGasto(p) PROVE NovosDeUmSo'
  BY <1>18 DEF AchaGasto
<1>19. ASSUME NEW p \in Chamadas, AtualizarConta(p) PROVE NovosDeUmSo'
  BY <1>19 DEF AtualizarConta, RevogarSessoesDoUsuario, DoUsuario
<1>20. ASSUME NEW p \in Chamadas, NEW u \in Usuarios, AlterarConta(p, u) PROVE NovosDeUmSo'
  BY <1>20 DEF AlterarConta
<1>21. ASSUME NEW p \in Chamadas, Cair(p) PROVE NovosDeUmSo'
  BY <1>21 DEF Cair
<1>22. ASSUME NEW u \in Usuarios, Reativar(u) PROVE NovosDeUmSo'
  BY <1>22 DEF Reativar
<1>23. ASSUME UNCHANGED vars PROVE NovosDeUmSo'
  BY <1>23 DEF vars
<1> QED
  BY <1>1, <1>2, <1>3, <1>4, <1>5, <1>6, <1>7, <1>8, <1>9, <1>10, <1>11, <1>12, <1>13, <1>14, <1>15, <1>16, <1>17, <1>18, <1>19, <1>20, <1>21, <1>22, <1>23,
     CasosDaRotacao, CasosDaSaida, CasosDoLink DEF Next, Passo

\* A request keeps the family of the token it was shown.
LEMMA CoerentesSeguem ==
  ASSUME TypeOKSessoes, TokensEmBranco, NovosDeUmSo, PedidosCoerentes, [Next]_vars PROVE PedidosCoerentes'
<1> USE NinguemDeFora DEF Em, Avancar, Terminar, PedidoLivre, TokenLivre, Existe, NaoRevogado, Rotacionado, Revogado, Perde, TypeOKSessoes, TokenT, PedidoT, TokensEmBranco, NovosDeUmSo, PedidosCoerentes, Inserindo, Emitindo
<1>1. ASSUME NEW p \in Chamadas, NEW u \in Usuarios, Login(p, u) PROVE PedidosCoerentes'
  BY <1>1 DEF Login
<1>2. ASSUME NEW p \in Chamadas, EmitirSessao(p) PROVE PedidosCoerentes'
  BY <1>2 DEF EmitirSessao, CriarRefresh
<1>3. ASSUME NEW p \in Chamadas, ContaInativa(p) PROVE PedidosCoerentes'
  BY <1>3 DEF ContaInativa
<1>4. ASSUME NEW p \in Chamadas, RegistrarLogin(p) PROVE PedidosCoerentes'
  BY <1>4 DEF RegistrarLogin
<1>5. ASSUME NEW p \in Chamadas, NEW t \in Tokens, Refresh(p, t) PROVE PedidosCoerentes'
  BY <1>5 DEF Refresh
<1>6. ASSUME NEW p \in Chamadas, Queima(p) PROVE PedidosCoerentes'
  BY <1>6 DEF Queima, RotacaoAplicada
<1>7. ASSUME NEW p \in Chamadas, PerdePorReuso(p) PROVE PedidosCoerentes'
  BY <1>7 DEF PerdePorReuso
<1>8. ASSUME NEW p \in Chamadas, PerdePorSaida(p) PROVE PedidosCoerentes'
  BY <1>8 DEF PerdePorSaida
<1>9. ASSUME NEW p \in Chamadas, ComitarRotacao(p) PROVE PedidosCoerentes'
  BY <1>9 DEF ComitarRotacao
<1>10. ASSUME NEW p \in Chamadas, RevogarFamiliaComprometida(p) PROVE PedidosCoerentes'
  BY <1>10 DEF RevogarFamiliaComprometida, RevogarFamilia, DaFamilia
<1>11. ASSUME NEW p \in Chamadas, ConcluirRevogacao(p) PROVE PedidosCoerentes'
  BY <1>11, EfeitoDaRevogacao
<1>12. ASSUME NEW p \in Chamadas, NEW t \in Tokens, SaiDoToken(p, t) PROVE PedidosCoerentes'
  BY <1>12 DEF SaiDoToken, RevogarFamilia, DaFamilia
<1>13. ASSUME NEW p \in Chamadas, NEW u \in Usuarios, SaiDeTodas(p, u) PROVE PedidosCoerentes'
  BY <1>13 DEF SaiDeTodas, RevogarSessoesDoUsuario, DoUsuario
<1>14. ASSUME NEW p \in Chamadas, NEW u \in Usuarios, InvalidarResetsPendentes(p, u) PROVE PedidosCoerentes'
  BY <1>14 DEF InvalidarResetsPendentes
<1>15. ASSUME NEW p \in Chamadas, CriarReset(p) PROVE PedidosCoerentes'
  <2>1. /\ pedidos[p].passo = "criar" /\ UNCHANGED tokens
        /\ pedidos' = [pedidos EXCEPT ![p] = PedidoLivre]
    BY <1>15, EfeitoDaCriacao
  <2> QED BY <2>1
<1>16. ASSUME NEW p \in Chamadas, NEW r \in Resets, TrocarSenha(p, r) PROVE PedidosCoerentes'
  BY <1>16 DEF TrocarSenha
<1>17. ASSUME NEW p \in Chamadas, GastaLink(p) PROVE PedidosCoerentes'
  BY <1>17 DEF GastaLink
<1>18. ASSUME NEW p \in Chamadas, AchaGasto(p) PROVE PedidosCoerentes'
  BY <1>18 DEF AchaGasto
<1>19. ASSUME NEW p \in Chamadas, AtualizarConta(p) PROVE PedidosCoerentes'
  <2>1. PICK a \in SUBSET {t \in Tokens : Existe(t)} :
          pedidos' = [pedidos EXCEPT ![p] = [pedidos[p] EXCEPT !.passo = "revogar", !.alvo = a]]
    BY <1>19, EfeitoNaConta
  <2>2. pedidos[p].passo = "senha" /\ UNCHANGED tokens
    BY <1>19, EfeitoNaConta
  <2> QED BY <2>1, <2>2
<1>20. ASSUME NEW p \in Chamadas, NEW u \in Usuarios, AlterarConta(p, u) PROVE PedidosCoerentes'
  BY <1>20 DEF AlterarConta
<1>21. ASSUME NEW p \in Chamadas, Cair(p) PROVE PedidosCoerentes'
  BY <1>21 DEF Cair
<1>22. ASSUME NEW u \in Usuarios, Reativar(u) PROVE PedidosCoerentes'
  BY <1>22 DEF Reativar
<1>23. ASSUME UNCHANGED vars PROVE PedidosCoerentes'
  BY <1>23 DEF vars
<1> QED
  BY <1>1, <1>2, <1>3, <1>4, <1>5, <1>6, <1>7, <1>8, <1>9, <1>10, <1>11, <1>12, <1>13, <1>14, <1>15, <1>16, <1>17, <1>18, <1>19, <1>20, <1>21, <1>22, <1>23,
     CasosDaRotacao, CasosDaSaida, CasosDoLink DEF Next, Passo

\* A login's family is new and only a login picks one.
LEMMA FamiliaSegue ==
  ASSUME TypeOKSessoes, TokensEmBranco, NovosDeUmSo, PedidosCoerentes, FamiliaNova, [Next]_vars PROVE FamiliaNova'
<1> USE NinguemDeFora DEF Em, Avancar, Terminar, PedidoLivre, TokenLivre, Existe, NaoRevogado, Rotacionado, Revogado, Perde, TypeOKSessoes, TokenT, PedidoT, TokensEmBranco, NovosDeUmSo, PedidosCoerentes, Inserindo, Emitindo, FamiliaNova
<1>1. ASSUME NEW p \in Chamadas, NEW u \in Usuarios, Login(p, u) PROVE FamiliaNova'
  BY <1>1 DEF Login
<1>2. ASSUME NEW p \in Chamadas, EmitirSessao(p) PROVE FamiliaNova'
  BY <1>2 DEF EmitirSessao, CriarRefresh
<1>3. ASSUME NEW p \in Chamadas, ContaInativa(p) PROVE FamiliaNova'
  BY <1>3 DEF ContaInativa
<1>4. ASSUME NEW p \in Chamadas, RegistrarLogin(p) PROVE FamiliaNova'
  BY <1>4 DEF RegistrarLogin
<1>5. ASSUME NEW p \in Chamadas, NEW t \in Tokens, Refresh(p, t) PROVE FamiliaNova'
  BY <1>5 DEF Refresh
<1>6. ASSUME NEW p \in Chamadas, Queima(p) PROVE FamiliaNova'
  BY <1>6 DEF Queima, RotacaoAplicada
<1>7. ASSUME NEW p \in Chamadas, PerdePorReuso(p) PROVE FamiliaNova'
  BY <1>7 DEF PerdePorReuso
<1>8. ASSUME NEW p \in Chamadas, PerdePorSaida(p) PROVE FamiliaNova'
  BY <1>8 DEF PerdePorSaida
<1>9. ASSUME NEW p \in Chamadas, ComitarRotacao(p) PROVE FamiliaNova'
  <2>1. pedidos' = [pedidos EXCEPT ![p] = PedidoLivre]
    BY <1>9, EfeitoDoCommit
  <2>2. \A t \in Tokens : tokens'[t].familia = tokens[t].familia
    BY <1>9, EfeitoDoCommit
  <2> QED BY <2>1, <2>2
<1>10. ASSUME NEW p \in Chamadas, RevogarFamiliaComprometida(p) PROVE FamiliaNova'
  BY <1>10 DEF RevogarFamiliaComprometida, RevogarFamilia, DaFamilia
<1>11. ASSUME NEW p \in Chamadas, ConcluirRevogacao(p) PROVE FamiliaNova'
  BY <1>11, EfeitoDaRevogacao
<1>12. ASSUME NEW p \in Chamadas, NEW t \in Tokens, SaiDoToken(p, t) PROVE FamiliaNova'
  BY <1>12 DEF SaiDoToken, RevogarFamilia, DaFamilia
<1>13. ASSUME NEW p \in Chamadas, NEW u \in Usuarios, SaiDeTodas(p, u) PROVE FamiliaNova'
  BY <1>13 DEF SaiDeTodas, RevogarSessoesDoUsuario, DoUsuario
<1>14. ASSUME NEW p \in Chamadas, NEW u \in Usuarios, InvalidarResetsPendentes(p, u) PROVE FamiliaNova'
  BY <1>14 DEF InvalidarResetsPendentes
<1>15. ASSUME NEW p \in Chamadas, CriarReset(p) PROVE FamiliaNova'
  <2>1. /\ pedidos[p].passo = "criar" /\ UNCHANGED tokens
        /\ pedidos' = [pedidos EXCEPT ![p] = PedidoLivre]
    BY <1>15, EfeitoDaCriacao
  <2> QED BY <2>1
<1>16. ASSUME NEW p \in Chamadas, NEW r \in Resets, TrocarSenha(p, r) PROVE FamiliaNova'
  BY <1>16 DEF TrocarSenha
<1>17. ASSUME NEW p \in Chamadas, GastaLink(p) PROVE FamiliaNova'
  BY <1>17 DEF GastaLink
<1>18. ASSUME NEW p \in Chamadas, AchaGasto(p) PROVE FamiliaNova'
  BY <1>18 DEF AchaGasto
<1>19. ASSUME NEW p \in Chamadas, AtualizarConta(p) PROVE FamiliaNova'
  BY <1>19 DEF AtualizarConta, RevogarSessoesDoUsuario, DoUsuario
<1>20. ASSUME NEW p \in Chamadas, NEW u \in Usuarios, AlterarConta(p, u) PROVE FamiliaNova'
  BY <1>20 DEF AlterarConta
<1>21. ASSUME NEW p \in Chamadas, Cair(p) PROVE FamiliaNova'
  BY <1>21 DEF Cair
<1>22. ASSUME NEW u \in Usuarios, Reativar(u) PROVE FamiliaNova'
  BY <1>22 DEF Reativar
<1>23. ASSUME UNCHANGED vars PROVE FamiliaNova'
  BY <1>23 DEF vars
<1> QED
  BY <1>1, <1>2, <1>3, <1>4, <1>5, <1>6, <1>7, <1>8, <1>9, <1>10, <1>11, <1>12, <1>13, <1>14, <1>15, <1>16, <1>17, <1>18, <1>19, <1>20, <1>21, <1>22, <1>23,
     CasosDaRotacao, CasosDaSaida, CasosDoLink DEF Next, Passo

\* The row lock keeps everybody else off a token being exchanged.
LEMMA QueimaSegue ==
  ASSUME TypeOKSessoes, TokensEmBranco, NovosDeUmSo, PedidosCoerentes, Queimando, [Next]_vars PROVE Queimando'
<1> USE NinguemDeFora DEF Em, Avancar, Terminar, PedidoLivre, TokenLivre, Existe, NaoRevogado, Rotacionado, Revogado, Perde, TypeOKSessoes, TokenT, PedidoT, TokensEmBranco, NovosDeUmSo, PedidosCoerentes, Inserindo, Emitindo, Queimando
<1>1. ASSUME NEW p \in Chamadas, NEW u \in Usuarios, Login(p, u) PROVE Queimando'
  BY <1>1 DEF Login
<1>2. ASSUME NEW p \in Chamadas, EmitirSessao(p) PROVE Queimando'
  BY <1>2 DEF EmitirSessao, CriarRefresh
<1>3. ASSUME NEW p \in Chamadas, ContaInativa(p) PROVE Queimando'
  BY <1>3 DEF ContaInativa
<1>4. ASSUME NEW p \in Chamadas, RegistrarLogin(p) PROVE Queimando'
  BY <1>4 DEF RegistrarLogin
<1>5. ASSUME NEW p \in Chamadas, NEW t \in Tokens, Refresh(p, t) PROVE Queimando'
  BY <1>5 DEF Refresh
<1>6. ASSUME NEW p \in Chamadas, Queima(p) PROVE Queimando'
  BY <1>6 DEF Queima, RotacaoAplicada
<1>7. ASSUME NEW p \in Chamadas, PerdePorReuso(p) PROVE Queimando'
  BY <1>7 DEF PerdePorReuso
<1>8. ASSUME NEW p \in Chamadas, PerdePorSaida(p) PROVE Queimando'
  BY <1>8 DEF PerdePorSaida
<1>9. ASSUME NEW p \in Chamadas, ComitarRotacao(p) PROVE Queimando'
  BY <1>9 DEF ComitarRotacao
<1>10. ASSUME NEW p \in Chamadas, RevogarFamiliaComprometida(p) PROVE Queimando'
  BY <1>10 DEF RevogarFamiliaComprometida, RevogarFamilia, DaFamilia
<1>11. ASSUME NEW p \in Chamadas, ConcluirRevogacao(p) PROVE Queimando'
  BY <1>11, EfeitoDaRevogacao
<1>12. ASSUME NEW p \in Chamadas, NEW t \in Tokens, SaiDoToken(p, t) PROVE Queimando'
  BY <1>12 DEF SaiDoToken, RevogarFamilia, DaFamilia
<1>13. ASSUME NEW p \in Chamadas, NEW u \in Usuarios, SaiDeTodas(p, u) PROVE Queimando'
  BY <1>13 DEF SaiDeTodas, RevogarSessoesDoUsuario, DoUsuario
<1>14. ASSUME NEW p \in Chamadas, NEW u \in Usuarios, InvalidarResetsPendentes(p, u) PROVE Queimando'
  BY <1>14 DEF InvalidarResetsPendentes
<1>15. ASSUME NEW p \in Chamadas, CriarReset(p) PROVE Queimando'
  <2>1. /\ pedidos[p].passo = "criar" /\ UNCHANGED tokens
        /\ pedidos' = [pedidos EXCEPT ![p] = PedidoLivre]
    BY <1>15, EfeitoDaCriacao
  <2> QED BY <2>1
<1>16. ASSUME NEW p \in Chamadas, NEW r \in Resets, TrocarSenha(p, r) PROVE Queimando'
  BY <1>16 DEF TrocarSenha
<1>17. ASSUME NEW p \in Chamadas, GastaLink(p) PROVE Queimando'
  BY <1>17 DEF GastaLink
<1>18. ASSUME NEW p \in Chamadas, AchaGasto(p) PROVE Queimando'
  BY <1>18 DEF AchaGasto
<1>19. ASSUME NEW p \in Chamadas, AtualizarConta(p) PROVE Queimando'
  BY <1>19 DEF AtualizarConta, RevogarSessoesDoUsuario, DoUsuario
<1>20. ASSUME NEW p \in Chamadas, NEW u \in Usuarios, AlterarConta(p, u) PROVE Queimando'
  BY <1>20 DEF AlterarConta
<1>21. ASSUME NEW p \in Chamadas, Cair(p) PROVE Queimando'
  BY <1>21 DEF Cair
<1>22. ASSUME NEW u \in Usuarios, Reativar(u) PROVE Queimando'
  BY <1>22 DEF Reativar
<1>23. ASSUME UNCHANGED vars PROVE Queimando'
  BY <1>23 DEF vars
<1> QED
  BY <1>1, <1>2, <1>3, <1>4, <1>5, <1>6, <1>7, <1>8, <1>9, <1>10, <1>11, <1>12, <1>13, <1>14, <1>15, <1>16, <1>17, <1>18, <1>19, <1>20, <1>21, <1>22, <1>23,
     CasosDaRotacao, CasosDaSaida, CasosDoLink DEF Next, Passo

\* The commit of a rotation makes one token visible and spends the one before
\* it; a login's token is alone in a new family.
LEMMA EloSegue ==
  ASSUME TypeOKSessoes, TokensEmBranco, NovosDeUmSo, PedidosCoerentes, FamiliaNova, Queimando, UmElo, [Next]_vars PROVE UmElo'
<1> USE NinguemDeFora DEF Em, Avancar, Terminar, PedidoLivre, TokenLivre, Existe, NaoRevogado, Rotacionado, Revogado, Perde, TypeOKSessoes, TokenT, PedidoT, TokensEmBranco, NovosDeUmSo, PedidosCoerentes, Inserindo, Emitindo, Queimando, FamiliaNova, UmElo
<1>1. ASSUME NEW p \in Chamadas, NEW u \in Usuarios, Login(p, u) PROVE UmElo'
  BY <1>1 DEF Login
<1>2. ASSUME NEW p \in Chamadas, EmitirSessao(p) PROVE UmElo'
  BY <1>2 DEF EmitirSessao, CriarRefresh
<1>3. ASSUME NEW p \in Chamadas, ContaInativa(p) PROVE UmElo'
  BY <1>3 DEF ContaInativa
<1>4. ASSUME NEW p \in Chamadas, RegistrarLogin(p) PROVE UmElo'
  BY <1>4 DEF RegistrarLogin
<1>5. ASSUME NEW p \in Chamadas, NEW t \in Tokens, Refresh(p, t) PROVE UmElo'
  BY <1>5 DEF Refresh
<1>6. ASSUME NEW p \in Chamadas, Queima(p) PROVE UmElo'
  BY <1>6 DEF Queima, RotacaoAplicada
<1>7. ASSUME NEW p \in Chamadas, PerdePorReuso(p) PROVE UmElo'
  BY <1>7 DEF PerdePorReuso
<1>8. ASSUME NEW p \in Chamadas, PerdePorSaida(p) PROVE UmElo'
  BY <1>8 DEF PerdePorSaida
<1>9. ASSUME NEW p \in Chamadas, ComitarRotacao(p) PROVE UmElo'
  BY <1>9 DEF ComitarRotacao
<1>10. ASSUME NEW p \in Chamadas, RevogarFamiliaComprometida(p) PROVE UmElo'
  BY <1>10 DEF RevogarFamiliaComprometida, RevogarFamilia, DaFamilia
<1>11. ASSUME NEW p \in Chamadas, ConcluirRevogacao(p) PROVE UmElo'
  BY <1>11, EfeitoDaRevogacao
<1>12. ASSUME NEW p \in Chamadas, NEW t \in Tokens, SaiDoToken(p, t) PROVE UmElo'
  BY <1>12 DEF SaiDoToken, RevogarFamilia, DaFamilia
<1>13. ASSUME NEW p \in Chamadas, NEW u \in Usuarios, SaiDeTodas(p, u) PROVE UmElo'
  BY <1>13 DEF SaiDeTodas, RevogarSessoesDoUsuario, DoUsuario
<1>14. ASSUME NEW p \in Chamadas, NEW u \in Usuarios, InvalidarResetsPendentes(p, u) PROVE UmElo'
  BY <1>14 DEF InvalidarResetsPendentes
<1>15. ASSUME NEW p \in Chamadas, CriarReset(p) PROVE UmElo'
  <2>1. /\ pedidos[p].passo = "criar" /\ UNCHANGED tokens
        /\ pedidos' = [pedidos EXCEPT ![p] = PedidoLivre]
    BY <1>15, EfeitoDaCriacao
  <2> QED BY <2>1
<1>16. ASSUME NEW p \in Chamadas, NEW r \in Resets, TrocarSenha(p, r) PROVE UmElo'
  BY <1>16 DEF TrocarSenha
<1>17. ASSUME NEW p \in Chamadas, GastaLink(p) PROVE UmElo'
  BY <1>17 DEF GastaLink
<1>18. ASSUME NEW p \in Chamadas, AchaGasto(p) PROVE UmElo'
  BY <1>18 DEF AchaGasto
<1>19. ASSUME NEW p \in Chamadas, AtualizarConta(p) PROVE UmElo'
  BY <1>19 DEF AtualizarConta, RevogarSessoesDoUsuario, DoUsuario
<1>20. ASSUME NEW p \in Chamadas, NEW u \in Usuarios, AlterarConta(p, u) PROVE UmElo'
  BY <1>20 DEF AlterarConta
<1>21. ASSUME NEW p \in Chamadas, Cair(p) PROVE UmElo'
  BY <1>21 DEF Cair
<1>22. ASSUME NEW u \in Usuarios, Reativar(u) PROVE UmElo'
  BY <1>22 DEF Reativar
<1>23. ASSUME UNCHANGED vars PROVE UmElo'
  BY <1>23 DEF vars
<1> QED
  BY <1>1, <1>2, <1>3, <1>4, <1>5, <1>6, <1>7, <1>8, <1>9, <1>10, <1>11, <1>12, <1>13, <1>14, <1>15, <1>16, <1>17, <1>18, <1>19, <1>20, <1>21, <1>22, <1>23,
     CasosDaRotacao, CasosDaSaida, CasosDoLink DEF Next, Passo

\* A rotation reads the successor in the row it lost.
LEMMA ReusoSegue ==
  ASSUME TypeOKSessoes, TokensEmBranco, NovosDeUmSo, PedidosCoerentes, ReusoSoComSucessor, [Next]_vars PROVE ReusoSoComSucessor'
<1> USE NinguemDeFora DEF Em, Avancar, Terminar, PedidoLivre, TokenLivre, Existe, NaoRevogado, Rotacionado, Revogado, Perde, TypeOKSessoes, TokenT, PedidoT, TokensEmBranco, NovosDeUmSo, PedidosCoerentes, Inserindo, Emitindo, ReusoSoComSucessor
<1>1. ASSUME NEW p \in Chamadas, NEW u \in Usuarios, Login(p, u) PROVE ReusoSoComSucessor'
  BY <1>1 DEF Login
<1>2. ASSUME NEW p \in Chamadas, EmitirSessao(p) PROVE ReusoSoComSucessor'
  BY <1>2 DEF EmitirSessao, CriarRefresh
<1>3. ASSUME NEW p \in Chamadas, ContaInativa(p) PROVE ReusoSoComSucessor'
  BY <1>3 DEF ContaInativa
<1>4. ASSUME NEW p \in Chamadas, RegistrarLogin(p) PROVE ReusoSoComSucessor'
  BY <1>4 DEF RegistrarLogin
<1>5. ASSUME NEW p \in Chamadas, NEW t \in Tokens, Refresh(p, t) PROVE ReusoSoComSucessor'
  BY <1>5 DEF Refresh
<1>6. ASSUME NEW p \in Chamadas, Queima(p) PROVE ReusoSoComSucessor'
  BY <1>6 DEF Queima, RotacaoAplicada
<1>7. ASSUME NEW p \in Chamadas, PerdePorReuso(p) PROVE ReusoSoComSucessor'
  BY <1>7 DEF PerdePorReuso
<1>8. ASSUME NEW p \in Chamadas, PerdePorSaida(p) PROVE ReusoSoComSucessor'
  BY <1>8 DEF PerdePorSaida
<1>9. ASSUME NEW p \in Chamadas, ComitarRotacao(p) PROVE ReusoSoComSucessor'
  BY <1>9 DEF ComitarRotacao
<1>10. ASSUME NEW p \in Chamadas, RevogarFamiliaComprometida(p) PROVE ReusoSoComSucessor'
  BY <1>10 DEF RevogarFamiliaComprometida, RevogarFamilia, DaFamilia
<1>11. ASSUME NEW p \in Chamadas, ConcluirRevogacao(p) PROVE ReusoSoComSucessor'
  BY <1>11, EfeitoDaRevogacao
<1>12. ASSUME NEW p \in Chamadas, NEW t \in Tokens, SaiDoToken(p, t) PROVE ReusoSoComSucessor'
  BY <1>12 DEF SaiDoToken, RevogarFamilia, DaFamilia
<1>13. ASSUME NEW p \in Chamadas, NEW u \in Usuarios, SaiDeTodas(p, u) PROVE ReusoSoComSucessor'
  BY <1>13 DEF SaiDeTodas, RevogarSessoesDoUsuario, DoUsuario
<1>14. ASSUME NEW p \in Chamadas, NEW u \in Usuarios, InvalidarResetsPendentes(p, u) PROVE ReusoSoComSucessor'
  BY <1>14 DEF InvalidarResetsPendentes
<1>15. ASSUME NEW p \in Chamadas, CriarReset(p) PROVE ReusoSoComSucessor'
  <2>1. /\ pedidos[p].passo = "criar" /\ UNCHANGED tokens
        /\ pedidos' = [pedidos EXCEPT ![p] = PedidoLivre]
    BY <1>15, EfeitoDaCriacao
  <2> QED BY <2>1
<1>16. ASSUME NEW p \in Chamadas, NEW r \in Resets, TrocarSenha(p, r) PROVE ReusoSoComSucessor'
  BY <1>16 DEF TrocarSenha
<1>17. ASSUME NEW p \in Chamadas, GastaLink(p) PROVE ReusoSoComSucessor'
  BY <1>17 DEF GastaLink
<1>18. ASSUME NEW p \in Chamadas, AchaGasto(p) PROVE ReusoSoComSucessor'
  BY <1>18 DEF AchaGasto
<1>19. ASSUME NEW p \in Chamadas, AtualizarConta(p) PROVE ReusoSoComSucessor'
  BY <1>19 DEF AtualizarConta, RevogarSessoesDoUsuario, DoUsuario
<1>20. ASSUME NEW p \in Chamadas, NEW u \in Usuarios, AlterarConta(p, u) PROVE ReusoSoComSucessor'
  BY <1>20 DEF AlterarConta
<1>21. ASSUME NEW p \in Chamadas, Cair(p) PROVE ReusoSoComSucessor'
  BY <1>21 DEF Cair
<1>22. ASSUME NEW u \in Usuarios, Reativar(u) PROVE ReusoSoComSucessor'
  BY <1>22 DEF Reativar
<1>23. ASSUME UNCHANGED vars PROVE ReusoSoComSucessor'
  BY <1>23 DEF vars
<1> QED
  BY <1>1, <1>2, <1>3, <1>4, <1>5, <1>6, <1>7, <1>8, <1>9, <1>10, <1>11, <1>12, <1>13, <1>14, <1>15, <1>16, <1>17, <1>18, <1>19, <1>20, <1>21, <1>22, <1>23,
     CasosDaRotacao, CasosDaSaida, CasosDoLink DEF Next, Passo

\* Links are never deleted.
LEMMA LinksSeguem ==
  ASSUME TypeOKSessoes, LinksExistem, [Next]_vars PROVE LinksExistem'
<1> USE NinguemDeFora DEF Em, Avancar, Terminar, PedidoLivre, TokenLivre, Existe, NaoRevogado, Rotacionado, Revogado, Perde, TypeOKSessoes, PedidoT, ResetT, LinksExistem
<1>1. ASSUME NEW p \in Chamadas, NEW u \in Usuarios, Login(p, u) PROVE LinksExistem'
  BY <1>1 DEF Login
<1>2. ASSUME NEW p \in Chamadas, EmitirSessao(p) PROVE LinksExistem'
  BY <1>2 DEF EmitirSessao, CriarRefresh
<1>3. ASSUME NEW p \in Chamadas, ContaInativa(p) PROVE LinksExistem'
  BY <1>3 DEF ContaInativa
<1>4. ASSUME NEW p \in Chamadas, RegistrarLogin(p) PROVE LinksExistem'
  BY <1>4 DEF RegistrarLogin
<1>5. ASSUME NEW p \in Chamadas, NEW t \in Tokens, Refresh(p, t) PROVE LinksExistem'
  BY <1>5 DEF Refresh
<1>6. ASSUME NEW p \in Chamadas, Queima(p) PROVE LinksExistem'
  BY <1>6 DEF Queima, RotacaoAplicada
<1>7. ASSUME NEW p \in Chamadas, PerdePorReuso(p) PROVE LinksExistem'
  BY <1>7 DEF PerdePorReuso
<1>8. ASSUME NEW p \in Chamadas, PerdePorSaida(p) PROVE LinksExistem'
  BY <1>8 DEF PerdePorSaida
<1>9. ASSUME NEW p \in Chamadas, ComitarRotacao(p) PROVE LinksExistem'
  BY <1>9 DEF ComitarRotacao
<1>10. ASSUME NEW p \in Chamadas, RevogarFamiliaComprometida(p) PROVE LinksExistem'
  BY <1>10 DEF RevogarFamiliaComprometida, RevogarFamilia, DaFamilia
<1>11. ASSUME NEW p \in Chamadas, ConcluirRevogacao(p) PROVE LinksExistem'
  BY <1>11, EfeitoDaRevogacao
<1>12. ASSUME NEW p \in Chamadas, NEW t \in Tokens, SaiDoToken(p, t) PROVE LinksExistem'
  BY <1>12 DEF SaiDoToken, RevogarFamilia, DaFamilia
<1>13. ASSUME NEW p \in Chamadas, NEW u \in Usuarios, SaiDeTodas(p, u) PROVE LinksExistem'
  BY <1>13 DEF SaiDeTodas, RevogarSessoesDoUsuario, DoUsuario
<1>14. ASSUME NEW p \in Chamadas, NEW u \in Usuarios, InvalidarResetsPendentes(p, u) PROVE LinksExistem'
  BY <1>14 DEF InvalidarResetsPendentes
<1>15. ASSUME NEW p \in Chamadas, CriarReset(p) PROVE LinksExistem'
  BY <1>15, EfeitoDaCriacao
<1>16. ASSUME NEW p \in Chamadas, NEW r \in Resets, TrocarSenha(p, r) PROVE LinksExistem'
  BY <1>16 DEF TrocarSenha
<1>17. ASSUME NEW p \in Chamadas, GastaLink(p) PROVE LinksExistem'
  BY <1>17 DEF GastaLink
<1>18. ASSUME NEW p \in Chamadas, AchaGasto(p) PROVE LinksExistem'
  BY <1>18 DEF AchaGasto
<1>19. ASSUME NEW p \in Chamadas, AtualizarConta(p) PROVE LinksExistem'
  BY <1>19 DEF AtualizarConta, RevogarSessoesDoUsuario, DoUsuario
<1>20. ASSUME NEW p \in Chamadas, NEW u \in Usuarios, AlterarConta(p, u) PROVE LinksExistem'
  BY <1>20 DEF AlterarConta
<1>21. ASSUME NEW p \in Chamadas, Cair(p) PROVE LinksExistem'
  BY <1>21 DEF Cair
<1>22. ASSUME NEW u \in Usuarios, Reativar(u) PROVE LinksExistem'
  BY <1>22 DEF Reativar
<1>23. ASSUME UNCHANGED vars PROVE LinksExistem'
  BY <1>23 DEF vars
<1> QED
  BY <1>1, <1>2, <1>3, <1>4, <1>5, <1>6, <1>7, <1>8, <1>9, <1>10, <1>11, <1>12, <1>13, <1>14, <1>15, <1>16, <1>17, <1>18, <1>19, <1>20, <1>21, <1>22, <1>23,
     CasosDaRotacao, CasosDaSaida, CasosDoLink DEF Next, Passo

\* The row lock keeps everybody else off a link being spent.
LEMMA GastoSegue ==
  ASSUME TypeOKSessoes, LinksExistem, LinkGastoUmaVez, [Next]_vars PROVE LinkGastoUmaVez'
<1> USE NinguemDeFora DEF Em, Avancar, Terminar, PedidoLivre, TokenLivre, Existe, NaoRevogado, Rotacionado, Revogado, Perde, TypeOKSessoes, PedidoT, ResetT, LinksExistem, LinkGastoUmaVez, GastandoLink
<1>1. ASSUME NEW p \in Chamadas, NEW u \in Usuarios, Login(p, u) PROVE LinkGastoUmaVez'
  BY <1>1 DEF Login
<1>2. ASSUME NEW p \in Chamadas, EmitirSessao(p) PROVE LinkGastoUmaVez'
  BY <1>2 DEF EmitirSessao, CriarRefresh
<1>3. ASSUME NEW p \in Chamadas, ContaInativa(p) PROVE LinkGastoUmaVez'
  BY <1>3 DEF ContaInativa
<1>4. ASSUME NEW p \in Chamadas, RegistrarLogin(p) PROVE LinkGastoUmaVez'
  BY <1>4 DEF RegistrarLogin
<1>5. ASSUME NEW p \in Chamadas, NEW t \in Tokens, Refresh(p, t) PROVE LinkGastoUmaVez'
  BY <1>5 DEF Refresh
<1>6. ASSUME NEW p \in Chamadas, Queima(p) PROVE LinkGastoUmaVez'
  BY <1>6 DEF Queima, RotacaoAplicada
<1>7. ASSUME NEW p \in Chamadas, PerdePorReuso(p) PROVE LinkGastoUmaVez'
  BY <1>7 DEF PerdePorReuso
<1>8. ASSUME NEW p \in Chamadas, PerdePorSaida(p) PROVE LinkGastoUmaVez'
  BY <1>8 DEF PerdePorSaida
<1>9. ASSUME NEW p \in Chamadas, ComitarRotacao(p) PROVE LinkGastoUmaVez'
  BY <1>9 DEF ComitarRotacao
<1>10. ASSUME NEW p \in Chamadas, RevogarFamiliaComprometida(p) PROVE LinkGastoUmaVez'
  BY <1>10 DEF RevogarFamiliaComprometida, RevogarFamilia, DaFamilia
<1>11. ASSUME NEW p \in Chamadas, ConcluirRevogacao(p) PROVE LinkGastoUmaVez'
  BY <1>11, EfeitoDaRevogacao
<1>12. ASSUME NEW p \in Chamadas, NEW t \in Tokens, SaiDoToken(p, t) PROVE LinkGastoUmaVez'
  BY <1>12 DEF SaiDoToken, RevogarFamilia, DaFamilia
<1>13. ASSUME NEW p \in Chamadas, NEW u \in Usuarios, SaiDeTodas(p, u) PROVE LinkGastoUmaVez'
  BY <1>13 DEF SaiDeTodas, RevogarSessoesDoUsuario, DoUsuario
<1>14. ASSUME NEW p \in Chamadas, NEW u \in Usuarios, InvalidarResetsPendentes(p, u) PROVE LinkGastoUmaVez'
  BY <1>14 DEF InvalidarResetsPendentes
<1>15. ASSUME NEW p \in Chamadas, CriarReset(p) PROVE LinkGastoUmaVez'
  BY <1>15, EfeitoDaCriacao
<1>16. ASSUME NEW p \in Chamadas, NEW r \in Resets, TrocarSenha(p, r) PROVE LinkGastoUmaVez'
  BY <1>16 DEF TrocarSenha
<1>17. ASSUME NEW p \in Chamadas, GastaLink(p) PROVE LinkGastoUmaVez'
  BY <1>17 DEF GastaLink
<1>18. ASSUME NEW p \in Chamadas, AchaGasto(p) PROVE LinkGastoUmaVez'
  BY <1>18 DEF AchaGasto
<1>19. ASSUME NEW p \in Chamadas, AtualizarConta(p) PROVE LinkGastoUmaVez'
  BY <1>19 DEF AtualizarConta, RevogarSessoesDoUsuario, DoUsuario
<1>20. ASSUME NEW p \in Chamadas, NEW u \in Usuarios, AlterarConta(p, u) PROVE LinkGastoUmaVez'
  BY <1>20 DEF AlterarConta
<1>21. ASSUME NEW p \in Chamadas, Cair(p) PROVE LinkGastoUmaVez'
  BY <1>21 DEF Cair
<1>22. ASSUME NEW u \in Usuarios, Reativar(u) PROVE LinkGastoUmaVez'
  BY <1>22 DEF Reativar
<1>23. ASSUME UNCHANGED vars PROVE LinkGastoUmaVez'
  BY <1>23 DEF vars
<1> QED
  BY <1>1, <1>2, <1>3, <1>4, <1>5, <1>6, <1>7, <1>8, <1>9, <1>10, <1>11, <1>12, <1>13, <1>14, <1>15, <1>16, <1>17, <1>18, <1>19, <1>20, <1>21, <1>22, <1>23,
     CasosDaRotacao, CasosDaSaida, CasosDoLink DEF Next, Passo

\* A token that appears during a revocation is the successor of one it waits
\* for.
LEMMA AlcanceSegue ==
  ASSUME TypeOKSessoes, TokensEmBranco, NovosDeUmSo, PedidosCoerentes, FamiliaNova, Queimando, Alcance, [Next]_vars PROVE Alcance'
<1> USE NinguemDeFora DEF Em, Avancar, Terminar, PedidoLivre, TokenLivre, Existe, NaoRevogado, Rotacionado, Revogado, Perde, TypeOKSessoes, TokenT, PedidoT, TokensEmBranco, NovosDeUmSo, PedidosCoerentes, Inserindo, Emitindo, Queimando, FamiliaNova, Alcance
<1>1. ASSUME NEW p \in Chamadas, NEW u \in Usuarios, Login(p, u) PROVE Alcance'
  BY <1>1 DEF Login
<1>2. ASSUME NEW p \in Chamadas, EmitirSessao(p) PROVE Alcance'
  BY <1>2 DEF EmitirSessao, CriarRefresh
<1>3. ASSUME NEW p \in Chamadas, ContaInativa(p) PROVE Alcance'
  BY <1>3 DEF ContaInativa
<1>4. ASSUME NEW p \in Chamadas, RegistrarLogin(p) PROVE Alcance'
  BY <1>4 DEF RegistrarLogin
<1>5. ASSUME NEW p \in Chamadas, NEW t \in Tokens, Refresh(p, t) PROVE Alcance'
  BY <1>5 DEF Refresh
<1>6. ASSUME NEW p \in Chamadas, Queima(p) PROVE Alcance'
  BY <1>6 DEF Queima, RotacaoAplicada
<1>7. ASSUME NEW p \in Chamadas, PerdePorReuso(p) PROVE Alcance'
  BY <1>7 DEF PerdePorReuso
<1>8. ASSUME NEW p \in Chamadas, PerdePorSaida(p) PROVE Alcance'
  BY <1>8 DEF PerdePorSaida
<1>9. ASSUME NEW p \in Chamadas, ComitarRotacao(p) PROVE Alcance'
  <2> DEFINE b == pedidos[p].token  n == pedidos[p].novo
  <2>1. pedidos' = [pedidos EXCEPT ![p] = PedidoLivre] /\ pedidos[p].passo = "gravar"
    BY <1>9, EfeitoDoCommit
  <2>2. b \in Tokens /\ n \in Tokens /\ tokens[b].st = "gravado" /\ tokens[n].st = "pendente"
    BY <1>9, EfeitoDoCommit
  <2>3. /\ \A s \in Tokens : s = b => Rotacionado(s)'
        /\ \A s \in Tokens : (Existe(s) => Existe(s)') /\ (Rotacionado(s) => Rotacionado(s)')
    BY <1>9, <2>2, EfeitoDoCommit
  <2>4. \A t \in Tokens : tokens'[t].familia = tokens[t].familia
    BY <1>9, EfeitoDoCommit
  <2>5. \A t \in Tokens : NaoRevogado(t)' => NaoRevogado(t) \/ t = n
    BY <1>9, EfeitoDoCommit
  <2>6. NaoRevogado(b) /\ tokens[n].familia = tokens[b].familia
    BY <2>1, <2>2
  <2> SUFFICES ASSUME NEW q \in Chamadas, Em(q, "revogar")'
               PROVE  /\ \A s \in pedidos'[q].alvo : Existe(s)'
                      /\ \A t \in Tokens :
                           NaoRevogado(t)' /\ pedidos'[q].familia # Ninguem /\ tokens'[t].familia = pedidos'[q].familia =>
                             t \in pedidos'[q].alvo \/ \E s \in pedidos'[q].alvo : Rotacionado(s)'
    BY DEF Alcance
  <2>7. q # p /\ pedidos'[q] = pedidos[q] /\ Em(q, "revogar")
    BY <2>1
  <2>8. pedidos[q].alvo \subseteq Tokens
    OBVIOUS
  <2> HIDE DEF Existe, NaoRevogado, Rotacionado, b, n
  <2>9. \A s \in pedidos'[q].alvo : Existe(s)'
    BY <2>3, <2>7, <2>8
  <2>10. ASSUME NEW t \in Tokens, NaoRevogado(t)', pedidos[q].familia # Ninguem,
                tokens[t].familia = pedidos[q].familia
         PROVE  t \in pedidos[q].alvo \/ \E s \in pedidos[q].alvo : Rotacionado(s)'
    <3>1. CASE NaoRevogado(t)
      BY <2>3, <2>7, <2>8, <2>10, <3>1
    <3>2. CASE t = n
      BY <2>2, <2>3, <2>6, <2>7, <2>8, <2>10, <3>2
    <3> QED BY <2>5, <2>10, <3>1, <3>2
  <2> QED BY <2>4, <2>7, <2>9, <2>10
<1>10. ASSUME NEW p \in Chamadas, RevogarFamiliaComprometida(p) PROVE Alcance'
  BY <1>10 DEF RevogarFamiliaComprometida, RevogarFamilia, DaFamilia
<1>11. ASSUME NEW p \in Chamadas, ConcluirRevogacao(p) PROVE Alcance'
  BY <1>11, EfeitoDaRevogacao
<1>12. ASSUME NEW p \in Chamadas, NEW t \in Tokens, SaiDoToken(p, t) PROVE Alcance'
  BY <1>12 DEF SaiDoToken, RevogarFamilia, DaFamilia
<1>13. ASSUME NEW p \in Chamadas, NEW u \in Usuarios, SaiDeTodas(p, u) PROVE Alcance'
  BY <1>13 DEF SaiDeTodas, RevogarSessoesDoUsuario, DoUsuario
<1>14. ASSUME NEW p \in Chamadas, NEW u \in Usuarios, InvalidarResetsPendentes(p, u) PROVE Alcance'
  BY <1>14 DEF InvalidarResetsPendentes
<1>15. ASSUME NEW p \in Chamadas, CriarReset(p) PROVE Alcance'
  BY <1>15, EfeitoDaCriacao
<1>16. ASSUME NEW p \in Chamadas, NEW r \in Resets, TrocarSenha(p, r) PROVE Alcance'
  BY <1>16 DEF TrocarSenha
<1>17. ASSUME NEW p \in Chamadas, GastaLink(p) PROVE Alcance'
  BY <1>17 DEF GastaLink
<1>18. ASSUME NEW p \in Chamadas, AchaGasto(p) PROVE Alcance'
  BY <1>18 DEF AchaGasto
<1>19. ASSUME NEW p \in Chamadas, AtualizarConta(p) PROVE Alcance'
  <2>1. PICK a \in SUBSET {t \in Tokens : Existe(t)} :
          pedidos' = [pedidos EXCEPT ![p] = [pedidos[p] EXCEPT !.passo = "revogar", !.alvo = a]]
    BY <1>19, EfeitoNaConta
  <2>2. pedidos[p].passo = "senha" /\ UNCHANGED tokens
    BY <1>19, EfeitoNaConta
  <2> QED BY <2>1, <2>2
<1>20. ASSUME NEW p \in Chamadas, NEW u \in Usuarios, AlterarConta(p, u) PROVE Alcance'
  BY <1>20 DEF AlterarConta
<1>21. ASSUME NEW p \in Chamadas, Cair(p) PROVE Alcance'
  BY <1>21 DEF Cair
<1>22. ASSUME NEW u \in Usuarios, Reativar(u) PROVE Alcance'
  BY <1>22 DEF Reativar
<1>23. ASSUME UNCHANGED vars PROVE Alcance'
  BY <1>23 DEF vars
<1> QED
  BY <1>1, <1>2, <1>3, <1>4, <1>5, <1>6, <1>7, <1>8, <1>9, <1>10, <1>11, <1>12, <1>13, <1>14, <1>15, <1>16, <1>17, <1>18, <1>19, <1>20, <1>21, <1>22, <1>23,
     CasosDaRotacao, CasosDaSaida, CasosDoLink DEF Next, Passo

\* Only two steps take a request from a revocation to its end.
LEMMA SoTerminamAssim ==
  ASSUME TypeOKSessoes, [Next]_vars, NEW p \in Chamadas,
         pedidos[p].passo = "revogar", pedidos'[p].passo = "livre"
  PROVE  ConcluirRevogacao(p) \/ Cair(p)
<1> USE DEF Em, Avancar, Terminar, PedidoLivre, TypeOKSessoes, PedidoT, Perde
<1>1. ASSUME NEW q \in Chamadas, NEW u \in Usuarios, Login(q, u) PROVE ConcluirRevogacao(p) \/ Cair(p)
  BY <1>1 DEF Login
<1>2. ASSUME NEW q \in Chamadas, EmitirSessao(q) PROVE ConcluirRevogacao(p) \/ Cair(p)
  BY <1>2 DEF EmitirSessao
<1>3. ASSUME NEW q \in Chamadas, ContaInativa(q) PROVE ConcluirRevogacao(p) \/ Cair(p)
  BY <1>3 DEF ContaInativa
<1>4. ASSUME NEW q \in Chamadas, RegistrarLogin(q) PROVE ConcluirRevogacao(p) \/ Cair(p)
  BY <1>4 DEF RegistrarLogin
<1>5. ASSUME NEW q \in Chamadas, NEW t \in Tokens, Refresh(q, t) PROVE ConcluirRevogacao(p) \/ Cair(p)
  BY <1>5 DEF Refresh
<1>6. ASSUME NEW q \in Chamadas, Queima(q) PROVE ConcluirRevogacao(p) \/ Cair(p)
  BY <1>6 DEF Queima, RotacaoAplicada
<1>7. ASSUME NEW q \in Chamadas, PerdePorReuso(q) PROVE ConcluirRevogacao(p) \/ Cair(p)
  BY <1>7 DEF PerdePorReuso
<1>8. ASSUME NEW q \in Chamadas, PerdePorSaida(q) PROVE ConcluirRevogacao(p) \/ Cair(p)
  BY <1>8 DEF PerdePorSaida
<1>9. ASSUME NEW q \in Chamadas, ComitarRotacao(q) PROVE ConcluirRevogacao(p) \/ Cair(p)
  BY <1>9 DEF ComitarRotacao
<1>10. ASSUME NEW q \in Chamadas, RevogarFamiliaComprometida(q) PROVE ConcluirRevogacao(p) \/ Cair(p)
  BY <1>10 DEF RevogarFamiliaComprometida
<1>11. ASSUME NEW q \in Chamadas, ConcluirRevogacao(q) PROVE ConcluirRevogacao(p) \/ Cair(p)
  <2>1. pedidos' = [pedidos EXCEPT ![q] = PedidoLivre]
    BY <1>11 DEF ConcluirRevogacao
  <2>2. q = p
    BY <2>1
  <2> QED BY <1>11, <2>2
<1>12. ASSUME NEW q \in Chamadas, NEW t \in Tokens, SaiDoToken(q, t) PROVE ConcluirRevogacao(p) \/ Cair(p)
  BY <1>12 DEF SaiDoToken
<1>13. ASSUME NEW q \in Chamadas, NEW u \in Usuarios, SaiDeTodas(q, u) PROVE ConcluirRevogacao(p) \/ Cair(p)
  BY <1>13 DEF SaiDeTodas
<1>14. ASSUME NEW q \in Chamadas, NEW u \in Usuarios, InvalidarResetsPendentes(q, u) PROVE ConcluirRevogacao(p) \/ Cair(p)
  BY <1>14 DEF InvalidarResetsPendentes
<1>15. ASSUME NEW q \in Chamadas, CriarReset(q) PROVE ConcluirRevogacao(p) \/ Cair(p)
  <2>1. pedidos[q].passo = "criar" /\ pedidos' = [pedidos EXCEPT ![q] = PedidoLivre]
    BY <1>15 DEF CriarReset
  <2> QED BY <2>1
<1>16. ASSUME NEW q \in Chamadas, NEW r \in Resets, TrocarSenha(q, r) PROVE ConcluirRevogacao(p) \/ Cair(p)
  BY <1>16 DEF TrocarSenha
<1>17. ASSUME NEW q \in Chamadas, GastaLink(q) PROVE ConcluirRevogacao(p) \/ Cair(p)
  BY <1>17 DEF GastaLink
<1>18. ASSUME NEW q \in Chamadas, AchaGasto(q) PROVE ConcluirRevogacao(p) \/ Cair(p)
  BY <1>18 DEF AchaGasto
<1>19. ASSUME NEW q \in Chamadas, AtualizarConta(q) PROVE ConcluirRevogacao(p) \/ Cair(p)
  BY <1>19 DEF AtualizarConta
<1>20. ASSUME NEW q \in Chamadas, NEW u \in Usuarios, AlterarConta(q, u) PROVE ConcluirRevogacao(p) \/ Cair(p)
  BY <1>20 DEF AlterarConta
<1>21. ASSUME NEW q \in Chamadas, Cair(q) PROVE ConcluirRevogacao(p) \/ Cair(p)
  <2>1. pedidos' = [pedidos EXCEPT ![q] = PedidoLivre]
    BY <1>21 DEF Cair
  <2>2. q = p
    BY <2>1
  <2> QED BY <1>21, <2>2
<1>22. ASSUME NEW u \in Usuarios, Reativar(u) PROVE ConcluirRevogacao(p) \/ Cair(p)
  BY <1>22 DEF Reativar
<1>23. ASSUME UNCHANGED vars PROVE ConcluirRevogacao(p) \/ Cair(p)
  BY <1>23 DEF vars
<1> QED
  BY <1>1, <1>2, <1>3, <1>4, <1>5, <1>6, <1>7, <1>8, <1>9, <1>10, <1>11, <1>12, <1>13, <1>14, <1>15, <1>16, <1>17, <1>18, <1>19, <1>20, <1>21, <1>22, <1>23,
     CasosDaRotacao, CasosDaSaida, CasosDoLink DEF Next, Passo

\* A token the end of a revocation leaves exchangeable could be exchanged before it.
LEMMA ReveladoAntes ==
  ASSUME TypeOKSessoes, NovosDeUmSo, NEW p \in Chamadas, Em(p, "revogar"),
         ConcluirRevogacao(p) \/ Cair(p), NEW t \in Tokens, NaoRevogado(t)'
  PROVE  NaoRevogado(t) /\ tokens'[t].familia = tokens[t].familia
<1>1. CASE ConcluirRevogacao(p)
  BY <1>1, EfeitoDaRevogacao DEF NaoRevogado, Existe
<1>2. CASE Cair(p)
  <2>1. t # pedidos[p].novo
    BY NinguemDeFora DEF NovosDeUmSo, Inserindo, Em
  <2>2. tokens'[t] = tokens[t] \/ tokens'[t] = [tokens[t] EXCEPT !.trava = Ninguem]
    BY <1>2, <2>1 DEF Cair
  <2> QED BY <2>2 DEF NaoRevogado, Existe, TypeOKSessoes, TokenT
<1> QED BY <1>1, <1>2

-----------------------------------------------------------------------------
(* Theorems *)

\* The strengthening holds at the start,
LEMMA InicioInvariante == Init => IInv
<1> SUFFICES ASSUME Init PROVE IInv
  OBVIOUS
<1> USE DEF Init
<1>1. TypeOKSessoes
  <2>1. \A u \in Usuarios : [ativa |-> TRUE, trava |-> Ninguem] \in ContaT
    BY DEF ContaT
  <2> QED BY <2>1, LivresTipados DEF TypeOKSessoes
<1>2. TokensEmBranco
  BY NinguemDeFora DEF TokensEmBranco, TokenLivre
<1>3. NovosDeUmSo /\ PedidosCoerentes /\ FamiliaNova /\ Queimando /\ LinksExistem /\ Alcance
  BY DEF NovosDeUmSo, PedidosCoerentes, FamiliaNova, Queimando, LinksExistem, Alcance, Em, PedidoLivre,
         Inserindo, Emitindo
<1>4. UmElo /\ ReusoSoComSucessor /\ LinkGastoUmaVez
  BY DEF UmElo, ReusoSoComSucessor, LinkGastoUmaVez, NaoRevogado, Existe, TokenLivre, Em, PedidoLivre,
         GastandoLink
<1> QED BY <1>1, <1>2, <1>3, <1>4 DEF IInv

\* every step keeps it,
LEMMA PassoInvariante == IInv /\ [Next]_vars => IInv'
<1> SUFFICES ASSUME IInv, [Next]_vars PROVE IInv'
  OBVIOUS
<1> USE DEF IInv
<1>1. TypeOKSessoes'
  BY TokensTipados, ResetsTipados, ContasTipadas, PedidosTipados DEF TypeOKSessoes
<1>2. TokensEmBranco'
  BY EmBrancoSegue
<1>3. NovosDeUmSo' /\ PedidosCoerentes'
  BY NovosSeguem, CoerentesSeguem
<1>4. FamiliaNova' /\ Queimando' /\ Alcance'
  BY FamiliaSegue, QueimaSegue, AlcanceSegue
<1>5. UmElo' /\ ReusoSoComSucessor'
  BY EloSegue, ReusoSegue
<1>6. LinksExistem' /\ LinkGastoUmaVez'
  BY LinksSeguem, GastoSegue
<1> QED BY <1>1, <1>2, <1>3, <1>4, <1>5, <1>6

\* and so it always holds.
LEMMA SempreIInv == Spec => []IInv
  BY InicioInvariante, PassoInvariante, PTL DEF Spec

\* Every state the sessions reach is well typed.
THEOREM TiposDasSessoes == Spec => []TypeOKSessoes
<1>1. IInv => TypeOKSessoes
  BY DEF IInv
<1> QED BY <1>1, SempreIInv, PTL

\* However many requests rotate, leave and crash together, a family never has two
\* tokens that can be exchanged: the conditional UPDATE of RotacionarRefresh
\* (auth/repository.go) decides the race for any number of requests.
THEOREM FamiliaTemUmElo == Spec => []UmElo
<1>1. IInv => UmElo
  BY DEF IInv
<1> QED BY <1>1, SempreIInv, PTL

\* Only a token that was exchanged raises the reuse alarm; one revoked by a
\* logout or a change of password does not (auth/service.go Refresh).
THEOREM AlarmeSoDeReuso == Spec => []ReusoSoComSucessor
<1>1. IInv => ReusoSoComSucessor
  BY DEF IInv
<1> QED BY <1>1, SempreIInv, PTL

\* Two requests with one recovery link change the password once (auth/repository.go
\* ConsumirReset): whoever is between spending and committing holds it alone.
THEOREM UmLinkUmaSenha == Spec => []LinkGastoUmaVez
<1>1. IInv => LinkGastoUmaVez
  BY DEF IInv
<1> QED BY <1>1, SempreIInv, PTL

\* A revocation of a family that ends leaves an exchangeable token behind only
\* when one of the tokens it waited for was exchanged meanwhile
\* (auth/repository.go RevogarFamilia against RotacionarRefresh).
THEOREM SaidaPerdeSoParaRotacao == Spec => SaidaSoPerdeParaRotacao
<1>1. ASSUME IInv, [Next]_vars, NEW p \in Chamadas, NEW f \in Familias, RevogouFamilia(p, f),
             NEW t \in Tokens, NaoRevogado(t)', tokens'[t].familia = f
      PROVE  \E s \in pedidos[p].alvo : Rotacionado(s)
  <2>1. Em(p, "revogar") /\ pedidos[p].familia = f /\ f # Ninguem
    BY <1>1, NinguemDeFora DEF RevogouFamilia
  <2>2. ConcluirRevogacao(p) \/ Cair(p)
    <3>1. pedidos[p].passo = "revogar" /\ pedidos'[p].passo = "livre"
      BY <1>1, <2>1 DEF RevogouFamilia, Em, PedidoLivre
    <3> QED BY <1>1, <3>1, SoTerminamAssim DEF IInv
  <2>3. NaoRevogado(t) /\ tokens[t].familia = f
    BY <1>1, <2>1, <2>2, ReveladoAntes DEF IInv
  <2>4. t \in pedidos[p].alvo => tokens'[t].revogado
    BY <1>1 DEF RevogouFamilia
  <2>5. t \notin pedidos[p].alvo
    BY <1>1, <2>4 DEF NaoRevogado
  <2> QED BY <1>1, <2>1, <2>3, <2>5 DEF IInv, Alcance
<1>2. IInv /\ [Next]_vars =>
        [\A p \in Chamadas, f \in Familias :
           RevogouFamilia(p, f) /\ (\E t \in Tokens : NaoRevogado(t)' /\ tokens'[t].familia = f)
           => \E s \in pedidos[p].alvo : Rotacionado(s)]_vars
  BY <1>1
<1> QED BY <1>2, SempreIInv, PTL DEF Spec, SaidaSoPerdeParaRotacao
=============================================================================
