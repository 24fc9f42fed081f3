---------------------------- MODULE Idempotencia ----------------------------
(***************************************************************************)
(* Idempotency keys (platform/idempotencia) and the managed transaction    *)
(* they live in (platform/db, TxManager).                                  *)
(*                                                                         *)
(* A request takes its key with an INSERT ... ON CONFLICT DO NOTHING inside *)
(* the transaction that does the work, and stores the reply before the     *)
(* commit.  The INSERT of a second request with the same key waits for the *)
(* first one's transaction.  Transactions are retried on contention; the   *)
(* process may stop or the connection fall between any two steps; and a    *)
(* client that heard nothing sends the request again, which here is        *)
(* another member of Pedidos.                                              *)
(*                                                                         *)
(* ChaveDe abstracts key and endpoint, DonoDe actor and property.          *)
(***************************************************************************)
EXTENDS Naturals

CONSTANTS
    Pedidos,        \* requests that reach the server
    Chaves, Donos, Corpos,
    ChaveDe, DonoDe, CorpoDe,   \* what each request carries
    MaxTentativas,  \* TxManager's budget of attempts
    Nenhum          \* no request

ASSUME IdempotenciaA ==
    /\ ChaveDe \in [Pedidos -> Chaves]
    /\ DonoDe \in [Pedidos -> Donos]
    /\ CorpoDe \in [Pedidos -> Corpos]
    /\ MaxTentativas \in Nat \ {0}
    /\ Nenhum \notin Pedidos

VARIABLES
    fase,        \* where each request is
    tentativas,  \* attempts its transaction has spent
    linhas,      \* idempotency_keys, committed: the request whose reply a row keeps
    efeitos,     \* the requests whose work is committed
    resposta     \* what the service answers to each request

varsIdem == <<fase, tentativas, linhas, efeitos, resposta>>

Fases == {"novo", "aberta", "trabalhando", "concluida", "respondida", "perdida"}

Terminais == {"respondida", "perdida"}

\* Mutant: the primary key is (key, endpoint).
LinhaSemDono(p) == <<ChaveDe[p], Nenhum>>

\* The primary key: key, endpoint, actor and property.
Linha(p) == <<ChaveDe[p], DonoDe[p]>>

Linhas == {Linha(p) : p \in Pedidos}

Resposta == [tipo : {"nada", "sucesso", "divergente", "recusado", "disputado", "erro"},
             de   : Pedidos \cup {Nenhum}]

Sem(tipo) == [tipo |-> tipo, de |-> Nenhum]

\* The stored reply of request q, with its status and its body.
Sucesso(q) == [tipo |-> "sucesso", de |-> q]

InitIdem ==
    /\ fase       = [p \in Pedidos |-> "novo"]
    /\ tentativas = [p \in Pedidos |-> 1]
    /\ linhas     = [l \in Linhas |-> Nenhum]
    /\ efeitos    = {}
    /\ resposta   = [p \in Pedidos |-> Sem("nada")]

Ir(p, f) == fase' = [fase EXCEPT ![p] = f]

Concluir(p, r) == Ir(p, "concluida") /\ resposta' = [resposta EXCEPT ![p] = r]

-----------------------------------------------------------------------------
\* The handler opens the transaction.
Chegar(p) ==
    /\ fase[p] = "novo"
    /\ Ir(p, "aberta")
    /\ UNCHANGED <<tentativas, linhas, efeitos, resposta>>

\* Mutant: a SELECT before the INSERT does not see rows in flight.
NinguemEmVoo(p) == {}

\* The transactions in flight that have inserted p's row: the speculative
\* insertion waits for them.
EmVoo(p) == {q \in Pedidos \ {p} : fase[q] = "trabalhando" /\ Linha(q) = Linha(p)}

\* Reservar: the key is new.
Tomar(p) ==
    /\ fase[p] = "aberta"
    /\ EmVoo(p) = {}
    /\ linhas[Linha(p)] = Nenhum
    /\ Ir(p, "trabalhando")
    /\ UNCHANGED <<tentativas, linhas, efeitos, resposta>>

\* Reservar: the key has a reply, which is repeated if the bodies have one hash.
Ler(p, impressao) ==
    LET q == linhas[Linha(p)]
    IN  /\ fase[p] = "aberta"
        /\ q # Nenhum
        /\ Concluir(p, IF impressao[q] = impressao[p] THEN Sucesso(q) ELSE Sem("divergente"))
        /\ UNCHANGED <<tentativas, linhas, efeitos>>

\* Guardar and COMMIT: the work and the key become one fact.
Publicar(p) ==
    /\ fase[p] = "trabalhando"
    /\ efeitos' = efeitos \cup {p}
    /\ linhas' = [linhas EXCEPT ![Linha(p)] = p]
    /\ UNCHANGED tentativas

Comitar(p) == Publicar(p) /\ Concluir(p, Sucesso(p))

\* The COMMIT was applied and its acknowledgement lost: 500.
ComitarSemSaber(p) == Publicar(p) /\ Concluir(p, Sem("erro"))

\* Mutant: the key is committed on its own, before the work.
RollbackSemChave(p) == [linhas EXCEPT ![Linha(p)] = p]

\* The row goes with the transaction that inserted it.
Rollback(p) == linhas

\* A rule refuses the work (no units, hold overdue ...), or it fails for good.
Recusar(p) ==
    /\ fase[p] = "trabalhando"
    /\ linhas' = Rollback(p)
    /\ \E tipo \in {"recusado", "erro"} : Concluir(p, Sem(tipo))
    /\ UNCHANGED <<tentativas, efeitos>>

\* Mutant: the attempt is not counted.
SemContar(p) == tentativas[p]

ProximaTentativa(p) == tentativas[p] + 1

\* Mutant: one attempt more than the budget.
TentativaAMais(p) == tentativas[p] <= MaxTentativas

TemOrcamento(p) == tentativas[p] < MaxTentativas

\* TxManager.Do on 40001, 40P01 and 55P03: roll back, start over, give up when
\* the budget is spent.  A wait for the key may time out as any other.
Contender(p) ==
    /\ fase[p] = "trabalhando" \/ (fase[p] = "aberta" /\ EmVoo(p) # {})
    /\ linhas' = Rollback(p)
    /\ IF TemOrcamento(p)
       THEN /\ Ir(p, "aberta")
            /\ tentativas' = [tentativas EXCEPT ![p] = ProximaTentativa(p)]
            /\ UNCHANGED resposta
       ELSE /\ Concluir(p, Sem("disputado"))
            /\ UNCHANGED tentativas
    /\ UNCHANGED efeitos

Entregar(p) ==
    /\ fase[p] = "concluida"
    /\ Ir(p, "respondida")
    /\ UNCHANGED <<tentativas, linhas, efeitos, resposta>>

\* The client goes away or the process stops: what was not committed is undone.
Perder(p) ==
    /\ fase[p] \in {"aberta", "trabalhando", "concluida"}
    /\ Ir(p, "perdida")
    /\ linhas' = IF fase[p] = "trabalhando" THEN Rollback(p) ELSE linhas
    /\ UNCHANGED <<tentativas, efeitos, resposta>>

-----------------------------------------------------------------------------
Andar(p, impressao) ==
    \/ Tomar(p) \/ Ler(p, impressao) \/ Comitar(p) \/ ComitarSemSaber(p)
    \/ Recusar(p) \/ Contender(p) \/ Entregar(p)

NextIdem ==
    \E p \in Pedidos : Chegar(p) \/ Andar(p, CorpoDe) \/ Perder(p)

\* A handler that started runs to its end.
SpecIdem ==
    /\ InitIdem /\ [][NextIdem]_varsIdem
    /\ \A p \in Pedidos : WF_varsIdem(Andar(p, CorpoDe))

-----------------------------------------------------------------------------
TypeOKIdem ==
    /\ fase \in [Pedidos -> Fases]
    /\ tentativas \in [Pedidos -> 1..MaxTentativas]
    /\ linhas \in [Linhas -> Pedidos \cup {Nenhum}]
    /\ efeitos \subseteq Pedidos
    /\ resposta \in [Pedidos -> Resposta]

MesmaChave(p, q) == ChaveDe[p] = ChaveDe[q] /\ DonoDe[p] = DonoDe[q]

\* A double click, a resend after silence and a retried transaction together
\* produce one reservation: the work behind one key of one owner is committed
\* at most once.
UmEfeitoPorChave == \A p, q \in efeitos : MesmaChave(p, q) => p = q

\* What the client is told is true.  A success tells of work that is committed,
\* asked by the same owner with the same key and body; a mismatch, of committed
\* work asked with another body; and after a refusal nothing was done.
RespostaVerdadeira ==
    \A p \in Pedidos :
        CASE resposta[p].tipo = "sucesso" ->
                LET q == resposta[p].de
                IN  q \in efeitos /\ MesmaChave(p, q) /\ CorpoDe[p] = CorpoDe[q]
          [] resposta[p].tipo = "divergente" ->
                /\ p \notin efeitos
                /\ \E q \in efeitos : MesmaChave(p, q) /\ CorpoDe[p] # CorpoDe[q]
          [] resposta[p].tipo \in {"recusado", "disputado"} -> p \notin efeitos
          [] OTHER -> TRUE

\* A key is spent exactly by the work it identifies: no failure, crash or
\* timeout poisons it, and no committed work leaves it free.
ChaveSoComEfeito ==
    \A p \in Pedidos : linhas[Linha(p)] = p <=> p \in efeitos

\* No request waits for ever for a key or in a retry loop.
TodoPedidoTermina ==
    \A p \in Pedidos : (fase[p] = "aberta") ~> (fase[p] \in Terminais)
=============================================================================
