------------------------------- MODULE Politicas -------------------------------
(***************************************************************************)
(* The policies of the house (modules/tarifario): the commercial one and   *)
(* the cancellation one.  A policy is never edited: a new version is       *)
(* published after the last, and a quote or a reservation keeps the number *)
(* of the version it was made under.                                       *)
(*                                                                         *)
(* A publication is a transaction that takes the advisory lock of its      *)
(* series, reads the last version, refuses an earlier valid_from and       *)
(* inserts a row that is the last one copied with the request over it.     *)
(* Others see it when it commits.  A request may fall at any point (Cair). *)
(***************************************************************************)
EXTENDS Cancelamento, FiniteSets

CONSTANTS Pedidos,      \* requests in course at the same time
          UltimoDia,    \* bound: days are 0..UltimoDia
          Validades,    \* values of a column the request may leave out
          Padrao,       \* its DEFAULT
          Faixas,       \* sequences of tiers a manager may send, by the checks of each field
          MaxVersoes,   \* bound: versions of each series
          Nada          \* NULL, or a field the request leaves out

ASSUME PoliticasAssumption ==
    /\ UltimoDia \in Nat /\ MaxVersoes \in Nat
    /\ Padrao \in Validades /\ Nada \notin Validades \cup Pedidos \cup Faixas
    /\ UltimoDia + 4 <= SemTeto
    /\ \A fs \in Faixas : fs \in Seq([min : Nat \cup {SemLimite}, max : Nat \cup {SemLimite},
                                      pct : 0..100])

VARIABLES dia,        \* today, in the house's time zone
          versoes,    \* rows of each series, in order of version
          trava,      \* who holds the advisory lock of each series
          pedido

vars == <<dia, versoes, trava, pedido>>

Series == {"comercial", "cancelamento"}
Dias == 0..UltimoDia
Livre == [passo |-> "livre", serie |-> "comercial", de |-> 0, pedida |-> Nada, nova |-> Nada]

\* A house with no policy yet, or with the first commercial one in force.
Init ==
    /\ dia = 0
    /\ \E primeira \in {<<>>, <<[de |-> 0, pedida |-> Nada, conteudo |-> Padrao]>>} :
          versoes = [s \in Series |-> IF s = "comercial" THEN primeira ELSE <<>>]
    /\ trava = [s \in Series |-> Nada]
    /\ pedido = [p \in Pedidos |-> Livre]

Ultima(s) == versoes[s][Len(versoes[s])]

----------------------------------------------------------------------------
(* Reading: the version in force today.                                    *)

EmVigor(s) == {i \in DOMAIN versoes[s] : versoes[s][i].de <= dia}

\* The panel orders by version; a quote, by valid_from and then by version.
VigenteNoPainel(s) ==
    IF EmVigor(s) = {} THEN 0 ELSE CHOOSE i \in EmVigor(s) : \A j \in EmVigor(s) : i >= j

VigenteNoOrcamento(s) ==
    IF EmVigor(s) = {} THEN 0
    ELSE CHOOSE i \in EmVigor(s) : \A j \in EmVigor(s) :
            \/ versoes[s][i].de > versoes[s][j].de
            \/ versoes[s][i].de = versoes[s][j].de /\ i >= j

----------------------------------------------------------------------------
(* Publishing.                                                             *)

\* The body is checked before the transaction: the tiers must cover every day.
Publicar(p, s, de, pedida) ==
    /\ pedido[p] = Livre
    /\ s = "cancelamento" => Validar(pedida)
    /\ pedido' = [pedido EXCEPT ![p] = [Livre EXCEPT !.passo = "trava", !.serie = s,
                                                     !.de = de, !.pedida = pedida]]
    /\ UNCHANGED <<dia, versoes, trava>>

\* Mutant: the publication does not wait for the one in course.
PublicarSemTravar(p) ==
    /\ pedido[p].passo = "trava"
    /\ pedido' = [pedido EXCEPT ![p].passo = "conferir"]
    /\ UNCHANGED <<dia, versoes, trava>>

TravarPublicacao(p) ==
    /\ pedido[p].passo = "trava"
    /\ trava[pedido[p].serie] = Nada
    /\ trava' = [trava EXCEPT ![pedido[p].serie] = p]
    /\ pedido' = [pedido EXCEPT ![p].passo = "conferir"]
    /\ UNCHANGED <<dia, versoes>>

\* The lock is the transaction's: it goes with it, however it ends.
Terminar(p) ==
    /\ pedido' = [pedido EXCEPT ![p] = Livre]
    /\ trava' = [s \in Series |-> IF trava[s] = p THEN Nada ELSE trava[s]]

\* Read after the lock: a version may not come into force before the last one.
ConferirVigencia(p) ==
    /\ pedido[p].passo = "conferir"
    /\ LET s == pedido[p].serie IN
       IF versoes[s] # <<>> /\ pedido[p].de < Ultima(s).de
       THEN Terminar(p)
       ELSE pedido' = [pedido EXCEPT ![p].passo = "gravar"] /\ UNCHANGED trava
    /\ UNCHANGED <<dia, versoes>>

\* Mutant: a column the request leaves out goes back to its DEFAULT.
SemHerdar(s, pedida) == IF pedida = Nada THEN Padrao ELSE pedida

\* A column the request leaves out is copied from the last version, by the INSERT
\* itself; in the first version it takes its DEFAULT.  Tiers always come whole.
Herdada(s, pedida) ==
    IF pedida # Nada THEN pedida
    ELSE IF versoes[s] = <<>> THEN Padrao ELSE Ultima(s).conteudo

PublicarPolitica(p) ==
    /\ pedido[p].passo = "gravar"
    /\ LET r == pedido[p] IN
       pedido' = [pedido EXCEPT
           ![p].passo = "confirmar",
           ![p].nova = [de |-> r.de, pedida |-> r.pedida,
                        conteudo |-> Herdada(r.serie, r.pedida)]]
    /\ UNCHANGED <<dia, versoes, trava>>

Confirmar(p) ==
    /\ pedido[p].passo = "confirmar"
    /\ Len(versoes[pedido[p].serie]) < MaxVersoes
    /\ versoes' = [versoes EXCEPT ![pedido[p].serie] = Append(@, pedido[p].nova)]
    /\ Terminar(p)
    /\ UNCHANGED dia

Cair(p) ==
    /\ pedido[p] # Livre
    /\ Terminar(p)
    /\ UNCHANGED <<dia, versoes>>

PassarDia ==
    /\ dia < UltimoDia
    /\ dia' = dia + 1
    /\ UNCHANGED <<versoes, trava, pedido>>

Passo(p) ==
    \/ \E de \in Dias :
          \/ \E x \in Validades \cup {Nada} : Publicar(p, "comercial", de, x)
          \/ \E x \in Faixas : Publicar(p, "cancelamento", de, x)
    \/ TravarPublicacao(p) \/ ConferirVigencia(p) \/ PublicarPolitica(p)
    \/ Confirmar(p) \/ Cair(p)

Next == PassarDia \/ \E p \in Pedidos : Passo(p)

Spec == Init /\ [][Next]_vars

----------------------------------------------------------------------------
(* Properties.                                                             *)

\* Later versions come into force later.
VersoesEmOrdem ==
    \A s \in Series : \A j \in DOMAIN versoes[s] : \A i \in 1..j :
        versoes[s][i].de <= versoes[s][j].de

\* What a request did not mention is as it was in the version before.
OmitidoHerda ==
    \A i \in DOMAIN versoes["comercial"] :
        LET v == versoes["comercial"][i]
        IN  v.conteudo = IF v.pedida # Nada THEN v.pedida
                         ELSE IF i = 1 THEN Padrao ELSE versoes["comercial"][i - 1].conteudo

\* The numbers of the versions tell their history: later ones come into force later,
\* each keeps what it did not change, and the panel and a quote made at the same
\* moment read the same one (tarifario/service.go PublicarPoliticaComercial,
\* repository_politicas.go, disponibilidade/repository.go Contexto).
VersoesContamAHistoria ==
    /\ VersoesEmOrdem
    /\ OmitidoHerda
    /\ \A s \in Series : VigenteNoPainel(s) = VigenteNoOrcamento(s)

\* The version in force never goes back, neither with the days nor with a publication
\* (tarifario/service.go, the refusal of an earlier valid_from under the lock).
VigenteNaoRecua ==
    [][\A s \in Series : VigenteNoOrcamento(s)' >= VigenteNoOrcamento(s)]_vars

\* Whatever was published, every day before check-in falls in one tier and in one only
\* (tarifario/dto.go cobrituraCompleta against booking.CancellationPolicy.Simulate).
FaixaUnica ==
    \A i \in DOMAIN versoes["cancelamento"] :
        LET fs == versoes["cancelamento"][i].conteudo
        IN  \A d \in 0..(UltimoDia + 4) :
                /\ Cardinality({k \in DOMAIN fs : Aplica(fs[k], d)}) = 1
                /\ Simulate(fs, 3, d) \in 0..3
===============================================================================
