----------------------------- MODULE PreReserva -----------------------------
(***************************************************************************)
(* The public pre-booking of the site (vitrine, POST /public/holds): an    *)
(* anonymous visitor holds dates without paying, at most Teto at a time    *)
(* per phone number.                                                       *)
(*                                                                         *)
(* The handler reads the number of open holds of the phone, then whether   *)
(* the key was used, finds or creates the contact in a transaction of its  *)
(* own, and only then calls the service that takes the idempotency key     *)
(* (Idempotencia).  Every visitor writes as the site's service account.    *)
(***************************************************************************)
EXTENDS Idempotencia, FiniteSets

CONSTANTS
    Telefones,
    TelefoneDe,  \* the phone each request carries
    Teto         \* maxPreReservasAbertasPorTelefone

ASSUME PreReservaA ==
    /\ TelefoneDe \in [Pedidos -> Telefones]
    /\ Teto \in Nat \ {0}
    \* the service account signs every write
    /\ \A p, q \in Pedidos : DonoDe[p] = DonoDe[q]
    \* the phone is part of the body
    /\ \A p, q \in Pedidos : CorpoDe[p] = CorpoDe[q] => TelefoneDe[p] = TelefoneDe[q]

VARIABLES
    etapa,      \* where each request is before the service takes it
    cheio,      \* whether it saw the ceiling reached
    contato,    \* the contact it will write in the reservation
    fichas,     \* contacts: phone and the request that created the record
    encerradas  \* the pre-bookings that are no longer open holds

antesDoServico == <<etapa, cheio, contato, fichas>>
varsSite == <<varsIdem, antesDoServico, encerradas>>

Etapas == {"nova", "contada", "buscando", "criando", "entregue", "recusada", "caida"}

Ficha == [telefone : Telefones, de : Pedidos]

InitSite ==
    /\ InitIdem
    /\ etapa      = [p \in Pedidos |-> "nova"]
    /\ cheio      = [p \in Pedidos |-> FALSE]
    /\ contato    = [p \in Pedidos |-> Nenhum]
    /\ fichas     = {}
    /\ encerradas = {}

Passar(p, e) == etapa' = [etapa EXCEPT ![p] = e]

-----------------------------------------------------------------------------
\* preReservasAbertas: committed, from the site, with this phone, still holds.
Abertas(t) == {q \in efeitos \ encerradas : TelefoneDe[q] = t}

\* The public quote is refused: past date, minimum of nights, capacity ...
RecusarOrcamento(p) ==
    /\ etapa[p] = "nova"
    /\ Passar(p, "recusada")
    /\ UNCHANGED <<varsIdem, cheio, contato, fichas, encerradas>>

ContarAbertas(p) ==
    /\ etapa[p] = "nova"
    /\ cheio' = [cheio EXCEPT ![p] = Cardinality(Abertas(TelefoneDe[p])) >= Teto]
    /\ Passar(p, "contada")
    /\ UNCHANGED <<varsIdem, contato, fichas, encerradas>>

\* chaveJaUsada: the key has a reply.
ChaveJaUsada(p) == linhas[Linha(p)] # Nenhum

\* The ceiling, which a repetition of what was already done does not meet.
ConferirTeto(p) ==
    /\ etapa[p] = "contada"
    /\ IF cheio[p] /\ ~ChaveJaUsada(p) THEN Passar(p, "recusada") ELSE Passar(p, "buscando")
    /\ UNCHANGED <<varsIdem, cheio, contato, fichas, encerradas>>

FichasDo(t) == {f \in fichas : f.telefone = t}

\* The request reaches the service with the contact of record f.
Entregue(p, f) ==
    /\ contato' = [contato EXCEPT ![p] = f.de]
    /\ Passar(p, "entregue")
    /\ Chegar(p)

\* contatoDoSite: who has this phone is the same person.
AcharContato(p) ==
    /\ etapa[p] = "buscando"
    /\ \E f \in FichasDo(TelefoneDe[p]) : Entregue(p, f)
    /\ UNCHANGED <<cheio, fichas, encerradas>>

NaoAcharContato(p) ==
    /\ etapa[p] = "buscando"
    /\ FichasDo(TelefoneDe[p]) = {}
    /\ Passar(p, "criando")
    /\ UNCHANGED <<varsIdem, cheio, contato, fichas, encerradas>>

\* Mutant: contacts without a unique index on the phone.
SempreFichaNova(p) == {[telefone |-> TelefoneDe[p], de |-> p]}

\* What the INSERT leaves p with: its own record or, on 23505, the winner's.
FichaQueFica(p) ==
    IF FichasDo(TelefoneDe[p]) = {}
    THEN {[telefone |-> TelefoneDe[p], de |-> p]}
    ELSE FichasDo(TelefoneDe[p])

CriarContato(p) ==
    /\ etapa[p] = "criando"
    /\ \E f \in FichaQueFica(p) :
         /\ fichas' = fichas \cup {f}
         /\ Entregue(p, f)
    /\ UNCHANGED <<cheio, encerradas>>

\* The hash is of the reservation asked for, which carries the contact's id.
Impressao == [p \in Pedidos |-> <<CorpoDe[p], contato[p]>>]

Servir(p) ==
    /\ Andar(p, Impressao)
    /\ UNCHANGED <<antesDoServico, encerradas>>

\* The process stops or the client goes away while the handler is at it.
CairVisita(p) ==
    /\ \/ Perder(p) /\ UNCHANGED etapa
       \/ /\ etapa[p] \in {"contada", "buscando", "criando"}
          /\ Passar(p, "caida")
          /\ UNCHANGED varsIdem
    /\ UNCHANGED <<cheio, contato, fichas, encerradas>>

\* The hold of q is confirmed, cancelled or expires.
Encerrar(q) ==
    /\ q \in efeitos \ encerradas
    /\ encerradas' = encerradas \cup {q}
    /\ UNCHANGED <<varsIdem, antesDoServico>>

-----------------------------------------------------------------------------
Preparar(p) ==
    \/ RecusarOrcamento(p) \/ ContarAbertas(p) \/ ConferirTeto(p)
    \/ AcharContato(p) \/ NaoAcharContato(p) \/ CriarContato(p)

NextSite ==
    \E p \in Pedidos : Preparar(p) \/ Servir(p) \/ CairVisita(p) \/ Encerrar(p)

SpecSite == InitSite /\ [][NextSite]_varsSite

-----------------------------------------------------------------------------
TypeOKSite ==
    /\ TypeOKIdem
    /\ etapa \in [Pedidos -> Etapas]
    /\ cheio \in [Pedidos -> BOOLEAN]
    /\ contato \in [Pedidos -> Pedidos \cup {Nenhum}]
    /\ fichas \subseteq Ficha
    /\ encerradas \subseteq efeitos

\* A repetition is recognised: two visitors' tabs that race to create the same
\* contact still send one body, and the second gets the first's reply, never a
\* mismatch.
RepeticaoReconhecida ==
    \A p \in Pedidos :
        resposta[p].tipo = "divergente" =>
            \E q \in efeitos : MesmaChave(p, q) /\ CorpoDe[p] # CorpoDe[q]

\* No phone holds more dates than the ceiling without paying.
TetoPorTelefone ==
    \A t \in Telefones : Cardinality(Abertas(t)) <= Teto
=============================================================================
