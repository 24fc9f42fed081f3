------------------------------- MODULE TempoReal -------------------------------
(***************************************************************************)
(* Live updates: a commit notifies (triggers of migration 20260827120000), *)
(* one LISTEN connection per process feeds the hub (platform/realtime),    *)
(* the hub fans out to the SSE connections (modules/stream) and the panel  *)
(* answers a notice with a fetch of what is on the screen (apps/admin,     *)
(* lib/tempo-real).                                                        *)
(*                                                                         *)
(* A change is its position in the order of commits.  `v`, the transaction *)
(* id, is taken at the first write of the transaction, so it follows any   *)
(* order.  A row's owner is what its last commit left; a change of owner   *)
(* and a deletion notify like any other change.  What a screen shows is    *)
(* how many commits its last fetch read.                                   *)
(***************************************************************************)
EXTENDS Naturals, Sequences, FiniteSets, SequencesExt

CONSTANTS
  Clientes,          \* browser tabs, one user each
  Linhas,            \* rows the events are about
  TopicoDe,          \* topic of each row
  Topicos,           \* topics each client can reach and asked for
  Restritos,         \* clients with scope `own`
  DonoNoInicio,      \* owner_id of each row: one of Restritos, or Ninguem
  Ninguem,           \* somebody without a tab here; or the row is no longer there
  EventosNoBuffer, CapacidadePorAssinante, MaximoPorChave,
  MaxMudancas, MaxFaltas   \* bounds: commits; deaths, cuts, refusals and restarts

ASSUME TempoRealAssumption ==
  /\ MaxMudancas \in Nat /\ CapacidadePorAssinante \in Nat
  /\ DonoNoInicio \in [Linhas -> Restritos \cup {Ninguem}]

VARIABLES
  mudancas,   \* commits, in order: [linha, v, de], de: whose the row was and became
  dono,       \* owner_id of each row now
  escuta,     \* the LISTEN connection: estado, viva, fila (changes not read yet)
  hub,        \* cursor, base (baseValida), buffer, primeira
  con,        \* the connection of each client on the server
  presas,     \* connections already cut whose handler has not noticed yet
  fio,        \* what was written to the socket and not read
  tela,       \* the tab of each client, below
  furos,      \* history: changes that no notice will bring to the client
  faltas

varsTempoReal ==
  <<mudancas, dono, escuta, hub, con, presas, fio, tela, furos, faltas>>

Resync == [resync |-> TRUE, cursor |-> 0, m |-> 0]
Evento(k, m) == [resync |-> FALSE, cursor |-> k, m |-> m]

Fora == [fase |-> "fora", repor |-> <<>>, canal |-> <<>>, resync |-> FALSE]

\* ultimoId, url: the cursor last read, and the one frozen in the URL of the
\* EventSource (0: none).  fonte: the EventSource is alive (the browser reconnects it),
\* closed by a refusal, or nobody will reopen it.  lido (history): the cursor this
\* connection began at, then the last it read.  vistos: the Deduplicador.  agendada,
\* busca, pendente, falha: useAtualizacaoAoVivo.
Aba == [fonte |-> "viva", ultimoId |-> 0, url |-> 0, lido |-> 0, vistos |-> [l \in Linhas |-> 0],
        vista |-> 0, agendada |-> FALSE, busca |-> <<>>, pendente |-> FALSE, falha |-> FALSE]

InitTempoReal ==
  /\ mudancas = <<>> /\ dono = DonoNoInicio
  /\ escuta = [estado |-> "fechada", viva |-> FALSE, fila |-> <<>>]
  /\ hub = [cursor |-> 1, base |-> 1, buffer |-> <<>>, primeira |-> TRUE]
  /\ con = [c \in Clientes |-> Fora]
  /\ presas = [c \in Clientes |-> 0]
  /\ fio = [c \in Clientes |-> <<>>]
  /\ tela = [c \in Clientes |-> Aba]
  /\ furos = [c \in Clientes |-> {}]
  /\ faltas = 0

Feitas == 1..Len(mudancas)
Conectado == escuta.estado = "consumindo"
NuncaEscutou == hub.primeira /\ escuta.estado = "fechada"
Assinante(c) == con[c].fase # "fora"
Assina(c, m) == TopicoDe[mudancas[m].linha] \in Topicos[c]
\* Filtro.PodeEntregar: scope all, or the row is, when the notice is delivered, the
\* client's own.
Pode(c, m) == c \notin Restritos \/ dono[mudancas[m].linha] = c

\* The screen of c has to change with m: scope all, or the row was or became its own.
Interessa(c, m) == Assina(c, m) /\ (c \notin Restritos \/ c \in mudancas[m].de)
Atrasada(c, m) == Interessa(c, m) /\ m > tela[c].vista

\* The hub will publish m, or mark a gap.
VemDoBanco(m) ==
  \/ m \in ToSet(escuta.fila)
  \/ ~escuta.viva /\ ~NuncaEscutou
  \/ escuta.estado = "aberta" /\ ~hub.primeira
\* A fetch asked for will read m, or the one in the air did.
VemDaBusca(c, m) ==
  \/ tela[c].agendada \/ tela[c].pendente
  \/ \E i \in DOMAIN tela[c].busca : tela[c].busca[i] >= m
\* Of ms, what a lost notice leaves the client without.
SemBusca(c, ms) == {m \in ms : Atrasada(c, m) /\ ~VemDaBusca(c, m)}

-----------------------------------------------------------------------------
(* The database and the LISTEN connection *)

\* A commit, which may give the row to somebody else or delete it: every session
\* listening at this moment is notified.
Comitar(l, v, d) ==
  LET m == Len(mudancas) + 1 IN
  /\ m <= MaxMudancas
  /\ \A k \in Feitas : mudancas[k].v # v
  /\ mudancas' = Append(mudancas, [linha |-> l, v |-> v, de |-> {dono[l], d}])
  /\ dono' = [dono EXCEPT ![l] = d]
  /\ escuta' = IF escuta.viva THEN [escuta EXCEPT !.fila = Append(@, m)] ELSE escuta
  /\ furos' = [c \in Clientes |-> IF Assinante(c) /\ NuncaEscutou
                                  THEN furos[c] \cup {m} ELSE furos[c]]
  /\ UNCHANGED <<hub, con, presas, fio, tela, faltas>>

\* AbridorDePool: the connection opens with its channels listened to.
Abrir ==
  /\ escuta.estado = "fechada"
  /\ escuta' = [estado |-> "aberta", viva |-> TRUE, fila |-> <<>>]
  /\ UNCHANGED <<mudancas, dono, hub, con, presas, fio, tela, furos, faltas>>

\* entregar: never blocks; a full channel leaves the mark.
Entregar(k, aviso) ==
  [k EXCEPT !.canal = IF Len(@) < CapacidadePorAssinante THEN Append(@, aviso) ELSE @,
            !.resync = @ \/ aviso.resync \/ Len(k.canal) >= CapacidadePorAssinante]

\* Mutant: a reconnection empties the buffer and tells nobody.
LacunaCalada ==
  /\ hub' = [hub EXCEPT !.buffer = <<>>, !.cursor = @ + 1, !.base = hub.cursor + 1]
  /\ UNCHANGED con

LacunaAvisada ==
  /\ hub' = [hub EXCEPT !.buffer = <<>>, !.cursor = @ + 1, !.base = hub.cursor + 1]
  /\ con' = [c \in Clientes |-> IF Assinante(c) THEN Entregar(con[c], Resync) ELSE con[c]]

\* escutar, between the opening and the first wait: every opening but the
\* first of the process marks a gap.
MarcarLacuna ==
  /\ escuta.estado = "aberta"
  /\ IF hub.primeira THEN hub' = [hub EXCEPT !.primeira = FALSE] /\ UNCHANGED con
                     ELSE LacunaAvisada
  /\ escuta' = [escuta EXCEPT !.estado = "marcada"]
  /\ UNCHANGED <<mudancas, dono, presas, fio, tela, furos, faltas>>

Consumir ==
  /\ escuta.estado = "marcada"
  /\ escuta' = [escuta EXCEPT !.estado = "consumindo"]
  /\ UNCHANGED <<mudancas, dono, hub, con, presas, fio, tela, furos, faltas>>

\* guardar: the window and the ceiling drop a prefix, never the newcomer.
Podas(b) == {d \in 0..(Len(b) - 1) : Len(b) - d <= EventosNoBuffer}

BaseValida(b, d, base) == IF d = 0 THEN base ELSE b[d].cursor

\* consumir and Publicar.
Publicar ==
  /\ Conectado /\ escuta.fila # <<>>
  /\ LET m == Head(escuta.fila)
         k == hub.cursor + 1
         b == Append(hub.buffer, Evento(k, m)) IN
       /\ \E d \in Podas(b) :
            hub' = [hub EXCEPT !.cursor = k, !.base = BaseValida(b, d, @), !.buffer = SubSeq(b, d + 1, Len(b))]
       /\ con' = [c \in Clientes |-> IF Assinante(c) /\ Assina(c, m)
                                     THEN Entregar(con[c], Evento(k, m)) ELSE con[c]]
  /\ escuta' = [escuta EXCEPT !.fila = Tail(@)]
  /\ UNCHANGED <<mudancas, dono, presas, fio, tela, furos, faltas>>

\* The connection dies; a part of what was on its way is lost, and nobody
\* knows until the probe.
Morrer ==
  /\ escuta.viva /\ faltas < MaxFaltas
  /\ faltas' = faltas + 1
  /\ \E n \in 0..Len(escuta.fila) :
       escuta' = [escuta EXCEPT !.viva = FALSE, !.fila = SubSeq(@, 1, n)]
  /\ UNCHANGED <<mudancas, dono, hub, con, presas, fio, tela, furos>>

\* Esperar fails, or its probe does: the hub closes and will open again.
Fechar ==
  /\ Conectado /\ ~escuta.viva
  /\ escuta' = [estado |-> "fechada", viva |-> FALSE, fila |-> <<>>]
  /\ UNCHANGED <<mudancas, dono, hub, con, presas, fio, tela, furos, faltas>>

-----------------------------------------------------------------------------
(* The SSE connection *)

\* Mutant: a cursor out of the reach of the buffer is replayed as far as it goes.
SemAlcanceCalado(desde) == desde > 0 /\ ~Conectado

\* The cursor is out of the buffer's reach, or nobody is listening now.
SemAlcance(desde) == desde > 0 /\ (desde < hub.base \/ desde > hub.cursor \/ ~Conectado)

\* What a loop over s takes, given the places it takes.
Separar(s, lugares) ==
  LET ate[n \in 0..Len(s)] ==
        IF n = 0 THEN <<>> ELSE IF n \in lugares THEN Append(ate[n - 1], s[n]) ELSE ate[n - 1]
  IN  ate[Len(s)]

\* reposicaoDe: nothing for a client with no cursor.
Reposicao(c, desde) ==
  IF desde = 0 THEN <<>>
  ELSE Separar(hub.buffer, {n \in DOMAIN hub.buffer : /\ hub.buffer[n].cursor > desde
                                                      /\ Assina(c, hub.buffer[n].m)})

\* The proxy prefers the URL, frozen when the tab reopened, to the browser's header.
Apresenta(c) == IF tela[c].url > 0 THEN tela[c].url ELSE tela[c].ultimoId

\* GET /stream: registration and replay in one critical section of the hub.
\* A client with no cursor is given nothing of what it missed since its page
\* was drawn.
Assinar(c) ==
  LET desde == Apresenta(c) IN
  /\ tela[c].fonte = "viva" /\ ~Assinante(c)
  /\ presas[c] < MaximoPorChave
  /\ con' = [con EXCEPT ![c] = [Fora EXCEPT !.fase = "repondo",
       !.repor = IF SemAlcance(desde) THEN <<Resync>> ELSE Reposicao(c, desde)]]
  /\ tela' = [tela EXCEPT ![c].lido = desde]
  /\ furos' = [furos EXCEPT ![c] = IF desde > 0 THEN @
       ELSE @ \cup SemBusca(c, {m \in Feitas : ~VemDoBanco(m)})]
  /\ UNCHANGED <<mudancas, dono, escuta, hub, presas, fio, faltas>>

\* An answer that is not 2xx closes the EventSource: too many connections of the
\* user, no session, or no API behind the proxy.
Recusar(c) ==
  /\ tela[c].fonte = "viva" /\ ~Assinante(c)
  /\ IF presas[c] >= MaximoPorChave THEN UNCHANGED faltas
     ELSE faltas < MaxFaltas /\ faltas' = faltas + 1
  /\ tela' = [tela EXCEPT ![c].fonte = "fechada"]
  /\ UNCHANGED <<mudancas, dono, escuta, hub, con, presas, fio, furos>>

\* reconectar: another EventSource, whose URL has the cursor of this moment.
Reconectar(c) ==
  /\ tela' = [tela EXCEPT ![c].fonte = "viva", ![c].url = tela[c].ultimoId]
  /\ con' = [con EXCEPT ![c] = Fora]
  /\ fio' = [fio EXCEPT ![c] = <<>>]
  /\ presas' = [presas EXCEPT ![c] = IF Assinante(c) THEN @ + 1 ELSE @]
  /\ UNCHANGED <<mudancas, dono, escuta, hub, furos>>

\* The button, or the network that is back: in any state of the tab.
ReabrirFonte(c) == faltas < MaxFaltas /\ faltas' = faltas + 1 /\ Reconectar(c)

\* The renewal after a refusal: the session is good, and a timer reconnects, or nobody
\* will reopen the tab.
Renovar(c) ==
  /\ tela[c].fonte = "fechada"
  /\ \/ Reconectar(c)
     \/ /\ tela' = [tela EXCEPT ![c].fonte = "desligada"]
        /\ UNCHANGED <<mudancas, dono, escuta, hub, con, presas, fio, furos>>
  /\ UNCHANGED faltas

\* The tab is in front again: it fetches, and reopens what is closed.
VoltarParaFrente(c) ==
  /\ faltas < MaxFaltas /\ faltas' = faltas + 1
  /\ tela' = [tela EXCEPT ![c].agendada = TRUE, ![c].fonte = "viva",
                          ![c].url = IF tela[c].fonte = "viva" THEN @ ELSE tela[c].ultimoId]
  /\ UNCHANGED <<mudancas, dono, escuta, hub, con, presas, fio, furos>>

Escrever(c, aviso) == fio[c] = <<>> /\ fio' = [fio EXCEPT ![c] = <<aviso>>]

\* Handler.entregar: out of reach, nothing; a failed look-up of the owner, resync.
EntregarAoCliente(c, ev) ==
  \/ Pode(c, ev.m) /\ Escrever(c, ev) /\ UNCHANGED furos
  \/ c \in Restritos /\ Escrever(c, Resync) /\ UNCHANGED furos
  \/ /\ ~Pode(c, ev.m)
     /\ furos' = [furos EXCEPT ![c] = @ \cup SemBusca(c, {ev.m})]
     /\ UNCHANGED fio

\* Assinar, after ready: the replay, one event at a time, then the loop.
Repor(c) ==
  /\ con[c].fase = "repondo"
  /\ IF con[c].repor = <<>>
     THEN con' = [con EXCEPT ![c].fase = "laco"] /\ UNCHANGED <<fio, furos>>
     ELSE /\ con' = [con EXCEPT ![c].repor = Tail(@)]
          /\ LET av == Head(con[c].repor) IN
               IF av.resync THEN Escrever(c, Resync) /\ UNCHANGED furos
               ELSE EntregarAoCliente(c, av)
  /\ UNCHANGED <<mudancas, dono, escuta, hub, presas, tela, faltas>>

\* laco, a notice: the mark is consumed only when the notice is not itself a
\* resync, and the notice that found it goes with it.
LerAviso(c) ==
  /\ con[c].fase = "laco" /\ con[c].canal # <<>>
  /\ LET av == Head(con[c].canal)
         marcado == ~av.resync /\ con[c].resync IN
       /\ con' = [con EXCEPT ![c].canal = Tail(@), ![c].resync = @ /\ ~marcado]
       /\ IF av.resync \/ marcado THEN Escrever(c, Resync) /\ UNCHANGED furos
          ELSE EntregarAoCliente(c, av)
  /\ UNCHANGED <<mudancas, dono, escuta, hub, presas, tela, faltas>>

\* laco, the heartbeat.
Bater(c) ==
  /\ con[c].fase = "laco" /\ con[c].resync
  /\ con' = [con EXCEPT ![c].resync = FALSE]
  /\ Escrever(c, Resync)
  /\ UNCHANGED <<mudancas, dono, escuta, hub, presas, tela, furos, faltas>>

\* Network, token or tab: what was written and not read is gone; the handler
\* finds out at the next write.
Cortar(c) ==
  /\ Assinante(c) /\ faltas < MaxFaltas
  /\ faltas' = faltas + 1
  /\ con' = [con EXCEPT ![c] = Fora]
  /\ fio' = [fio EXCEPT ![c] = <<>>]
  /\ presas' = [presas EXCEPT ![c] = @ + 1]
  /\ UNCHANGED <<mudancas, dono, escuta, hub, tela, furos>>

\* Cancelar, when the handler finds out.
Cancelar(c) ==
  /\ presas[c] > 0
  /\ presas' = [presas EXCEPT ![c] = @ - 1]
  /\ UNCHANGED <<mudancas, dono, escuta, hub, con, fio, tela, furos, faltas>>

\* The process restarts: NovoHub seeds the cursor with the clock, above every
\* cursor given before.
Reiniciar ==
  /\ faltas < MaxFaltas
  /\ faltas' = faltas + 1
  /\ escuta' = [estado |-> "fechada", viva |-> FALSE, fila |-> <<>>]
  /\ hub' = [cursor |-> hub.cursor + 1, base |-> hub.cursor + 1, buffer |-> <<>>, primeira |-> TRUE]
  /\ con' = [c \in Clientes |-> Fora]
  /\ presas' = [c \in Clientes |-> 0]
  /\ fio' = [c \in Clientes |-> <<>>]
  /\ UNCHANGED <<mudancas, dono, tela, furos>>

-----------------------------------------------------------------------------
(* The panel *)

\* A notice already drawn, by its `v`, is discarded without a fetch; a resync
\* forgets what was drawn.  A replay of what was read takes the cursor back.
Receber(c) ==
  /\ fio[c] # <<>>
  /\ LET av == Head(fio[c])
         d == mudancas[av.m]
         novidade == d.v > tela[c].vistos[d.linha] IN
       IF av.resync
       THEN /\ tela' = [tela EXCEPT ![c].vistos = [l \in Linhas |-> 0], ![c].agendada = TRUE]
            /\ UNCHANGED furos
       ELSE /\ tela' = [tela EXCEPT ![c].ultimoId = av.cursor, ![c].lido = av.cursor,
                                    ![c].agendada = @ \/ novidade,
                                    ![c].vistos[d.linha] = IF novidade THEN d.v ELSE @]
            /\ furos' = [furos EXCEPT ![c] = IF novidade THEN @ ELSE @ \cup SemBusca(c, {av.m})]
  /\ fio' = [fio EXCEPT ![c] = <<>>]
  /\ UNCHANGED <<mudancas, dono, escuta, hub, con, presas, faltas>>

\* executar, when the timer of agendar ends: one fetch in the air at a time; what it
\* reads is drawn later.
Executar(c) ==
  /\ tela[c].agendada
  /\ tela' = [tela EXCEPT ![c] =
       IF @.busca = <<>> THEN [@ EXCEPT !.agendada = FALSE, !.busca = <<Len(mudancas)>>]
       ELSE [@ EXCEPT !.agendada = FALSE, !.pendente = TRUE]]
  /\ UNCHANGED <<mudancas, dono, escuta, hub, con, presas, fio, furos, faltas>>

\* The loop goes round again if a notice came meanwhile.
OutraVolta(t) == IF t.pendente THEN <<Len(mudancas)>> ELSE <<>>

Desenhar(c) ==
  /\ tela[c].busca # <<>>
  /\ tela' = [tela EXCEPT ![c] = [@ EXCEPT !.vista = Head(tela[c].busca), !.falha = FALSE,
                                 !.busca = OutraVolta(tela[c]), !.pendente = FALSE]]
  /\ furos' = [furos EXCEPT ![c] = {m \in @ : m > Head(tela[c].busca)}]
  /\ UNCHANGED <<mudancas, dono, escuta, hub, con, presas, fio, faltas>>

\* An answer with an error code, which the screen shows.
Falhar(c) ==
  /\ tela[c].busca # <<>>
  /\ tela' = [tela EXCEPT ![c] = [@ EXCEPT !.falha = TRUE, !.busca = OutraVolta(tela[c]),
                                 !.pendente = FALSE]]
  /\ UNCHANGED <<mudancas, dono, escuta, hub, con, presas, fio, furos, faltas>>

\* The fetch rejects: nothing catches it, the loop ends and nothing is shown.  (The mark
\* `pendente' stays in the code, where the next executar clears it unread.)  What the
\* fetch was to bring is counted as lost until another one reads it.
Rejeitar(c) ==
  /\ tela[c].busca # <<>>
  /\ tela' = [tela EXCEPT ![c] = [@ EXCEPT !.busca = <<>>, !.pendente = FALSE]]
  /\ furos' = [furos EXCEPT ![c] = @ \cup
       {m \in Feitas : Atrasada(c, m) /\ ~VemDoBanco(m) /\ (tela[c].pendente \/ m <= Head(tela[c].busca))}]
  /\ UNCHANGED <<mudancas, dono, escuta, hub, con, presas, fio, faltas>>

NextTempoReal ==
  \/ \E l \in Linhas, v \in 1..MaxMudancas, d \in Restritos \cup {Ninguem} : Comitar(l, v, d)
  \/ Abrir \/ MarcarLacuna \/ Consumir \/ Publicar \/ Morrer \/ Fechar \/ Reiniciar
  \/ \E c \in Clientes :
       \/ Assinar(c) \/ Recusar(c) \/ Renovar(c) \/ ReabrirFonte(c) \/ VoltarParaFrente(c)
       \/ Repor(c) \/ LerAviso(c) \/ Bater(c) \/ Cortar(c) \/ Cancelar(c)
       \/ Receber(c) \/ Executar(c) \/ Desenhar(c) \/ Falhar(c) \/ Rejeitar(c)

\* The hub's goroutine retries for ever and probes its connection, the handler
\* loops, its write times out, the browser reconnects while the EventSource is alive
\* and is not refused for ever (MaxFaltas), a renewal ends, the timer runs and a fetch
\* ends, well or not.  Nobody owes a tab that is off its reopening.
Justica ==
  /\ WF_varsTempoReal(Abrir) /\ WF_varsTempoReal(MarcarLacuna) /\ WF_varsTempoReal(Consumir)
  /\ WF_varsTempoReal(Publicar) /\ WF_varsTempoReal(Fechar)
  /\ \A c \in Clientes :
       /\ WF_varsTempoReal(Assinar(c)) /\ WF_varsTempoReal(Renovar(c))
       /\ WF_varsTempoReal(Repor(c)) /\ WF_varsTempoReal(LerAviso(c)) /\ WF_varsTempoReal(Bater(c))
       /\ WF_varsTempoReal(Cancelar(c)) /\ WF_varsTempoReal(Receber(c))
       /\ WF_varsTempoReal(Executar(c))
       /\ WF_varsTempoReal(Desenhar(c) \/ Falhar(c) \/ Rejeitar(c))

SpecTempoReal == InitTempoReal /\ [][NextTempoReal]_varsTempoReal /\ Justica

-----------------------------------------------------------------------------
(* Properties *)

\* In one of these notices m comes, or the order to fetch again.
Traz(avisos, m) == \E i \in DOMAIN avisos : avisos[i].resync \/ avisos[i].m = m
VemDaConexao(c, m) ==
  con[c].resync \/ Traz(fio[c], m) \/ Traz(con[c].canal, m) \/ Traz(con[c].repor, m)
\* A client that is out will present a cursor: the buffer reaches it, or not.
VemDe(c, m, desde) == desde > 0 /\ (SemAlcance(desde) \/ Traz(Reposicao(c, desde), m))
\* The browser presents one, and whoever reopens the tab the other.
VemNaVolta(c, m) ==
  /\ tela[c].fonte = "viva" => VemDe(c, m, Apresenta(c))
  /\ VemDe(c, m, tela[c].ultimoId)

Avisada(c, m) ==
  \/ VemDaBusca(c, m) \/ tela[c].falha
  \/ VemDoBanco(m)
  \/ IF Assinante(c) THEN VemDaConexao(c, m) ELSE VemNaVolta(c, m)

\* Whoever is behind will be told, or told to fetch again, once it has a connection,
\* but for the five holes that `furos` records: no cursor when it subscribes, a commit
\* before the process ever listened, a change whose `v` is below one already drawn, a
\* row that is no longer the client's when its notice is delivered, and a fetch that
\* rejects (hub.go reposicaoDe, escutar, marcarLacuna, entregar; escopo.go
\* PodeEntregar; eventos.ts novidade; atualizacao.ts executar).  A client with no
\* cursor is promised nothing while it is out.
PerdaSoPelosFuros ==
  \A c \in Clientes, m \in Feitas :
    Atrasada(c, m) => Avisada(c, m) \/ m \in furos[c] \/ (~Assinante(c) /\ tela[c].ultimoId = 0)

\* What is still to be read comes in order, each notice once on one connection, and after
\* the cursor this connection was asked from: replay and live events neither overlap nor
\* swap (hub.go Assinar: registering and replaying are one critical section).  That cursor may be
\* older than what the tab has read (proxy.ts): what it read is then read again.
CursoresEmOrdem ==
  \A c \in Clientes :
    LET caminho == fio[c] \o con[c].repor \o con[c].canal IN
    Assinante(c) =>
      \A i \in DOMAIN caminho : ~caminho[i].resync =>
        /\ caminho[i].cursor > tela[c].lido
        /\ \A j \in 1..(i - 1) : ~caminho[j].resync => caminho[j].cursor < caminho[i].cursor

\* What a connection carries is in order and lacks only what fell into the gaps the code
\* knows (hub.go reposicaoDe, publicar).
FioHonesto == CursoresEmOrdem /\ PerdaSoPelosFuros

\* Every screen catches up with every change it may show, or shows a failure, or the
\* change fell into one of the holes, or the tab says it is off and stays so: a tab
\* somebody reopens catches up (sse.ts, atualizacao.ts).
TelaAlcanca ==
  \A c \in Clientes, m \in 1..MaxMudancas :
    (m \in Feitas /\ Interessa(c, m))
      ~> (tela[c].vista >= m \/ tela[c].falha \/ m \in furos[c] \/ [](tela[c].fonte = "desligada"))
=============================================================================
