------------------------------- MODULE Sessoes -------------------------------
(***************************************************************************)
(* Sessions of the panel: refresh tokens and their families, rotation,     *)
(* reuse, logout, recovery of the password and the changes an              *)
(* administrator makes to an account (internal/auth, modules/users).       *)
(*                                                                         *)
(* Requests run concurrently under READ COMMITTED.  A row a transaction    *)
(* inserted is invisible until it commits ("pendente"); a row it updated   *)
(* is locked until then (`trava` names the request), and an UPDATE that    *)
(* meets a lock waits and then re-evaluates its condition on the row the   *)
(* other one left, without seeing rows its own snapshot did not contain.   *)
(* A refusal that changes nothing is no step; so a deadline, which only    *)
(* refuses, is a token or a link nobody presents.  The value of a           *)
(* password, the throttling of logins and the access token are left out.   *)
(***************************************************************************)
EXTENDS FiniteSets

CONSTANTS
  Usuarios, Familias, Tokens, Resets, Chamadas,
  Ninguem     \* no request, no token, no family

ASSUME NinguemDeFora ==
  Ninguem \notin Usuarios \cup Familias \cup Tokens \cup Resets \cup Chamadas

VARIABLES
  tokens,   \* refresh_tokens
  resets,   \* password_resets
  contas,   \* users: the columns these operations read and write
  pedidos   \* requests in flight

vars == <<tokens, resets, contas, pedidos>>

Passos == {"livre", "emitir", "registrar", "rotacionar", "gravar", "reuso",
           "revogar", "consumir", "senha", "criar"}
Efeitos == {"nada", "senha", "desativar"}

TokenLivre == [st |-> "livre", usuario |-> Ninguem, familia |-> Ninguem,
               revogado |-> FALSE, sucessor |-> Ninguem, trava |-> Ninguem]
ResetLivre == [st |-> "livre", usuario |-> Ninguem, usado |-> FALSE, trava |-> Ninguem]
PedidoLivre == [passo |-> "livre", usuario |-> Ninguem, token |-> Ninguem, novo |-> Ninguem,
                familia |-> Ninguem, reset |-> Ninguem, efeito |-> "nada", alvo |-> {}]

Existe(t) == tokens[t].st = "gravado"
NaoRevogado(t) == Existe(t) /\ ~tokens[t].revogado
DaFamilia(f) == {t \in Tokens : NaoRevogado(t) /\ tokens[t].familia = f}
DoUsuario(u) == {t \in Tokens : NaoRevogado(t) /\ tokens[t].usuario = u}

Init ==
  /\ tokens = [t \in Tokens |-> TokenLivre]
  /\ resets = [r \in Resets |-> ResetLivre]
  /\ contas = [u \in Usuarios |-> [ativa |-> TRUE, trava |-> Ninguem]]
  /\ pedidos = [p \in Chamadas |-> PedidoLivre]

Em(p, passo) == pedidos[p].passo = passo
Avancar(p, campos) == pedidos' = [pedidos EXCEPT ![p] = campos]
Terminar(p) == Avancar(p, PedidoLivre)

\* The INSERT of the successor, still invisible to everybody else.
CriarRefresh(t, u, f) ==
  tokens' = [tokens EXCEPT ![t] = [TokenLivre EXCEPT !.st = "pendente", !.usuario = u, !.familia = f]]

-----------------------------------------------------------------------------
(* Login: credentials are checked before the transaction; inside it neither *)
(* the password nor `active` is looked at again.                            *)

Login(p, u) ==
  /\ Em(p, "livre")
  /\ contas[u].ativa
  /\ \E f \in {g \in Familias : \A t \in Tokens : tokens[t].familia # g} :
       \* uuid.New(): nobody else has the family, in flight or stored.
       /\ \A q \in Chamadas : pedidos[q].familia # f
       /\ Avancar(p, [PedidoLivre EXCEPT !.passo = "emitir", !.usuario = u, !.familia = f])
  /\ UNCHANGED <<tokens, resets, contas>>

\* emitirSessao, for a login (no token presented) and for a refresh, which
\* loads the account first and gives up when it is not active.
EmitirSessao(p) ==
  /\ Em(p, "emitir")
  /\ pedidos[p].token = Ninguem \/ contas[pedidos[p].usuario].ativa
  /\ \E t \in Tokens :
       /\ tokens[t].st = "livre"
       /\ CriarRefresh(t, pedidos[p].usuario, pedidos[p].familia)
       /\ Avancar(p, [pedidos[p] EXCEPT !.novo = t,
                        !.passo = IF pedidos[p].token = Ninguem THEN "registrar" ELSE "rotacionar"])
  /\ UNCHANGED <<resets, contas>>

ContaInativa(p) ==
  /\ Em(p, "emitir")
  /\ pedidos[p].token # Ninguem /\ ~contas[pedidos[p].usuario].ativa
  /\ Terminar(p)
  /\ UNCHANGED <<tokens, resets, contas>>

\* UPDATE users SET last_login_at waits for whoever holds the account's row.
RegistrarLogin(p) ==
  /\ Em(p, "registrar")
  /\ contas[pedidos[p].usuario].trava = Ninguem
  /\ tokens' = [tokens EXCEPT ![pedidos[p].novo].st = "gravado"]
  /\ Terminar(p)
  /\ UNCHANGED <<resets, contas>>

-----------------------------------------------------------------------------
(* Refresh *)

Rotacionado(t) == tokens[t].sucessor # Ninguem
Revogado(t) == tokens[t].revogado

Refresh(p, t) ==
  /\ Em(p, "livre")
  /\ Existe(t)
  /\ \/ Rotacionado(t)
     \/ ~Revogado(t)
  /\ Avancar(p, [PedidoLivre EXCEPT !.passo = IF Rotacionado(t) THEN "reuso" ELSE "emitir",
                   !.usuario = tokens[t].usuario, !.token = t, !.familia = tokens[t].familia])
  /\ UNCHANGED <<tokens, resets, contas>>

\* Mutant: the number of rows the UPDATE changed is not looked at.
RotacaoSemConferir(p) ==
  /\ tokens' = [tokens EXCEPT ![pedidos[p].token].trava = p]
  /\ Avancar(p, [pedidos[p] EXCEPT !.passo = "gravar"])

\* One row updated: this transaction, and no other, burns the token.
RotacaoAplicada(p) ==
  LET t == pedidos[p].token IN
  /\ ~Revogado(t)
  /\ tokens' = [tokens EXCEPT ![t].trava = p]
  /\ Avancar(p, [pedidos[p] EXCEPT !.passo = "gravar"])

\* Mutant: a token found revoked is taken for a token used twice.
SemReler(p) ==
  /\ Revogado(pedidos[p].token)
  /\ tokens' = [tokens EXCEPT ![pedidos[p].novo] = TokenLivre]
  /\ Avancar(p, [pedidos[p] EXCEPT !.passo = "reuso", !.novo = Ninguem])

\* No row updated: the transaction is undone and the new token never existed.
\* A successor means reuse; none means a logout or a change of password.
RotacaoPerdida(p) ==
  LET t == pedidos[p].token IN
  /\ Revogado(t)
  /\ tokens' = [tokens EXCEPT ![pedidos[p].novo] = TokenLivre]
  /\ IF Rotacionado(t)
     THEN Avancar(p, [pedidos[p] EXCEPT !.passo = "reuso", !.novo = Ninguem])
     ELSE Terminar(p)

RotacionarRefresh(p) ==
  /\ Em(p, "rotacionar")
  /\ tokens[pedidos[p].token].trava = Ninguem
  /\ RotacaoAplicada(p) \/ RotacaoPerdida(p)
  /\ UNCHANGED <<resets, contas>>

ComitarRotacao(p) ==
  LET t == pedidos[p].token  n == pedidos[p].novo IN
  /\ Em(p, "gravar")
  /\ tokens' = [tokens EXCEPT ![t].revogado = TRUE, ![t].sucessor = n, ![t].trava = Ninguem,
                              ![n].st = "gravado"]
  /\ Terminar(p)
  /\ UNCHANGED <<resets, contas>>

-----------------------------------------------------------------------------
(* Revocations.  The statement's snapshot is taken when it starts; it ends  *)
(* when no row of the snapshot is locked by another transaction.            *)

RevogarFamilia(f) == DaFamilia(f)
RevogarSessoesDoUsuario(u) == DoUsuario(u)

\* revogarFamiliaComprometida: a transaction of its own, after the rollback.
RevogarFamiliaComprometida(p) ==
  /\ Em(p, "reuso")
  /\ Avancar(p, [pedidos[p] EXCEPT !.passo = "revogar", !.alvo = RevogarFamilia(pedidos[p].familia)])
  /\ UNCHANGED <<tokens, resets, contas>>

\* Mutant: leaving revokes the token presented and no other.
LogoutDoTokenSo(p) ==
  /\ Em(p, "livre")
  /\ \E t \in Tokens :
       /\ Existe(t)
       /\ Avancar(p, [PedidoLivre EXCEPT !.passo = "revogar", !.familia = tokens[t].familia,
                        !.alvo = {t} \cap RevogarFamilia(tokens[t].familia)])
  /\ UNCHANGED <<tokens, resets, contas>>

Logout(p) ==
  /\ Em(p, "livre")
  /\ \/ \E t \in Tokens :
          /\ Existe(t)
          /\ Avancar(p, [PedidoLivre EXCEPT !.passo = "revogar", !.familia = tokens[t].familia,
                           !.alvo = RevogarFamilia(tokens[t].familia)])
     \/ \E u \in Usuarios :
          Avancar(p, [PedidoLivre EXCEPT !.passo = "revogar", !.usuario = u,
                        !.alvo = RevogarSessoesDoUsuario(u)])
  /\ UNCHANGED <<tokens, resets, contas>>

\* Mutant: the effect ends in the wrong column.
AplicadoComEfeito(c, efeito) == [c EXCEPT !.trava = efeito]

\* What the transaction that revoked also commits on the account's row.
Aplicado(c, efeito) == [c EXCEPT !.ativa = @ /\ efeito # "desativar", !.trava = Ninguem]

ConcluirRevogacao(p) ==
  LET d == pedidos[p]
      Muda(u) == d.usuario = u /\ d.efeito # "nada" IN
  /\ Em(p, "revogar")
  /\ \A t \in d.alvo : tokens[t].trava = Ninguem
  /\ tokens' = [t \in Tokens |-> IF t \in d.alvo THEN [tokens[t] EXCEPT !.revogado = TRUE] ELSE tokens[t]]
  /\ contas' = [u \in Usuarios |-> IF Muda(u) THEN Aplicado(contas[u], d.efeito) ELSE contas[u]]
  /\ resets' = [r \in Resets |-> IF r = d.reset THEN [resets[r] EXCEPT !.usado = TRUE, !.trava = Ninguem]
                                 ELSE resets[r]]
  /\ Terminar(p)

-----------------------------------------------------------------------------
(* Recovery of the password *)

\* EsqueciSenha: the links the UPDATE sees are locked, the new one is created
\* and everything is committed together.
InvalidarResetsPendentes(p, u) ==
  LET pendentes == {r \in Resets : resets[r].st = "gravado" /\ resets[r].usuario = u /\ ~resets[r].usado} IN
  /\ Em(p, "livre")
  /\ contas[u].ativa
  /\ \A r \in pendentes : resets[r].trava = Ninguem
  /\ resets' = [r \in Resets |-> IF r \in pendentes THEN [resets[r] EXCEPT !.trava = p] ELSE resets[r]]
  /\ Avancar(p, [PedidoLivre EXCEPT !.passo = "criar", !.usuario = u])
  /\ UNCHANGED <<tokens, contas>>

CriarReset(p) ==
  /\ Em(p, "criar")
  /\ \E n \in Resets :
       /\ resets[n].st = "livre"
       /\ resets' = [r \in Resets |->
            CASE r = n -> [ResetLivre EXCEPT !.st = "gravado", !.usuario = pedidos[p].usuario]
              [] r # n /\ resets[r].trava = p -> [resets[r] EXCEPT !.usado = TRUE, !.trava = Ninguem]
              [] OTHER -> resets[r]]
  /\ Terminar(p)
  /\ UNCHANGED <<tokens, contas>>

TrocarSenha(p, r) ==
  /\ Em(p, "livre")
  /\ resets[r].st = "gravado" /\ ~resets[r].usado
  /\ Avancar(p, [PedidoLivre EXCEPT !.passo = "consumir", !.reset = r,
                   !.usuario = resets[r].usuario, !.efeito = "senha"])
  /\ UNCHANGED <<tokens, resets, contas>>

\* Mutant: the link is spent without looking whether it still is unspent.
ConsumirSemCondicao(p) ==
  /\ Em(p, "consumir")
  /\ resets[pedidos[p].reset].trava = Ninguem
  /\ Avancar(p, [pedidos[p] EXCEPT !.passo = "senha"])
  /\ resets' = [resets EXCEPT ![pedidos[p].reset].trava = p]
  /\ UNCHANGED <<tokens, contas>>

\* UPDATE ... WHERE used_at IS NULL: only one of two requests spends a link.
ConsumirReset(p) ==
  LET r == pedidos[p].reset IN
  /\ Em(p, "consumir")
  /\ resets[r].trava = Ninguem
  /\ IF resets[r].usado
     THEN Terminar(p) /\ UNCHANGED resets
     ELSE /\ Avancar(p, [pedidos[p] EXCEPT !.passo = "senha"])
          /\ resets' = [resets EXCEPT ![r].trava = p]
  /\ UNCHANGED <<tokens, contas>>

\* AtualizarSenha and users.Atualizar/Desativar lock the account's row; the next
\* statement of the same transaction revokes every session its snapshot shows.
AtualizarConta(p) ==
  LET u == pedidos[p].usuario IN
  /\ Em(p, "senha")
  /\ contas[u].trava = Ninguem
  /\ contas' = [contas EXCEPT ![u].trava = p]
  /\ Avancar(p, [pedidos[p] EXCEPT !.passo = "revogar", !.alvo = RevogarSessoesDoUsuario(u)])
  /\ UNCHANGED <<tokens, resets>>

\* The panel changes a password or deactivates an account.
AlterarConta(p, u) ==
  /\ Em(p, "livre")
  /\ \E efeito \in {"senha", "desativar"} :
       /\ Avancar(p, [PedidoLivre EXCEPT !.passo = "senha", !.usuario = u, !.efeito = efeito])
  /\ UNCHANGED <<tokens, resets, contas>>

\* PATCH {active: true}: one row, no session touched.
Reativar(u) ==
  /\ ~contas[u].ativa /\ contas[u].trava = Ninguem
  /\ contas' = [contas EXCEPT ![u].ativa = TRUE]
  /\ UNCHANGED <<tokens, resets, pedidos>>

-----------------------------------------------------------------------------
(* The process stops, the client goes away or a deadline ends the request:  *)
(* its transaction is undone, the reuse alarm included.                     *)
Cair(p) ==
  /\ ~Em(p, "livre")
  /\ tokens' = [t \in Tokens |->
       CASE t = pedidos[p].novo -> TokenLivre
         [] t # pedidos[p].novo /\ tokens[t].trava = p -> [tokens[t] EXCEPT !.trava = Ninguem]
         [] OTHER -> tokens[t]]
  /\ resets' = [r \in Resets |-> IF resets[r].trava = p THEN [resets[r] EXCEPT !.trava = Ninguem] ELSE resets[r]]
  /\ contas' = [u \in Usuarios |-> IF contas[u].trava = p THEN [contas[u] EXCEPT !.trava = Ninguem] ELSE contas[u]]
  /\ Terminar(p)

Passo(p) ==
  \/ EmitirSessao(p) \/ ContaInativa(p) \/ RegistrarLogin(p)
  \/ RotacionarRefresh(p) \/ ComitarRotacao(p)
  \/ RevogarFamiliaComprometida(p) \/ ConcluirRevogacao(p)
  \/ CriarReset(p) \/ ConsumirReset(p) \/ AtualizarConta(p)

Next ==
  \/ \E p \in Chamadas :
       \/ Passo(p) \/ Logout(p) \/ Cair(p)
       \/ \E u \in Usuarios : Login(p, u) \/ InvalidarResetsPendentes(p, u) \/ AlterarConta(p, u)
       \/ \E t \in Tokens : Refresh(p, t)
       \/ \E r \in Resets : TrocarSenha(p, r)
  \/ \E u \in Usuarios : Reativar(u)

Spec == Init /\ [][Next]_vars

-----------------------------------------------------------------------------
(* Properties *)

TokenT == [st : {"livre", "pendente", "gravado"}, usuario : Usuarios \cup {Ninguem},
           familia : Familias \cup {Ninguem}, revogado : BOOLEAN, sucessor : Tokens \cup {Ninguem},
           trava : Chamadas \cup {Ninguem}]
ResetT == [st : {"livre", "gravado"}, usuario : Usuarios \cup {Ninguem}, usado : BOOLEAN,
           trava : Chamadas \cup {Ninguem}]
ContaT == [ativa : BOOLEAN, trava : Chamadas \cup {Ninguem}]
PedidoT == [passo : Passos, usuario : Usuarios \cup {Ninguem}, token : Tokens \cup {Ninguem},
            novo : Tokens \cup {Ninguem}, familia : Familias \cup {Ninguem},
            reset : Resets \cup {Ninguem}, efeito : Efeitos, alvo : SUBSET Tokens]

TypeOKSessoes ==
  /\ tokens \in [Tokens -> TokenT]
  /\ resets \in [Resets -> ResetT]
  /\ contas \in [Usuarios -> ContaT]
  /\ pedidos \in [Chamadas -> PedidoT]

\* However many requests rotate, log out and crash together, a family never has
\* two tokens that can be exchanged (auth/repository.go RotacionarRefresh: the
\* conditional UPDATE is the arbiter of the race).
UmElo ==
  \A s, t \in Tokens :
    NaoRevogado(s) /\ NaoRevogado(t) /\ tokens[s].familia = tokens[t].familia => s = t

\* A request only raises the reuse alarm for a token that really was exchanged:
\* a logout or a change of password in another tab is never taken for it
\* (auth/service.go Refresh, RotacaoRevogadaSemSucessor).
ReusoSoComSucessor ==
  \A p \in Chamadas : Em(p, "reuso") => Rotacionado(pedidos[p].token)

\* A finished revocation of a family leaves a token of it that can be exchanged
\* only when a rotation overtook it: some token it was waiting for was exchanged
\* meanwhile.  Without a refresh in flight, leaving a session ends it.
RevogouFamilia(p, f) ==
  /\ Em(p, "revogar") /\ pedidos[p].familia = f /\ pedidos'[p] = PedidoLivre
  /\ \A t \in pedidos[p].alvo : tokens'[t].revogado

SaidaSoPerdeParaRotacao ==
  [][\A p \in Chamadas, f \in Familias :
        RevogouFamilia(p, f) /\ (\E t \in Tokens : NaoRevogado(t)' /\ tokens'[t].familia = f)
        => \E s \in pedidos[p].alvo : Rotacionado(s)]_vars

\* Between spending a recovery link and committing the new password the link is
\* unspent for everybody else and held by one request: two requests with the
\* same link change the password once (auth/repository.go ConsumirReset).
GastandoLink(p) == pedidos[p].reset # Ninguem /\ pedidos[p].passo \in {"senha", "revogar"}

LinkGastoUmaVez ==
  \A p \in Chamadas : GastandoLink(p) =>
    /\ ~resets[pedidos[p].reset].usado
    /\ resets[pedidos[p].reset].trava = p
=============================================================================
