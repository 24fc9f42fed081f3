--------------------------- MODULE Administradores ---------------------------
(***************************************************************************)
(* Users, roles and their matrices, and the lock that is meant to keep one *)
(* active user able to administer access (modules/users, modules/roles).   *)
(*                                                                         *)
(* A request reads and authorises before its transaction; the transaction  *)
(* takes the advisory lock only when what was read says an administrator   *)
(* is lost.  A cell of a matrix stands for resource:action; scopes are     *)
(* left out.  A refusal that changes nothing is no step.                   *)
(***************************************************************************)
EXTENDS Naturals, FiniteSets

CONSTANTS
  Usuarios, Papeis, Mudancas,
  Raiz,          \* the role with is_system
  Ninguem

Perfis == "perfis"       \* roles:editar, the bit of the administrator
Contas == "usuarios"     \* users:criar, editar, excluir
Celulas == {Perfis, Contas}

ASSUME PapelRaiz == Raiz \in Papeis /\ Ninguem \notin Papeis \cup Usuarios \cup Mudancas

VARIABLES
  usuarios,   \* users: role_id (Ninguem: no such row) and active
  matriz,     \* role_permissions of each role
  papeis,     \* roles that exist
  travaAdm,      \* pg_advisory_xact_lock(ChaveDaTravaDeAdministradores)
  mudancas     \* requests in flight

varsEquipe == <<usuarios, matriz, papeis, travaAdm, mudancas>>

SemMudanca == [passo |-> "livre", alvo |-> Ninguem, papel |-> Ninguem, ativo |-> "mantem",
          era |-> FALSE, sera |-> FALSE, nova |-> {}, vistas |-> {}]

\* The seed: one account with the system role; nobody else, no other role.
InitEquipe ==
  /\ \E u \in Usuarios : usuarios = [v \in Usuarios |->
        [papel |-> IF v = u THEN Raiz ELSE Ninguem, ativo |-> v = u]]
  /\ matriz = [r \in Papeis |-> IF r = Raiz THEN Celulas ELSE {}]
  /\ papeis = {Raiz}
  /\ travaAdm = Ninguem
  /\ mudancas = [p \in Mudancas |-> SemMudanca]

Em(p, passo) == mudancas[p].passo = passo
Avancar(p, campos) == mudancas' = [mudancas EXCEPT ![p] = campos]
Soltar(p) == travaAdm' = IF travaAdm = p THEN Ninguem ELSE travaAdm
Fechar(p) == Avancar(p, SemMudanca) /\ Soltar(p)

Existe(u) == usuarios[u].papel # Ninguem
ConcedeAdministracao(m) == Perfis \in m
Administra(u) == usuarios[u].ativo /\ Existe(u) /\ ConcedeAdministracao(matriz[usuarios[u].papel])
Administradores == {u \in Usuarios : Administra(u)}

\* auth.Middleware loads the actor and the matrix of its role on every request.
Pode(ator, celula) == Existe(ator) /\ usuarios[ator].ativo /\ celula \in matriz[usuarios[ator].papel]
Ilimitado(ator) == usuarios[ator].papel = Raiz
Excedentes(m, ator) == m \ matriz[usuarios[ator].papel]

AutorizarPapelAtribuido(ator, r) ==
  /\ Pode(ator, Perfis)
  /\ Ilimitado(ator) \/ Excedentes(matriz[r], ator) = {}

-----------------------------------------------------------------------------
(* Users *)

\* POST /users; what lies between its check and its INSERT touches no
\* administrator, so it is one step.  The foreign key wants an existing role.
Criar(ator, u, r) ==
  /\ Pode(ator, Contas) /\ AutorizarPapelAtribuido(ator, r)
  /\ ~Existe(u) /\ r \in papeis
  /\ \E ativo \in BOOLEAN : usuarios' = [usuarios EXCEPT ![u] = [papel |-> r, ativo |-> ativo]]
  /\ UNCHANGED <<matriz, papeis, travaAdm, mudancas>>

\* autorizarMudancasSensiveis: r = Ninguem when the body carries no role_id.
TrocandoPapel(u, r) == r # Ninguem /\ r # usuarios[u].papel
Autorizado(ator, u, r) ==
  TrocandoPapel(u, r) => ator # u /\ AutorizarPapelAtribuido(ator, r)
RebaixaAdministrador(d) == d.era /\ ~d.sera
Lido(u, r) ==
  [era |-> TrocandoPapel(u, r) /\ ConcedeAdministracao(matriz[usuarios[u].papel]),
   sera |-> TrocandoPapel(u, r) /\ ConcedeAdministracao(matriz[r])]

\* PATCH and PUT /users/{id}, up to the transaction.
Atualizar(p, ator, u, r, ativo) ==
  LET lido == Lido(u, r)
      pesa == ativo = "nao" \/ RebaixaAdministrador(lido) IN
  /\ Em(p, "livre")
  /\ Pode(ator, Contas) /\ Existe(u)
  /\ Autorizado(ator, u, r)
  /\ ativo = "nao" => ator # u
  /\ Avancar(p, [SemMudanca EXCEPT !.passo = IF pesa THEN "travar" ELSE "gravar", !.alvo = u,
                   !.papel = r, !.ativo = ativo, !.era = lido.era, !.sera = lido.sera])
  /\ UNCHANGED <<usuarios, matriz, papeis, travaAdm>>

\* DELETE /users/{id}, up to the transaction.
Desativar(p, ator, u) ==
  /\ Em(p, "livre")
  /\ Pode(ator, Contas) /\ Existe(u) /\ ator # u
  /\ Avancar(p, [SemMudanca EXCEPT !.passo = "travar", !.alvo = u, !.ativo = "nao"])
  /\ UNCHANGED <<usuarios, matriz, papeis, travaAdm>>

\* Mutant: the account being deactivated counts as one that remains.
ContarComOProprio(u) == Cardinality(Administradores)

ContarAdministradoresAtivos(exceto) == Cardinality(Administradores \ {exceto})

\* Lock first, count after; a refusal undoes the transaction.
ExigirOutroAdministrador(p) ==
  /\ Em(p, "travar")
  /\ travaAdm = Ninguem
  /\ IF ContarAdministradoresAtivos(mudancas[p].alvo) = 0
     THEN Fechar(p)
     ELSE travaAdm' = p /\ Avancar(p, [mudancas[p] EXCEPT !.passo = "gravar"])
  /\ UNCHANGED <<usuarios, matriz, papeis>>

\* UPDATE users and COMMIT; a role deleted meanwhile is refused by the key.
GravarUsuario(p) ==
  LET d == mudancas[p] IN
  /\ Em(p, "gravar")
  /\ Fechar(p)
  /\ usuarios' = IF d.papel \in papeis \cup {Ninguem}
       THEN [usuarios EXCEPT ![d.alvo] =
               [papel |-> IF d.papel = Ninguem THEN @.papel ELSE d.papel,
                ativo |-> CASE d.ativo = "sim" -> TRUE [] d.ativo = "nao" -> FALSE [] OTHER -> @.ativo]]
       ELSE usuarios
  /\ UNCHANGED <<matriz, papeis>>

-----------------------------------------------------------------------------
(* Roles *)

CriarPapel(ator, r) ==
  /\ Pode(ator, Perfis) /\ r \notin papeis
  /\ papeis' = papeis \cup {r}
  /\ matriz' = [matriz EXCEPT ![r] = {}]
  /\ UNCHANGED <<usuarios, travaAdm, mudancas>>

\* Mutant: only active accounts keep their role from being deleted.
ExcluirComInativos(ator, r) ==
  /\ Pode(ator, Perfis) /\ r \in papeis \ {Raiz}
  /\ \A u \in Usuarios : usuarios[u].ativo => usuarios[u].papel # r
  /\ papeis' = papeis \ {r}
  /\ matriz' = [matriz EXCEPT ![r] = {}]
  /\ UNCHANGED <<usuarios, travaAdm, mudancas>>

\* Refused for the system role and for a role with users, active or not.
ExcluirPapel(ator, r) ==
  /\ Pode(ator, Perfis) /\ r \in papeis \ {Raiz}
  /\ \A u \in Usuarios : usuarios[u].papel # r
  /\ papeis' = papeis \ {r}
  /\ matriz' = [matriz EXCEPT ![r] = {}]
  /\ UNCHANGED <<usuarios, travaAdm, mudancas>>

AutorizarMatriz(ator, r, m) ==
  /\ usuarios[ator].papel # r
  /\ Ilimitado(ator) \/ Excedentes(m, ator) = {}

\* PUT /roles/{id}/permissions, up to the transaction.
SubstituirPermissoes(p, ator, r, m) ==
  /\ Em(p, "livre")
  /\ Pode(ator, Perfis) /\ r \in papeis \ {Raiz}
  /\ AutorizarMatriz(ator, r, m)
  /\ Avancar(p, [SemMudanca EXCEPT !.passo = IF ConcedeAdministracao(m) THEN "apagar" ELSE "retirar",
                   !.papel = r, !.nova = m])
  /\ UNCHANGED <<usuarios, matriz, papeis, travaAdm>>

ContarForaDoPerfil(r) == Cardinality({u \in Administradores : usuarios[u].papel # r})

NaoTirarOUltimoAdministrador(p) ==
  LET r == mudancas[p].papel IN
  /\ Em(p, "retirar")
  /\ travaAdm = Ninguem
  /\ IF ConcedeAdministracao(matriz[r]) /\ ContarForaDoPerfil(r) = 0
     THEN Fechar(p)
     ELSE travaAdm' = p /\ Avancar(p, [mudancas[p] EXCEPT !.passo = "apagar"])
  /\ UNCHANGED <<usuarios, matriz, papeis>>

\* DELETE: its snapshot is what it removes, whenever it gets the rows.
ApagarMatriz(p) ==
  /\ Em(p, "apagar")
  /\ Avancar(p, [mudancas[p] EXCEPT !.passo = "inserir", !.vistas = matriz[mudancas[p].papel]])
  /\ UNCHANGED <<usuarios, matriz, papeis, travaAdm>>

\* INSERT and COMMIT; rows another replacement left meanwhile stay, and a cell
\* of theirs that is also ours (or a role deleted meanwhile) undoes it all.
InserirMatriz(p) ==
  LET d == mudancas[p]  ficam == matriz[d.papel] \ d.vistas IN
  /\ Em(p, "inserir")
  /\ Fechar(p)
  /\ matriz' = IF d.papel \in papeis /\ ficam \cap d.nova = {}
               THEN [matriz EXCEPT ![d.papel] = ficam \cup d.nova] ELSE matriz
  /\ UNCHANGED <<usuarios, papeis>>

\* Process, client or deadline: the transaction and its lock are gone.
CairMudanca(p) ==
  /\ ~Em(p, "livre")
  /\ Fechar(p)
  /\ UNCHANGED <<usuarios, matriz, papeis>>

NextEquipe ==
  \/ \E p \in Mudancas :
       \/ ExigirOutroAdministrador(p) \/ GravarUsuario(p) \/ CairMudanca(p)
       \/ NaoTirarOUltimoAdministrador(p) \/ ApagarMatriz(p) \/ InserirMatriz(p)
       \/ \E ator \in Usuarios :
            \/ \E u \in Usuarios :
                 \/ Desativar(p, ator, u)
                 \/ \E r \in Papeis \cup {Ninguem}, ativo \in {"mantem", "sim", "nao"} :
                      Atualizar(p, ator, u, r, ativo)
            \/ \E r \in Papeis, m \in SUBSET Celulas : SubstituirPermissoes(p, ator, r, m)
  \/ \E ator \in Usuarios, r \in Papeis :
       \/ CriarPapel(ator, r) \/ ExcluirPapel(ator, r)
       \/ \E u \in Usuarios : Criar(ator, u, r)

SpecEquipe == InitEquipe /\ [][NextEquipe]_varsEquipe

-----------------------------------------------------------------------------
(* Properties *)

\* The domains of the columns, and their references: a user has a role that
\* exists, and only a role that exists has a matrix (roles/service.go Excluir
\* counts users before it deletes).
TypeOKAdm ==
  /\ \A u \in Usuarios : usuarios[u].papel \in papeis \cup {Ninguem}
  /\ \A r \in Papeis \ papeis : matriz[r] = {}
  /\ usuarios \in [Usuarios -> [papel : Papeis \cup {Ninguem}, ativo : BOOLEAN]]
  /\ matriz \in [Papeis -> SUBSET Celulas]
  /\ papeis \in SUBSET Papeis
  /\ travaAdm \in Mudancas \cup {Ninguem}
  /\ mudancas \in [Mudancas -> [
       passo : {"livre", "travar", "gravar", "retirar", "apagar", "inserir"},
       alvo : Usuarios \cup {Ninguem}, papel : Papeis \cup {Ninguem}, ativo : {"mantem", "sim", "nao"},
       era : BOOLEAN, sera : BOOLEAN, nova : SUBSET Celulas, vistas : SUBSET Celulas]]

\* Whoever will still administer when the holder of the lock commits.
Sustentam ==
  IF travaAdm = Ninguem THEN Administradores
  ELSE IF mudancas[travaAdm].passo = "gravar" THEN Administradores \ {mudancas[travaAdm].alvo}
  ELSE {u \in Administradores : usuarios[u].papel # mudancas[travaAdm].papel}

\* A change of role that its reading, outside the transaction, did not take for
\* a demotion, of a user who administers when it is written.
MudancaSemTrava(p) ==
  /\ Em(p, "gravar") /\ travaAdm # p
  /\ mudancas[p].papel \notin {Ninguem, usuarios[mudancas[p].alvo].papel}
  /\ mudancas[p].alvo \in Administradores

\* The administrators that the holder of the lock counted on are only ever lost
\* to a change of role made without the lock.  Deactivations, demotions, grants,
\* withdrawals, crashes and refusals never do it, however they interleave, so
\* with no such change in flight the house keeps an administrator
\* (users/service.go exigirOutroAdministrador, roles/service.go
\* naoTirarOUltimoAdministrador).
SoMudancaSemTrava ==
  Sustentam # {} /\ Sustentam' = {}
    => \E p \in Mudancas : MudancaSemTrava(p) /\ mudancas'[p] = SemMudanca

SoMudancaSemTravaDesfazAContagem == [][SoMudancaSemTrava]_varsEquipe

\* What the comments promise: once there is an administrator, there always is
\* one (users/service.go:248-250).
SempreHaAdministrador == Administradores # {}
=============================================================================
