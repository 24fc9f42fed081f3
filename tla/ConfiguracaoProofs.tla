-------------------------- MODULE ConfiguracaoProofs --------------------------
(***************************************************************************)
(* What holds of what the house sets in the panel, and of the quotes and   *)
(* calendars read from it, for every set of users, roles, versions and     *)
(* concurrent requests.                                                    *)
(***************************************************************************)
EXTENDS Politicas, Administradores, Tabelas, Grade, Motor, FiniteSetTheorems,
        NaturalsInduction, WellFoundedInduction, SequenceTheorems, TLAPS

-----------------------------------------------------------------------------
(***************************************************************************)
(* Who administers.  The count that allows a withdrawal is read under the  *)
(* lock, and stays true of what its holder will leave behind: whoever acts *)
(* without the lock either grants or changes the role of an administrator. *)
(***************************************************************************)

MudancaT == [
    passo : {"livre", "travar", "gravar", "retirar", "apagar", "inserir"},
    alvo : Usuarios \cup {Ninguem}, papel : Papeis \cup {Ninguem},
    ativo : {"mantem", "sim", "nao"},
    era : BOOLEAN, sera : BOOLEAN, nova : SUBSET Celulas, vistas : SUBSET Celulas]

ContaT == [papel : Papeis \cup {Ninguem}, ativo : BOOLEAN]

\* What a request in flight is about, and what it may do without the lock.
MudancaCoerente(d, temTrava) ==
    /\ d.passo \in {"travar", "gravar"} => d.alvo \in Usuarios
    /\ d.passo \in {"retirar", "apagar", "inserir"} => d.papel \in Papeis
    /\ temTrava => d.passo \in {"gravar", "apagar", "inserir"}
    /\ d.passo = "gravar" /\ d.ativo = "nao" => temTrava
    /\ d.passo \in {"apagar", "inserir"} /\ ~temTrava => Perfis \in d.nova

EquipeInv ==
    /\ TypeOKAdm
    /\ \A p \in Mudancas : MudancaCoerente(mudancas[p], travaAdm = p)

LEMMA TiposDaEquipe ==
    ASSUME TypeOKAdm
    PROVE  /\ usuarios \in [Usuarios -> ContaT]
           /\ matriz \in [Papeis -> SUBSET Celulas]
           /\ papeis \subseteq Papeis
           /\ travaAdm \in Mudancas \cup {Ninguem}
           /\ mudancas \in [Mudancas -> MudancaT]
           /\ \A u \in Usuarios : usuarios[u].papel \in papeis \cup {Ninguem}
           /\ \A r \in Papeis \ papeis : matriz[r] = {}
BY DEF TypeOKAdm, ContaT, MudancaT

LEMMA EquipeInicia == InitEquipe => EquipeInv
<1> SUFFICES ASSUME InitEquipe PROVE EquipeInv
  OBVIOUS
<1> USE PapelRaiz
<1>1. SemMudanca \in MudancaT /\ MudancaCoerente(SemMudanca, FALSE)
  BY DEF SemMudanca, MudancaT, MudancaCoerente
<1>2. /\ usuarios \in [Usuarios -> ContaT]
      /\ \A u \in Usuarios : usuarios[u].papel \in papeis \cup {Ninguem}
  BY DEF InitEquipe, ContaT
<1>3. /\ matriz \in [Papeis -> SUBSET Celulas] /\ papeis \in SUBSET Papeis
      /\ \A r \in Papeis \ papeis : matriz[r] = {}
  BY DEF InitEquipe
<1>4. /\ travaAdm = Ninguem /\ mudancas \in [Mudancas -> MudancaT]
      /\ \A p \in Mudancas : mudancas[p] = SemMudanca
  BY <1>1 DEF InitEquipe
<1>5. TypeOKAdm
  BY <1>2, <1>3, <1>4 DEF TypeOKAdm, ContaT, MudancaT
<1>6. \A p \in Mudancas : MudancaCoerente(mudancas[p], travaAdm = p)
  BY <1>1, <1>4
<1> QED
  BY <1>5, <1>6 DEF EquipeInv

\* A step of p that leaves users and roles as they are.
LEMMA SoAMudanca ==
    ASSUME EquipeInv, NEW p \in Mudancas, NEW d \in MudancaT,
           UNCHANGED <<usuarios, matriz, papeis>>,
           mudancas' = [mudancas EXCEPT ![p] = d],
           travaAdm' = travaAdm \/ (travaAdm = Ninguem /\ travaAdm' = p)
                                \/ (travaAdm = p /\ travaAdm' = Ninguem),
           MudancaCoerente(d, travaAdm' = p)
    PROVE  EquipeInv'
<1> USE PapelRaiz
<1>1. /\ travaAdm' \in Mudancas \cup {Ninguem} /\ mudancas' \in [Mudancas -> MudancaT]
      /\ \A q \in Mudancas : q # p => mudancas'[q] = mudancas[q]
      /\ mudancas'[p] = d
  BY TiposDaEquipe DEF EquipeInv
<1>2. TypeOKAdm'
  BY <1>1, TiposDaEquipe DEF EquipeInv, TypeOKAdm, ContaT, MudancaT
<1>3. \A q \in Mudancas : q # p => ((travaAdm' = q) <=> (travaAdm = q))
  OBVIOUS
<1>4. \A q \in Mudancas : MudancaCoerente(mudancas'[q], travaAdm' = q)
  BY <1>1, <1>3 DEF EquipeInv
<1> QED
  BY <1>2, <1>4 DEF EquipeInv

\* The end of a request, whatever it leaves in the tables.
LEMMA FimDaMudanca ==
    ASSUME EquipeInv, NEW p \in Mudancas, Fechar(p),
           usuarios' \in [Usuarios -> ContaT], matriz' \in [Papeis -> SUBSET Celulas],
           papeis' = papeis,
           \A u \in Usuarios : usuarios'[u].papel \in papeis \cup {Ninguem},
           \A r \in Papeis \ papeis : matriz'[r] = {}
    PROVE  EquipeInv'
<1> USE PapelRaiz
<1>1. SemMudanca \in MudancaT /\ MudancaCoerente(SemMudanca, FALSE)
  BY DEF SemMudanca, MudancaT, MudancaCoerente
<1>2. /\ travaAdm' = IF travaAdm = p THEN Ninguem ELSE travaAdm
      /\ mudancas' = [mudancas EXCEPT ![p] = SemMudanca]
  BY DEF Fechar, Avancar, Soltar
<1>3. /\ travaAdm' \in Mudancas \cup {Ninguem} /\ mudancas' \in [Mudancas -> MudancaT]
      /\ \A q \in Mudancas : q # p => mudancas'[q] = mudancas[q]
      /\ mudancas'[p] = SemMudanca /\ travaAdm' # p
  BY <1>1, <1>2, TiposDaEquipe DEF EquipeInv
<1>4. TypeOKAdm'
  BY <1>3, TiposDaEquipe DEF EquipeInv, TypeOKAdm, ContaT, MudancaT
<1>5. \A q \in Mudancas : q # p => ((travaAdm' = q) <=> (travaAdm = q))
  BY <1>2
<1>6. \A q \in Mudancas : MudancaCoerente(mudancas'[q], travaAdm' = q)
  BY <1>1, <1>3, <1>5 DEF EquipeInv
<1> QED
  BY <1>4, <1>6 DEF EquipeInv

\* A step outside every request in flight.
LEMMA SoAsTabelas ==
    ASSUME EquipeInv, UNCHANGED <<travaAdm, mudancas>>,
           usuarios' \in [Usuarios -> ContaT], matriz' \in [Papeis -> SUBSET Celulas],
           papeis' \subseteq Papeis,
           \A u \in Usuarios : usuarios'[u].papel \in papeis' \cup {Ninguem},
           \A r \in Papeis \ papeis' : matriz'[r] = {}
    PROVE  EquipeInv'
<1>1. TypeOKAdm'
  BY TiposDaEquipe DEF EquipeInv, TypeOKAdm, ContaT, MudancaT
<1> QED
  BY <1>1 DEF EquipeInv, MudancaCoerente

\* The steps of NextEquipe, by what they touch.
PassoDaEquipe(p) ==
    \/ ExigirOutroAdministrador(p) \/ GravarUsuario(p) \/ CairMudanca(p)
    \/ NaoTirarOUltimoAdministrador(p) \/ ApagarMatriz(p) \/ InserirMatriz(p)

PedidoDaEquipe(p) ==
    \E ator \in Usuarios :
        \/ \E u \in Usuarios :
             \/ Desativar(p, ator, u)
             \/ \E r \in Papeis \cup {Ninguem}, ativo \in {"mantem", "sim", "nao"} :
                  Atualizar(p, ator, u, r, ativo)
        \/ \E r \in Papeis, m \in SUBSET Celulas : SubstituirPermissoes(p, ator, r, m)

DiretoNaEquipe ==
    \E ator \in Usuarios, r \in Papeis :
        \/ CriarPapel(ator, r) \/ ExcluirPapel(ator, r)
        \/ \E u \in Usuarios : Criar(ator, u, r)

LEMMA PassosDaEquipe ==
    NextEquipe <=> DiretoNaEquipe \/ \E p \in Mudancas : PassoDaEquipe(p) \/ PedidoDaEquipe(p)
BY DEF NextEquipe, DiretoNaEquipe, PassoDaEquipe, PedidoDaEquipe

\* A request begins without the lock, and leaves the tables alone.
LEMMA AoPedir ==
    ASSUME EquipeInv, NEW p \in Mudancas, PedidoDaEquipe(p)
    PROVE  /\ mudancas[p].passo = "livre" /\ travaAdm # p
           /\ UNCHANGED <<usuarios, matriz, papeis, travaAdm>>
           /\ \E d \in MudancaT : /\ mudancas' = [mudancas EXCEPT ![p] = d]
                                  /\ MudancaCoerente(d, FALSE)
<1> USE PapelRaiz
<1>0. mudancas[p] \in MudancaT /\ SemMudanca \in MudancaT
  BY TiposDaEquipe DEF EquipeInv, SemMudanca, MudancaT
<1>1. PICK ator \in Usuarios :
        \/ \E u \in Usuarios :
             \/ Desativar(p, ator, u)
             \/ \E r \in Papeis \cup {Ninguem}, ativo \in {"mantem", "sim", "nao"} :
                  Atualizar(p, ator, u, r, ativo)
        \/ \E r \in Papeis, m \in SUBSET Celulas : SubstituirPermissoes(p, ator, r, m)
  BY DEF PedidoDaEquipe
<1>2. mudancas[p].passo = "livre" /\ UNCHANGED <<usuarios, matriz, papeis, travaAdm>>
  BY <1>1 DEF Desativar, Atualizar, SubstituirPermissoes, Em
<1>3. travaAdm # p
  BY <1>2 DEF EquipeInv, MudancaCoerente
<1>4. \E d \in MudancaT : mudancas' = [mudancas EXCEPT ![p] = d] /\ MudancaCoerente(d, FALSE)
  <2>1. CASE \E u \in Usuarios : Desativar(p, ator, u)
    <3>1. PICK u \in Usuarios : Desativar(p, ator, u)
      BY <2>1
    <3> DEFINE d == [SemMudanca EXCEPT !.passo = "travar", !.alvo = u, !.ativo = "nao"]
    <3>2. mudancas' = [mudancas EXCEPT ![p] = d]
      BY <3>1 DEF Desativar, Avancar
    <3>3. d \in MudancaT /\ MudancaCoerente(d, FALSE)
      BY DEF SemMudanca, MudancaT, MudancaCoerente
    <3> QED
      BY <3>2, <3>3
  <2>2. CASE \E u \in Usuarios, r \in Papeis \cup {Ninguem}, ativo \in {"mantem", "sim", "nao"} :
                Atualizar(p, ator, u, r, ativo)
    <3>1. PICK u \in Usuarios, r \in Papeis \cup {Ninguem}, ativo \in {"mantem", "sim", "nao"} :
            Atualizar(p, ator, u, r, ativo)
      BY <2>2
    <3> DEFINE lido == Lido(u, r)
               pesa == ativo = "nao" \/ RebaixaAdministrador(lido)
               d == [SemMudanca EXCEPT !.passo = IF pesa THEN "travar" ELSE "gravar", !.alvo = u,
                       !.papel = r, !.ativo = ativo, !.era = lido.era, !.sera = lido.sera]
    <3>2. mudancas' = [mudancas EXCEPT ![p] = d]
      BY <3>1 DEF Atualizar, Avancar
    <3>3. lido.era \in BOOLEAN /\ lido.sera \in BOOLEAN
      BY DEF Lido, TrocandoPapel, ConcedeAdministracao
    <3>4. d \in MudancaT /\ MudancaCoerente(d, FALSE)
      <4> HIDE DEF lido
      <4> QED
        BY <3>3 DEF SemMudanca, MudancaT, MudancaCoerente
    <3> QED
      BY <3>2, <3>4
  <2>3. CASE \E r \in Papeis, m \in SUBSET Celulas : SubstituirPermissoes(p, ator, r, m)
    <3>1. PICK r \in Papeis, m \in SUBSET Celulas : SubstituirPermissoes(p, ator, r, m)
      BY <2>3
    <3> DEFINE d == [SemMudanca EXCEPT
                       !.passo = IF ConcedeAdministracao(m) THEN "apagar" ELSE "retirar",
                       !.papel = r, !.nova = m]
    <3>2. mudancas' = [mudancas EXCEPT ![p] = d]
      BY <3>1 DEF SubstituirPermissoes, Avancar
    <3>3. d \in MudancaT /\ MudancaCoerente(d, FALSE)
      BY DEF SemMudanca, MudancaT, MudancaCoerente, ConcedeAdministracao
    <3> QED
      BY <3>2, <3>3
  <2> QED
    BY <1>1, <2>1, <2>2, <2>3
<1> QED
  BY <1>2, <1>3, <1>4

\* What a request does on its way.
LEMMA EquipeNoPasso ==
    ASSUME EquipeInv, NEW p \in Mudancas, PassoDaEquipe(p)
    PROVE  EquipeInv'
<1> USE PapelRaiz
<1>0. /\ mudancas[p] \in MudancaT /\ MudancaCoerente(mudancas[p], travaAdm = p)
      /\ usuarios \in [Usuarios -> ContaT] /\ matriz \in [Papeis -> SUBSET Celulas]
      /\ papeis \subseteq Papeis
      /\ \A u \in Usuarios : usuarios[u].papel \in papeis \cup {Ninguem}
      /\ \A r \in Papeis \ papeis : matriz[r] = {}
  BY TiposDaEquipe DEF EquipeInv
<1>1. CASE Fechar(p) /\ UNCHANGED <<usuarios, matriz, papeis>>
  BY <1>0, <1>1, FimDaMudanca
<1>2. CASE ExigirOutroAdministrador(p) /\ ~Fechar(p)
  <2> DEFINE d == [mudancas[p] EXCEPT !.passo = "gravar"]
  <2>1. /\ mudancas[p].passo = "travar" /\ travaAdm = Ninguem /\ travaAdm' = p
        /\ mudancas' = [mudancas EXCEPT ![p] = d] /\ UNCHANGED <<usuarios, matriz, papeis>>
    BY <1>2 DEF ExigirOutroAdministrador, Avancar, Em
  <2>2. d \in MudancaT /\ MudancaCoerente(d, TRUE)
    BY <1>0, <2>1 DEF MudancaT, MudancaCoerente
  <2> QED
    BY <2>1, <2>2, SoAMudanca
<1>3. CASE NaoTirarOUltimoAdministrador(p) /\ ~Fechar(p)
  <2> DEFINE d == [mudancas[p] EXCEPT !.passo = "apagar"]
  <2>1. /\ mudancas[p].passo = "retirar" /\ travaAdm = Ninguem /\ travaAdm' = p
        /\ mudancas' = [mudancas EXCEPT ![p] = d] /\ UNCHANGED <<usuarios, matriz, papeis>>
    BY <1>3 DEF NaoTirarOUltimoAdministrador, Avancar, Em
  <2>2. d \in MudancaT /\ MudancaCoerente(d, TRUE)
    BY <1>0, <2>1 DEF MudancaT, MudancaCoerente
  <2> QED
    BY <2>1, <2>2, SoAMudanca
<1>4. CASE ApagarMatriz(p)
  <2> DEFINE d == [mudancas[p] EXCEPT !.passo = "inserir", !.vistas = matriz[mudancas[p].papel]]
  <2>1. /\ mudancas[p].passo = "apagar" /\ travaAdm' = travaAdm
        /\ mudancas' = [mudancas EXCEPT ![p] = d] /\ UNCHANGED <<usuarios, matriz, papeis>>
    BY <1>4 DEF ApagarMatriz, Avancar, Em
  <2>2. d \in MudancaT /\ MudancaCoerente(d, travaAdm = p)
    BY <1>0, <2>1 DEF MudancaT, MudancaCoerente
  <2> QED
    BY <2>1, <2>2, SoAMudanca
<1>5. CASE GravarUsuario(p)
  <2> DEFINE d == mudancas[p]
  <2>1. /\ d.passo = "gravar" /\ Fechar(p) /\ UNCHANGED <<matriz, papeis>>
        /\ usuarios' = IF d.papel \in papeis \cup {Ninguem}
             THEN [usuarios EXCEPT ![d.alvo] =
                     [papel |-> IF d.papel = Ninguem THEN usuarios[d.alvo].papel ELSE d.papel,
                      ativo |-> CASE d.ativo = "sim" -> TRUE [] d.ativo = "nao" -> FALSE
                                  [] OTHER -> usuarios[d.alvo].ativo]]
             ELSE usuarios
    BY <1>5 DEF GravarUsuario, Em
  <2>2. d.alvo \in Usuarios
    BY <1>0, <2>1 DEF MudancaCoerente
  <2>3. CASE d.papel \notin papeis \cup {Ninguem}
    BY <1>0, <2>1, <2>3, FimDaMudanca
  <2>4. CASE d.papel \in papeis \cup {Ninguem}
    <3> DEFINE c == [papel |-> IF d.papel = Ninguem THEN usuarios[d.alvo].papel ELSE d.papel,
                     ativo |-> CASE d.ativo = "sim" -> TRUE [] d.ativo = "nao" -> FALSE
                                 [] OTHER -> usuarios[d.alvo].ativo]
    <3>1. c \in ContaT /\ c.papel \in papeis \cup {Ninguem}
      BY <1>0, <2>2, <2>4 DEF ContaT
    <3>2. usuarios' = [usuarios EXCEPT ![d.alvo] = c]
      BY <2>1, <2>4
    <3> HIDE DEF c, d
    <3>3. /\ usuarios' \in [Usuarios -> ContaT]
          /\ \A u \in Usuarios : usuarios'[u].papel \in papeis \cup {Ninguem}
      BY <1>0, <2>2, <3>1, <3>2
    <3> QED
      BY <1>0, <2>1, <3>3, FimDaMudanca
  <2> QED
    BY <2>3, <2>4
<1>6. CASE InserirMatriz(p)
  <2> DEFINE d == mudancas[p]  ficam == matriz[d.papel] \ d.vistas
  <2>1. /\ Fechar(p) /\ UNCHANGED <<usuarios, papeis>>
        /\ d.papel \in Papeis /\ d.nova \subseteq Celulas
        /\ matriz' = IF d.papel \in papeis /\ ficam \cap d.nova = {}
                     THEN [matriz EXCEPT ![d.papel] = ficam \cup d.nova] ELSE matriz
    BY <1>0, <1>6 DEF InserirMatriz, Em, MudancaT, MudancaCoerente
  <2>2. /\ matriz' \in [Papeis -> SUBSET Celulas]
        /\ \A r \in Papeis \ papeis : matriz'[r] = {}
    BY <1>0, <2>1
  <2> QED
    BY <1>0, <2>1, <2>2, FimDaMudanca
<1> QED
  BY <1>1, <1>2, <1>3, <1>4, <1>5, <1>6
     DEF PassoDaEquipe, ExigirOutroAdministrador, NaoTirarOUltimoAdministrador, CairMudanca

LEMMA EquipeNoDireto ==
    ASSUME EquipeInv, DiretoNaEquipe
    PROVE  EquipeInv'
<1> USE PapelRaiz
<1>0. /\ usuarios \in [Usuarios -> ContaT] /\ matriz \in [Papeis -> SUBSET Celulas]
      /\ papeis \subseteq Papeis
      /\ \A u \in Usuarios : usuarios[u].papel \in papeis \cup {Ninguem}
      /\ \A r \in Papeis \ papeis : matriz[r] = {}
  BY TiposDaEquipe DEF EquipeInv
<1>1. PICK ator \in Usuarios, r \in Papeis :
        CriarPapel(ator, r) \/ ExcluirPapel(ator, r) \/ \E u \in Usuarios : Criar(ator, u, r)
  BY DEF DiretoNaEquipe
<1>2. CASE CriarPapel(ator, r)
  BY <1>0, <1>2, SoAsTabelas DEF CriarPapel
<1>3. CASE ExcluirPapel(ator, r)
  BY <1>0, <1>3, SoAsTabelas DEF ExcluirPapel
<1>4. CASE \E u \in Usuarios : Criar(ator, u, r)
  <2>1. PICK u \in Usuarios : Criar(ator, u, r)
    BY <1>4
  <2>2. PICK ativo \in BOOLEAN : usuarios' = [usuarios EXCEPT ![u] = [papel |-> r, ativo |-> ativo]]
    BY <2>1 DEF Criar
  <2>3. r \in papeis /\ UNCHANGED <<matriz, papeis, travaAdm, mudancas>>
    BY <2>1 DEF Criar
  <2>4. [papel |-> r, ativo |-> ativo] \in ContaT
    BY DEF ContaT
  <2> QED
    BY <1>0, <2>2, <2>3, <2>4, SoAsTabelas
<1> QED
  BY <1>1, <1>2, <1>3, <1>4

LEMMA EquipeSegue ==
    ASSUME EquipeInv, [NextEquipe]_varsEquipe
    PROVE  EquipeInv'
<1>1. CASE UNCHANGED varsEquipe
  BY <1>1 DEF varsEquipe, EquipeInv, TypeOKAdm, MudancaCoerente
<1>2. ASSUME NEW p \in Mudancas, PedidoDaEquipe(p)
      PROVE  EquipeInv'
  <2>1. PICK d \in MudancaT : mudancas' = [mudancas EXCEPT ![p] = d] /\ MudancaCoerente(d, FALSE)
    BY <1>2, AoPedir
  <2>2. travaAdm # p /\ UNCHANGED <<usuarios, matriz, papeis, travaAdm>>
    BY <1>2, AoPedir
  <2> QED
    BY <2>1, <2>2, SoAMudanca
<1> QED
  BY <1>1, <1>2, EquipeNoPasso, EquipeNoDireto, PassosDaEquipe

\* Whoever keeps the account and the matrix still administers.
LEMMA QuemAdministra ==
    ASSUME EquipeInv, NEW u \in Administradores
    PROVE  /\ u \in Usuarios /\ usuarios[u].ativo /\ usuarios[u].papel # Ninguem
           /\ usuarios[u].papel \in papeis
           /\ Perfis \in matriz[usuarios[u].papel]
BY TiposDaEquipe, PapelRaiz
   DEF EquipeInv, Administradores, Administra, Existe, ConcedeAdministracao

\* Nobody who administers is lost, and what the holder of the lock is about stays.
LEMMA SustentoCresce ==
    ASSUME EquipeInv, EquipeInv', Administradores \subseteq Administradores',
           \/ travaAdm' = Ninguem
           \/ /\ travaAdm' = travaAdm /\ travaAdm \in Mudancas
              /\ mudancas'[travaAdm].alvo = mudancas[travaAdm].alvo
              /\ mudancas'[travaAdm].papel = mudancas[travaAdm].papel
              /\ (mudancas'[travaAdm].passo = "gravar") <=> (mudancas[travaAdm].passo = "gravar")
              /\ \A u \in Administradores : usuarios'[u].papel = usuarios[u].papel
    PROVE  Sustentam \subseteq Sustentam'
<1> USE PapelRaiz
<1>1. Sustentam \subseteq Administradores
  BY DEF Sustentam
<1>2. CASE travaAdm' = Ninguem
  BY <1>1, <1>2 DEF Sustentam
<1>3. CASE travaAdm' # Ninguem
  BY <1>3 DEF Sustentam
<1> QED
  BY <1>2, <1>3

LEMMA UsuarioSustenta ==
    ASSUME EquipeInv, EquipeInv', NEW p \in Mudancas, GravarUsuario(p),
           ~MudancaSemTrava(p)
    PROVE  Sustentam \subseteq Sustentam'
<1> USE PapelRaiz
<1> DEFINE d == mudancas[p]
<1>1. /\ d.passo = "gravar" /\ matriz' = matriz /\ papeis' = papeis
      /\ travaAdm' = IF travaAdm = p THEN Ninguem ELSE travaAdm
      /\ mudancas' = [mudancas EXCEPT ![p] = SemMudanca]
      /\ d.alvo \in Usuarios
  BY DEF GravarUsuario, Fechar, Avancar, Soltar, Em, EquipeInv, MudancaCoerente
<1>2. /\ \A u \in Usuarios : u # d.alvo => usuarios'[u] = usuarios[u]
      /\ \/ usuarios'[d.alvo] = usuarios[d.alvo]
         \/ /\ d.papel \in {Ninguem, usuarios[d.alvo].papel} =>
                 usuarios'[d.alvo].papel = usuarios[d.alvo].papel
            /\ d.ativo # "nao" /\ usuarios[d.alvo].ativo => usuarios'[d.alvo].ativo
  BY <1>1, TiposDaEquipe DEF EquipeInv, GravarUsuario, ContaT
<1>3. \A u \in Administradores : u # d.alvo => u \in Administradores'
  BY <1>1, <1>2 DEF Administradores, Administra, Existe
<1>4. CASE travaAdm = p
  BY <1>1, <1>3, <1>4 DEF Sustentam
<1>5. CASE travaAdm # p
  <2>1. d.ativo # "nao"
    BY <1>1, <1>5 DEF EquipeInv, MudancaCoerente
  <2>2. d.alvo \in Administradores => d.papel \in {Ninguem, usuarios[d.alvo].papel}
    BY <1>1, <1>5 DEF MudancaSemTrava, Em
  <2>3. d.alvo \in Administradores =>
          /\ usuarios'[d.alvo].papel = usuarios[d.alvo].papel
          /\ d.alvo \in Administradores'
    BY <1>1, <1>2, <2>1, <2>2 DEF Administradores, Administra, Existe
  <2>4. Administradores \subseteq Administradores'
    BY <1>3, <2>3
  <2>5. \A u \in Administradores : usuarios'[u].papel = usuarios[u].papel
    BY <1>2, <2>3 DEF Administradores
  <2>6. /\ travaAdm' = travaAdm
        /\ travaAdm \in Mudancas => mudancas'[travaAdm] = mudancas[travaAdm]
        /\ travaAdm \in Mudancas \/ travaAdm = Ninguem
    BY <1>1, <1>5, TiposDaEquipe DEF EquipeInv
  <2> QED
    BY <2>4, <2>5, <2>6, SustentoCresce
<1> QED
  BY <1>4, <1>5

LEMMA MatrizSustenta ==
    ASSUME EquipeInv, EquipeInv', NEW p \in Mudancas, InserirMatriz(p)
    PROVE  Sustentam \subseteq Sustentam'
<1> USE PapelRaiz
<1> DEFINE d == mudancas[p]
<1>1. /\ d.passo = "inserir" /\ usuarios' = usuarios /\ papeis' = papeis
      /\ travaAdm' = IF travaAdm = p THEN Ninguem ELSE travaAdm
      /\ mudancas' = [mudancas EXCEPT ![p] = SemMudanca]
      /\ d.papel \in Papeis
  BY DEF InserirMatriz, Fechar, Avancar, Soltar, Em, EquipeInv, MudancaCoerente
<1>2. /\ \A r \in Papeis : r # d.papel => matriz'[r] = matriz[r]
      /\ matriz'[d.papel] = matriz[d.papel] \/ d.nova \subseteq matriz'[d.papel]
  BY <1>1, TiposDaEquipe DEF EquipeInv, InserirMatriz
<1>3. \A u \in Administradores : usuarios[u].papel # d.papel => u \in Administradores'
  BY <1>1, <1>2, QuemAdministra, TiposDaEquipe
     DEF EquipeInv, Administradores, Administra, Existe, ConcedeAdministracao
<1>4. CASE travaAdm = p
  BY <1>1, <1>3, <1>4 DEF Sustentam
<1>5. CASE travaAdm # p
  <2>1. Perfis \in d.nova
    BY <1>1, <1>5 DEF EquipeInv, MudancaCoerente
  <2>2. Administradores \subseteq Administradores'
    BY <1>1, <1>2, <1>3, <2>1 DEF Administradores, Administra, Existe, ConcedeAdministracao
  <2>3. /\ travaAdm' = travaAdm
        /\ travaAdm \in Mudancas => mudancas'[travaAdm] = mudancas[travaAdm]
        /\ travaAdm \in Mudancas \/ travaAdm = Ninguem
    BY <1>1, <1>5, TiposDaEquipe DEF EquipeInv
  <2> QED
    BY <1>1, <2>2, <2>3, SustentoCresce
<1> QED
  BY <1>4, <1>5

\* The count, under the lock, leaves somebody.
LEMMA ContagemSustenta ==
    ASSUME EquipeInv, EquipeInv', NEW p \in Mudancas,
           ExigirOutroAdministrador(p) \/ NaoTirarOUltimoAdministrador(p),
           Sustentam # {}
    PROVE  Sustentam' # {}
<1> USE PapelRaiz
<1> DEFINE d == mudancas[p]
<1>1. UNCHANGED <<usuarios, matriz, papeis>> /\ travaAdm = Ninguem
  BY DEF ExigirOutroAdministrador, NaoTirarOUltimoAdministrador
<1>2. Administradores' = Administradores /\ Sustentam = Administradores
  BY <1>1 DEF Administradores, Administra, Existe, Sustentam
<1>3. CASE Fechar(p)
  <2>1. travaAdm' = Ninguem
    BY <1>1, <1>3 DEF Fechar, Soltar
  <2> QED
    BY <1>2, <2>1 DEF Sustentam
<1>4. CASE ExigirOutroAdministrador(p) /\ ~Fechar(p)
  <2>1. /\ ContarAdministradoresAtivos(d.alvo) # 0 /\ travaAdm' = p
        /\ mudancas' = [mudancas EXCEPT ![p] = [d EXCEPT !.passo = "gravar"]]
    BY <1>4 DEF ExigirOutroAdministrador, Avancar
  <2>2. Administradores \ {d.alvo} # {}
    BY <2>1, FS_EmptySet DEF ContarAdministradoresAtivos
  <2>3. mudancas'[p].passo = "gravar" /\ mudancas'[p].alvo = d.alvo
    BY <2>1, TiposDaEquipe DEF EquipeInv, MudancaT
  <2> QED
    BY <1>2, <2>1, <2>2, <2>3 DEF Sustentam
<1>5. CASE NaoTirarOUltimoAdministrador(p) /\ ~Fechar(p)
  <2>1. /\ ~(ConcedeAdministracao(matriz[d.papel]) /\ ContarForaDoPerfil(d.papel) = 0)
        /\ travaAdm' = p
        /\ mudancas' = [mudancas EXCEPT ![p] = [d EXCEPT !.passo = "apagar"]]
    BY <1>5 DEF NaoTirarOUltimoAdministrador, Avancar
  <2>2. {u \in Administradores : usuarios[u].papel # d.papel} # {}
    <3>1. CASE ConcedeAdministracao(matriz[d.papel])
      BY <2>1, <3>1, FS_EmptySet DEF ContarForaDoPerfil
    <3>2. CASE ~ConcedeAdministracao(matriz[d.papel])
      BY <1>2, <3>2, QuemAdministra DEF ConcedeAdministracao
    <3> QED
      BY <3>1, <3>2
  <2>3. mudancas'[p].passo = "apagar" /\ mudancas'[p].papel = d.papel
    BY <2>1, TiposDaEquipe DEF EquipeInv, MudancaT
  <2> QED
    BY <1>1, <1>2, <2>1, <2>2, <2>3 DEF Sustentam
<1> QED
  BY <1>3, <1>4, <1>5

\* A step that leaves users and matrices alone and takes nobody's lock.
LEMMA QuietoSustenta ==
    ASSUME EquipeInv, EquipeInv', NEW p \in Mudancas,
           PedidoDaEquipe(p) \/ ApagarMatriz(p) \/ CairMudanca(p)
    PROVE  Sustentam \subseteq Sustentam'
<1> USE PapelRaiz
<1>1. UNCHANGED <<usuarios, matriz>>
  BY AoPedir DEF ApagarMatriz, CairMudanca
<1>2. Administradores' = Administradores
  BY <1>1 DEF Administradores, Administra, Existe
<1>3. \/ travaAdm' = Ninguem
      \/ /\ travaAdm' = travaAdm /\ travaAdm \in Mudancas
         /\ mudancas'[travaAdm].alvo = mudancas[travaAdm].alvo
         /\ mudancas'[travaAdm].papel = mudancas[travaAdm].papel
         /\ (mudancas'[travaAdm].passo = "gravar") <=> (mudancas[travaAdm].passo = "gravar")
  <2>0. travaAdm \in Mudancas \cup {Ninguem} /\ mudancas \in [Mudancas -> MudancaT]
    BY TiposDaEquipe DEF EquipeInv
  <2>1. CASE PedidoDaEquipe(p)
    <3>1. travaAdm' = travaAdm /\ travaAdm # p
      BY <2>1, AoPedir
    <3>2. PICK d \in MudancaT : mudancas' = [mudancas EXCEPT ![p] = d]
      BY <2>1, AoPedir
    <3> QED
      BY <2>0, <3>1, <3>2
  <2>2. CASE ApagarMatriz(p)
    <3> DEFINE d == [mudancas[p] EXCEPT !.passo = "inserir", !.vistas = matriz[mudancas[p].papel]]
    <3>1. /\ travaAdm' = travaAdm /\ mudancas[p].passo = "apagar"
          /\ mudancas' = [mudancas EXCEPT ![p] = d]
      BY <2>2 DEF ApagarMatriz, Avancar, Em
    <3>2. d.passo = "inserir" /\ d.alvo = mudancas[p].alvo /\ d.papel = mudancas[p].papel
      BY <2>0 DEF MudancaT
    <3> QED
      BY <2>0, <3>1, <3>2
  <2>3. CASE CairMudanca(p)
    BY <2>0, <2>3 DEF CairMudanca, Fechar, Soltar, Avancar
  <2> QED
    BY <2>1, <2>2, <2>3
<1> QED
  BY <1>1, <1>2, <1>3, SustentoCresce

LEMMA DiretoSustenta ==
    ASSUME EquipeInv, EquipeInv', DiretoNaEquipe
    PROVE  Sustentam \subseteq Sustentam'
<1> USE PapelRaiz
<1>1. PICK ator \in Usuarios, r \in Papeis :
        CriarPapel(ator, r) \/ ExcluirPapel(ator, r) \/ \E u \in Usuarios : Criar(ator, u, r)
  BY DEF DiretoNaEquipe
<1>2. UNCHANGED <<travaAdm, mudancas>>
  BY <1>1 DEF CriarPapel, ExcluirPapel, Criar
<1>3. \A u \in Administradores : usuarios'[u] = usuarios[u] /\ u \in Administradores'
  <2>1. CASE CriarPapel(ator, r) \/ ExcluirPapel(ator, r)
    <3>1. usuarios' = usuarios /\ \A u \in Administradores : usuarios[u].papel # r
      BY <2>1, QuemAdministra DEF CriarPapel, ExcluirPapel
    <3>2. \A x \in Papeis : x # r => matriz'[x] = matriz[x]
      BY <2>1, TiposDaEquipe DEF EquipeInv, CriarPapel, ExcluirPapel
    <3>3. \A u \in Administradores : matriz'[usuarios[u].papel] = matriz[usuarios[u].papel]
      BY <3>1, <3>2, QuemAdministra, TiposDaEquipe DEF EquipeInv
    <3> QED
      BY <3>1, <3>3 DEF Administradores, Administra, Existe
  <2>2. CASE \E u \in Usuarios : Criar(ator, u, r)
    <3>1. PICK u \in Usuarios : Criar(ator, u, r)
      BY <2>2
    <3>2. /\ matriz' = matriz /\ u \notin Administradores
          /\ \A v \in Usuarios : v # u => usuarios'[v] = usuarios[v]
      BY <3>1, QuemAdministra DEF Criar, Existe
    <3> QED
      BY <3>2, QuemAdministra DEF Administradores, Administra, Existe
  <2> QED
    BY <1>1, <2>1, <2>2
<1> QED
  BY <1>2, <1>3, SustentoCresce, TiposDaEquipe DEF EquipeInv

\* The domains of users and roles, with every user in a role that exists and no matrix
\* left behind by a role that does not (roles/service.go Excluir).
THEOREM EquipeTipada == SpecEquipe => []TypeOKAdm
<1>1. EquipeInv => TypeOKAdm
  BY DEF EquipeInv
<1> QED
  BY <1>1, EquipeInicia, EquipeSegue, PTL DEF SpecEquipe

\* Of all that may happen to users and roles, only a change of role written without the
\* lock takes the administrators that the holder of the lock counted on
\* (users/service.go exigirOutroAdministrador, roles/service.go
\* naoTirarOUltimoAdministrador).
THEOREM ContagemSoCaiSemTrava == SpecEquipe => SoMudancaSemTravaDesfazAContagem
<1>1. EquipeInv /\ [NextEquipe]_varsEquipe => [SoMudancaSemTrava]_varsEquipe
  <2> SUFFICES ASSUME EquipeInv, NextEquipe, Sustentam # {}, Sustentam' = {}
               PROVE  \E p \in Mudancas : MudancaSemTrava(p) /\ mudancas'[p] = SemMudanca
    BY DEF SoMudancaSemTrava
  <2>1. EquipeInv'
    BY EquipeSegue
  <2>2. PICK p \in Mudancas : PassoDaEquipe(p) \/ PedidoDaEquipe(p)
    BY <2>1, DiretoSustenta, PassosDaEquipe
  <2>3. GravarUsuario(p)
    BY <2>1, <2>2, QuietoSustenta, ContagemSustenta, MatrizSustenta DEF PassoDaEquipe
  <2>4. MudancaSemTrava(p)
    BY <2>1, <2>3, UsuarioSustenta
  <2>5. mudancas'[p] = SemMudanca
    BY <2>3, TiposDaEquipe DEF GravarUsuario, Fechar, Avancar, EquipeInv
  <2> QED
    BY <2>4, <2>5
<1> QED
  BY <1>1, EquipeInicia, EquipeSegue, PTL DEF SpecEquipe, SoMudancaSemTravaDesfazAContagem

-----------------------------------------------------------------------------
(***************************************************************************)
(* The policies.  What a publication checked and copied is still the last  *)
(* version when it commits: it holds the lock of its series, and only the  *)
(* holder appends to it.                                                   *)
(***************************************************************************)

Conteudo == Validades \cup Faixas \cup {Nada}

Versao == [de : Dias, pedida : Conteudo, conteudo : Conteudo]

PublicacaoT == [passo : {"livre", "trava", "conferir", "gravar", "confirmar"}, serie : Series,
                de : Dias, pedida : Conteudo, nova : Versao \cup {Nada}]

TypeOKPoliticas ==
    /\ dia \in Dias
    /\ versoes \in [Series -> Seq(Versao)]
    /\ trava \in [Series -> Pedidos \cup {Nada}]
    /\ pedido \in [Pedidos -> PublicacaoT]

\* What the lock protects between the steps of a publication.
PublicacaoCoerente(p) ==
    LET r == pedido[p] IN
    /\ r.passo \in {"conferir", "gravar", "confirmar"} => trava[r.serie] = p
    /\ r.passo \in {"gravar", "confirmar"} =>
          versoes[r.serie] = <<>> \/ Ultima(r.serie).de <= r.de
    /\ r.passo = "confirmar" =>
          r.nova = [de |-> r.de, pedida |-> r.pedida, conteudo |-> Herdada(r.serie, r.pedida)]

PoliticasInv ==
    /\ TypeOKPoliticas
    /\ \A p \in Pedidos : PublicacaoCoerente(p)
    /\ VersoesEmOrdem
    /\ OmitidoHerda

LEMMA PoliticasIniciam == Init => PoliticasInv
<1> SUFFICES ASSUME Init PROVE PoliticasInv
  OBVIOUS
<1> USE PoliticasAssumption
<1>1. Livre \in PublicacaoT /\ 0 \in Dias
  BY DEF Livre, PublicacaoT, Series, Dias, Conteudo
<1>2. PICK primeira \in {<<>>, <<[de |-> 0, pedida |-> Nada, conteudo |-> Padrao]>>} :
        versoes = [s \in Series |-> IF s = "comercial" THEN primeira ELSE <<>>]
  BY DEF Init
<1>3. primeira \in Seq(Versao)
  <2>1. [de |-> 0, pedida |-> Nada, conteudo |-> Padrao] \in Versao
    BY <1>1 DEF Versao, Conteudo
  <2>2. ASSUME NEW v \in Versao PROVE <<v>> \in Seq(Versao)
    OBVIOUS
  <2>3. <<>> \in Seq(Versao)
    OBVIOUS
  <2> QED
    BY <2>1, <2>2, <2>3
<1>4. TypeOKPoliticas
  BY <1>1, <1>2, <1>3 DEF Init, TypeOKPoliticas
<1>5. \A p \in Pedidos : PublicacaoCoerente(p)
  BY DEF Init, PublicacaoCoerente, Livre
<1>6. versoes["cancelamento"] = <<>> /\ versoes["comercial"] = primeira
  BY <1>2 DEF Series
<1>7. VersoesEmOrdem
  BY <1>6 DEF VersoesEmOrdem, Series
<1>8. OmitidoHerda
  BY <1>6 DEF OmitidoHerda
<1> QED
  BY <1>4, <1>5, <1>7, <1>8 DEF PoliticasInv

\* A step of p that publishes nothing.
LEMMA SemVersaoNova ==
    ASSUME PoliticasInv, NEW p \in Pedidos, NEW r \in PublicacaoT,
           versoes' = versoes, dia' \in Dias,
           pedido' = [pedido EXCEPT ![p] = r],
           trava' \in [Series -> Pedidos \cup {Nada}],
           \A s \in Series : trava[s] \in Pedidos \ {p} => trava'[s] = trava[s],
           PublicacaoCoerente(p)'
    PROVE  PoliticasInv'
<1> USE PoliticasAssumption
<1>1. TypeOKPoliticas'
  BY DEF PoliticasInv, TypeOKPoliticas
<1>2. ASSUME NEW q \in Pedidos PROVE PublicacaoCoerente(q)'
  <2>1. CASE q = p
    BY <2>1
  <2>2. CASE q # p
    <3>1. pedido'[q] = pedido[q] /\ pedido[q] \in PublicacaoT /\ pedido[q].serie \in Series
      BY <2>2 DEF PoliticasInv, TypeOKPoliticas, PublicacaoT
    <3> QED
      BY <2>2, <3>1 DEF PoliticasInv, PublicacaoCoerente, Ultima, Herdada
  <2> QED
    BY <2>1, <2>2
<1> QED
  BY <1>1, <1>2 DEF PoliticasInv, VersoesEmOrdem, OmitidoHerda

LEMMA AoTerminar ==
    ASSUME TypeOKPoliticas, NEW p \in Pedidos, Terminar(p)
    PROVE  /\ pedido' = [pedido EXCEPT ![p] = Livre] /\ Livre \in PublicacaoT
           /\ trava' \in [Series -> Pedidos \cup {Nada}]
           /\ \A s \in Series : trava[s] \in Pedidos \ {p} => trava'[s] = trava[s]
           /\ PublicacaoCoerente(p)'
<1> USE PoliticasAssumption
<1>1. pedido' = [pedido EXCEPT ![p] = Livre] /\ Livre \in PublicacaoT
  BY DEF Terminar, Livre, PublicacaoT, Series, Dias, Conteudo
<1>2. pedido'[p].passo = "livre"
  BY <1>1 DEF TypeOKPoliticas, Livre
<1> QED
  BY <1>1, <1>2 DEF Terminar, TypeOKPoliticas, PublicacaoCoerente

\* The commit: the new version goes after the last, which is the one it was checked
\* against and copied from.
LEMMA AoConfirmar ==
    ASSUME PoliticasInv, NEW p \in Pedidos, Confirmar(p)
    PROVE  PoliticasInv'
<1> USE PoliticasAssumption
<1> DEFINE s == pedido[p].serie  n == Len(versoes[s])  nova == pedido[p].nova
<1>1. /\ pedido[p].passo = "confirmar" /\ s \in Series /\ pedido[p].de \in Dias
      /\ pedido[p].pedida \in Conteudo
      /\ versoes' = [versoes EXCEPT ![s] = Append(versoes[s], nova)]
      /\ dia' = dia /\ Terminar(p)
      /\ versoes[s] \in Seq(Versao) /\ n \in Nat
  BY DEF Confirmar, PoliticasInv, TypeOKPoliticas, PublicacaoT
<1>2. /\ trava[s] = p
      /\ versoes[s] = <<>> \/ Ultima(s).de <= pedido[p].de
      /\ nova = [de |-> pedido[p].de, pedida |-> pedido[p].pedida,
                 conteudo |-> Herdada(s, pedido[p].pedida)]
  BY <1>1 DEF PoliticasInv, PublicacaoCoerente
<1>3. versoes[s] # <<>> => n \in 1..n /\ Ultima(s) = versoes[s][n] /\ versoes[s][n] \in Versao
  BY <1>1 DEF Ultima
<1>4. Herdada(s, pedido[p].pedida) \in Conteudo
  BY <1>1, <1>3 DEF Herdada, Conteudo, Versao
<1>5. nova \in Versao
  BY <1>1, <1>2, <1>4 DEF Versao
<1>6. /\ versoes'[s] = Append(versoes[s], nova) /\ Len(versoes'[s]) = n + 1
      /\ versoes'[s][n + 1] = nova
      /\ \A i \in 1..n : versoes'[s][i] = versoes[s][i] /\ versoes[s][i] \in Versao
      /\ \A x \in Series : x # s => versoes'[x] = versoes[x]
      /\ versoes' \in [Series -> Seq(Versao)]
  BY <1>1, <1>5 DEF PoliticasInv, TypeOKPoliticas
<1>7. TypeOKPoliticas'
  BY <1>1, <1>6, AoTerminar DEF PoliticasInv, TypeOKPoliticas
<1>8. ASSUME NEW q \in Pedidos PROVE PublicacaoCoerente(q)'
  <2>1. CASE q = p
    BY <1>1, <2>1, AoTerminar DEF PoliticasInv
  <2>2. CASE q # p
    <3> DEFINE x == pedido[q].serie
    <3>1. pedido'[q] = pedido[q] /\ x \in Series
      BY <1>1, <2>2, AoTerminar DEF PoliticasInv, TypeOKPoliticas, PublicacaoT
    <3>2. CASE pedido[q].passo \notin {"conferir", "gravar", "confirmar"}
      BY <3>1, <3>2 DEF PublicacaoCoerente
    <3>3. CASE pedido[q].passo \in {"conferir", "gravar", "confirmar"}
      <4>1. trava[x] = q /\ PublicacaoCoerente(q)
        BY <3>3 DEF PoliticasInv, PublicacaoCoerente
      <4>2. x # s /\ trava'[x] = q /\ versoes'[x] = versoes[x]
        BY <1>1, <1>2, <1>6, <2>2, <3>1, <4>1, AoTerminar DEF PoliticasInv
      <4> QED
        BY <3>1, <4>1, <4>2 DEF PublicacaoCoerente, Ultima, Herdada
    <3> QED
      BY <3>2, <3>3
  <2> QED
    BY <2>1, <2>2
<1>9. VersoesEmOrdem'
  <2> SUFFICES ASSUME NEW x \in Series, NEW j \in DOMAIN versoes'[x], NEW i \in 1..j
               PROVE  versoes'[x][i].de <= versoes'[x][j].de
    BY DEF VersoesEmOrdem
  <2>1. CASE x # s
    BY <1>6, <2>1 DEF PoliticasInv, VersoesEmOrdem
  <2>2. CASE x = s /\ j # n + 1
    <3>1. j \in 1..n /\ i \in 1..n /\ j \in DOMAIN versoes[s]
      BY <1>1, <1>6, <2>2
    <3> QED
      BY <1>1, <1>6, <2>2, <3>1 DEF PoliticasInv, VersoesEmOrdem
  <2>3. CASE x = s /\ j = n + 1
    <3>1. CASE i = n + 1
      BY <1>5, <1>6, <2>3, <3>1 DEF Versao, Dias
    <3>2. CASE i # n + 1
      <4>1. i \in 1..n /\ n \in DOMAIN versoes[s] /\ versoes[s] # <<>>
        BY <1>1, <2>3, <3>2
      <4>2. versoes[s][i].de <= versoes[s][n].de
        BY <1>1, <4>1 DEF PoliticasInv, VersoesEmOrdem
      <4>3. versoes[s][n].de <= nova.de
        BY <1>2, <1>3, <4>1
      <4>4. versoes[s][i].de \in Int /\ versoes[s][n].de \in Int /\ nova.de \in Int
        <5>1. versoes[s][i] \in Versao /\ versoes[s][n] \in Versao /\ nova \in Versao
          BY <1>3, <1>5, <1>6, <4>1
        <5> HIDE DEF nova
        <5> QED
          BY <5>1 DEF Versao, Dias
      <4> QED
        <5>1. versoes'[x][i] = versoes[s][i] /\ versoes'[x][j] = nova
          BY <1>6, <2>3, <4>1
        <5>2. versoes[s][i].de <= nova.de
          BY <4>2, <4>3, <4>4
        <5> QED
          BY <5>1, <5>2
    <3> QED
      BY <3>1, <3>2
  <2> QED
    BY <2>1, <2>2, <2>3
<1>10. OmitidoHerda'
  <2>1. CASE s # "comercial"
    BY <1>6, <2>1 DEF PoliticasInv, OmitidoHerda, Series
  <2>2. CASE s = "comercial"
    <3> SUFFICES ASSUME NEW i \in DOMAIN versoes'["comercial"]
                 PROVE  LET v == versoes'["comercial"][i]
                        IN  v.conteudo = IF v.pedida # Nada THEN v.pedida
                                ELSE IF i = 1 THEN Padrao
                                ELSE versoes'["comercial"][i - 1].conteudo
      BY DEF OmitidoHerda
    <3>1. CASE i # n + 1
      <4>1. i \in 1..n /\ i \in DOMAIN versoes[s] /\ (i # 1 => i - 1 \in 1..n)
        BY <1>1, <1>6, <2>2, <3>1
      <4> QED
        BY <1>6, <2>2, <4>1 DEF PoliticasInv, OmitidoHerda
    <3>2. CASE i = n + 1
      <4>1. nova.pedida = pedido[p].pedida /\ nova.conteudo = Herdada(s, pedido[p].pedida)
        BY <1>2
      <4>2. CASE versoes[s] = <<>>
        <5>1. n = 0 /\ i = 1
          BY <3>2, <4>2
        <5> QED
          BY <1>6, <2>2, <3>2, <4>1, <4>2, <5>1 DEF Herdada
      <4>3. CASE versoes[s] # <<>>
        <5>1. n \in 1..n /\ i # 1 /\ i - 1 = n
          BY <1>1, <1>3, <3>2, <4>3
        <5>2. versoes'[s][i - 1] = Ultima(s)
          BY <1>3, <1>6, <4>3, <5>1
        <5> QED
          BY <1>6, <2>2, <3>2, <4>1, <4>3, <5>1, <5>2 DEF Herdada
      <4> QED
        BY <4>2, <4>3
    <3> QED
      BY <3>1, <3>2
  <2> QED
    BY <2>1, <2>2
<1> QED
  BY <1>7, <1>8, <1>9, <1>10 DEF PoliticasInv

LEMMA PoliticasSeguem ==
    ASSUME PoliticasInv, [Next]_vars
    PROVE  PoliticasInv'
<1> USE PoliticasAssumption
<1>0. TypeOKPoliticas
  BY DEF PoliticasInv
<1>1. CASE UNCHANGED vars
  BY <1>1 DEF vars, PoliticasInv, TypeOKPoliticas, PublicacaoCoerente, VersoesEmOrdem,
              OmitidoHerda, Ultima, Herdada
<1>2. CASE PassarDia
  BY <1>2 DEF PassarDia, PoliticasInv, TypeOKPoliticas, PublicacaoCoerente, VersoesEmOrdem,
              OmitidoHerda, Ultima, Herdada, Dias
<1>3. ASSUME NEW p \in Pedidos, Passo(p) PROVE PoliticasInv'
  <2>0. pedido[p] \in PublicacaoT /\ pedido[p].serie \in Series /\ PublicacaoCoerente(p)
    BY <1>0 DEF PoliticasInv, TypeOKPoliticas, PublicacaoT
  <2>1. ASSUME NEW s \in Series, NEW de \in Dias, NEW x \in Conteudo, Publicar(p, s, de, x)
        PROVE  PoliticasInv'
    <3> DEFINE r == [Livre EXCEPT !.passo = "trava", !.serie = s, !.de = de, !.pedida = x]
    <3>1. pedido' = [pedido EXCEPT ![p] = r] /\ UNCHANGED <<dia, versoes, trava>>
      BY <2>1 DEF Publicar
    <3>2. r \in PublicacaoT /\ r.passo = "trava"
      BY DEF Livre, PublicacaoT
    <3>3. PublicacaoCoerente(p)'
      BY <1>0, <3>1, <3>2 DEF PublicacaoCoerente, TypeOKPoliticas
    <3> HIDE DEF r
    <3> QED
      BY <1>0, <3>1, <3>2, <3>3, SemVersaoNova DEF TypeOKPoliticas
  <2>2. CASE TravarPublicacao(p)
    <3> DEFINE r == [pedido[p] EXCEPT !.passo = "conferir"]
    <3>1. /\ pedido' = [pedido EXCEPT ![p] = r] /\ UNCHANGED <<dia, versoes>>
          /\ trava[pedido[p].serie] = Nada /\ trava' = [trava EXCEPT ![pedido[p].serie] = p]
      BY <2>2 DEF TravarPublicacao
    <3>2. r \in PublicacaoT /\ r.passo = "conferir" /\ r.serie = pedido[p].serie
      BY <2>0 DEF PublicacaoT
    <3>3. PublicacaoCoerente(p)'
      BY <1>0, <2>0, <3>1, <3>2 DEF PublicacaoCoerente, TypeOKPoliticas
    <3> HIDE DEF r
    <3> QED
      BY <1>0, <2>0, <3>1, <3>2, <3>3, SemVersaoNova DEF TypeOKPoliticas
  <2>3. CASE Terminar(p) /\ UNCHANGED <<dia, versoes>>
    BY <1>0, <2>3, AoTerminar, SemVersaoNova DEF TypeOKPoliticas
  <2>4. CASE ConferirVigencia(p) /\ ~Terminar(p)
    <3> DEFINE r == [pedido[p] EXCEPT !.passo = "gravar"]
    <3>1. /\ pedido[p].passo = "conferir"
          /\ ~(versoes[pedido[p].serie] # <<>> /\ pedido[p].de < Ultima(pedido[p].serie).de)
          /\ pedido' = [pedido EXCEPT ![p] = r] /\ UNCHANGED <<dia, versoes, trava>>
      BY <2>4 DEF ConferirVigencia
    <3>2. /\ r \in PublicacaoT /\ r.passo = "gravar" /\ r.serie = pedido[p].serie
          /\ r.de = pedido[p].de /\ r.de \in Int
      BY <2>0 DEF PublicacaoT, Dias
    <3>3. versoes[r.serie] # <<>> => Ultima(r.serie).de \in Int
      <4>1. versoes[r.serie] \in Seq(Versao)
        BY <1>0, <2>0, <3>2 DEF TypeOKPoliticas
      <4>2. versoes[r.serie] # <<>> => Ultima(r.serie) \in Versao
        BY <4>1 DEF Ultima
      <4> QED
        BY <4>2 DEF Versao, Dias
    <3>4. PublicacaoCoerente(p)'
      <4>1. pedido'[p] = r /\ trava[r.serie] = p
        BY <1>0, <2>0, <3>1, <3>2 DEF TypeOKPoliticas, PublicacaoCoerente
      <4>2. versoes[r.serie] = <<>> \/ Ultima(r.serie).de <= r.de
        BY <3>1, <3>2, <3>3
      <4> QED
        BY <3>1, <3>2, <4>1, <4>2 DEF PublicacaoCoerente, Ultima
    <3> HIDE DEF r
    <3> QED
      BY <1>0, <3>1, <3>2, <3>4, SemVersaoNova DEF TypeOKPoliticas
  <2>5. CASE PublicarPolitica(p)
    <3> DEFINE v == [de |-> pedido[p].de, pedida |-> pedido[p].pedida,
                     conteudo |-> Herdada(pedido[p].serie, pedido[p].pedida)]
               r == [pedido[p] EXCEPT !.passo = "confirmar", !.nova = v]
    <3>1. /\ pedido[p].passo = "gravar" /\ UNCHANGED <<dia, versoes, trava>>
          /\ pedido' = [pedido EXCEPT ![p].passo = "confirmar", ![p].nova = v]
      BY <2>5 DEF PublicarPolitica
    <3>2. pedido' = [pedido EXCEPT ![p] = r]
      BY <1>0, <2>0, <3>1 DEF TypeOKPoliticas, PublicacaoT
    <3>3. v \in Versao
      <4>1. versoes[pedido[p].serie] \in Seq(Versao)
        BY <1>0, <2>0 DEF TypeOKPoliticas
      <4>2. versoes[pedido[p].serie] # <<>> => Ultima(pedido[p].serie) \in Versao
        BY <4>1 DEF Ultima
      <4>3. Herdada(pedido[p].serie, pedido[p].pedida) \in Conteudo
        BY <2>0, <4>2 DEF Herdada, Conteudo, Versao, PublicacaoT
      <4> QED
        BY <2>0, <4>3 DEF Versao, PublicacaoT
    <3>4. PICK t \in PublicacaoT :
            /\ t.passo = "confirmar" /\ t.serie = pedido[p].serie
            /\ t.de = pedido[p].de /\ t.pedida = pedido[p].pedida /\ t.nova = v
            /\ pedido' = [pedido EXCEPT ![p] = t]
      <4>1. /\ r \in PublicacaoT /\ r.passo = "confirmar" /\ r.serie = pedido[p].serie
            /\ r.de = pedido[p].de /\ r.pedida = pedido[p].pedida /\ r.nova = v
        <5> HIDE DEF v
        <5> QED
          BY <2>0, <3>3 DEF PublicacaoT
      <4> HIDE DEF r, v
      <4> QED
        BY <3>2, <4>1
    <3>5. PublicacaoCoerente(p)'
      <4>1. pedido'[p] = t
        BY <1>0, <3>4 DEF TypeOKPoliticas
      <4>2. /\ trava[pedido[p].serie] = p
            /\ versoes[pedido[p].serie] = <<>> \/ Ultima(pedido[p].serie).de <= pedido[p].de
        BY <2>0, <3>1 DEF PublicacaoCoerente
      <4>3. /\ trava'[t.serie] = p
            /\ versoes'[t.serie] = <<>> \/ Ultima(t.serie)'.de <= t.de
        BY <3>1, <3>4, <4>2 DEF Ultima
      <4>4. Herdada(t.serie, t.pedida)' = Herdada(t.serie, t.pedida)
        BY <3>1 DEF Herdada, Ultima
      <4>5. t.nova = [de |-> t.de, pedida |-> t.pedida, conteudo |-> Herdada(t.serie, t.pedida)]
        BY <3>4
      <4> QED
        BY <4>1, <4>3, <4>4, <4>5 DEF PublicacaoCoerente, Ultima, Herdada
    <3> QED
      BY <1>0, <3>1, <3>4, <3>5, SemVersaoNova DEF TypeOKPoliticas
  <2>6. CASE Confirmar(p)
    BY <2>6, AoConfirmar
  <2>7. Series = {"comercial", "cancelamento"} /\ Validades \cup {Nada} \subseteq Conteudo
        /\ Faixas \subseteq Conteudo
    BY DEF Series, Conteudo
  <2> QED
    BY <1>3, <2>1, <2>2, <2>3, <2>4, <2>5, <2>6, <2>7 DEF Passo, ConferirVigencia, Cair
<1> QED
  BY <1>1, <1>2, <1>3 DEF Next

\* Versions in order of validity: the last in force and the latest in force are one.
LEMMA UmaSoVigente ==
    ASSUME PoliticasInv, NEW s \in Series
    PROVE  VigenteNoPainel(s) = VigenteNoOrcamento(s)
<1> DEFINE E == EmVigor(s)
           Ult(i) == \A j \in E : i >= j
           Rec(i) == \A j \in E : \/ versoes[s][i].de > versoes[s][j].de
                                  \/ versoes[s][i].de = versoes[s][j].de /\ i >= j
<1>1. versoes[s] \in Seq(Versao) /\ E \subseteq 1..Len(versoes[s])
  BY DEF PoliticasInv, TypeOKPoliticas, EmVigor
<1>2. ASSUME NEW i \in E, NEW j \in E
      PROVE  i >= j <=> \/ versoes[s][i].de > versoes[s][j].de
                        \/ versoes[s][i].de = versoes[s][j].de /\ i >= j
  <2>1. i \in DOMAIN versoes[s] /\ j \in DOMAIN versoes[s] /\ i \in Nat \ {0} /\ j \in Nat \ {0}
    BY <1>1
  <2>2. versoes[s][i] \in Versao /\ versoes[s][j] \in Versao
    BY <1>1, <2>1
  <2>3. versoes[s][i].de \in Int /\ versoes[s][j].de \in Int
    BY <2>2 DEF Versao, Dias
  <2>4. (j <= i => versoes[s][j].de <= versoes[s][i].de)
        /\ (i <= j => versoes[s][i].de <= versoes[s][j].de)
    BY <2>1 DEF PoliticasInv, VersoesEmOrdem
  <2> QED
    BY <2>1, <2>3, <2>4
<1>3. \A i \in E : Ult(i) <=> Rec(i)
  BY <1>2
<1>4. (CHOOSE i \in E : Ult(i)) = (CHOOSE i \in E : Rec(i))
  BY <1>3
<1>5. /\ VigenteNoPainel(s) = IF E = {} THEN 0 ELSE CHOOSE i \in E : Ult(i)
      /\ VigenteNoOrcamento(s) = IF E = {} THEN 0 ELSE CHOOSE i \in E : Rec(i)
  BY DEF VigenteNoPainel, VigenteNoOrcamento
<1> HIDE DEF E, Ult, Rec
<1> QED
  BY <1>4, <1>5

\* The numbers of the versions tell their history, whoever publishes meanwhile: later
\* ones come into force later, each keeps what it did not change, and the panel and a
\* quote read the same one (tarifario/repository_politicas.go).
THEOREM VersoesSempreContam == Spec => []VersoesContamAHistoria
<1>1. PoliticasInv => VersoesContamAHistoria
  BY UmaSoVigente DEF PoliticasInv, VersoesContamAHistoria
<1> QED
  BY <1>1, PoliticasIniciam, PoliticasSeguem, PTL DEF Spec

-----------------------------------------------------------------------------
(***************************************************************************)
(* The tiers of a cancellation policy.  In order of their floors, the last *)
(* one that begins by a day is the only one that covers it.                *)
(***************************************************************************)

Faixa == [min : Nat \cup {SemLimite}, max : Nat \cup {SemLimite}, pct : 0..100]

LEMMA TetoNatural == SemTeto \in Nat
BY SMT DEF SemTeto

LEMMA TemMaior ==
    ASSUME NEW n \in Nat, NEW T \in SUBSET (1..n), T # {}
    PROVE  \E x \in T : \A y \in T : y <= x
<1> DEFINE R == {ss \in Nat \X Nat : ss[1] < ss[2]}
           D == {n - x : x \in T}
<1>1. R = OpToRel(<, Nat)
  BY DEF OpToRel
<1>2. IsWellFoundedOn(R, Nat)
  BY <1>1, NatLessThanWellFounded
<1>3. \A a, b \in Nat : <<a, b>> \in R <=> a < b
  OBVIOUS
<1>4. D \subseteq Nat /\ D # {}
  <2>1. \A x \in T : x \in 1..n /\ n - x \in Nat
    <3>1. \A x \in T : x \in 1..n
      OBVIOUS
    <3> QED
      BY <3>1
  <2> QED
    BY <2>1
<1> HIDE DEF R
<1>5. PICK d \in D : \A e \in D : ~(<<e, d>> \in R)
  BY <1>2, <1>4, WFMin
<1>6. PICK x \in T : d = n - x
  OBVIOUS
<1>7. ASSUME NEW y \in T PROVE y <= x
  <2>1. n - y \in D /\ n - y \in Nat /\ d \in Nat /\ x \in 1..n /\ y \in 1..n
    BY <1>4
  <2>2. ~(n - y < d)
    BY <1>3, <1>5, <2>1
  <2> QED
    BY <1>6, <2>1, <2>2
<1> QED
  BY <1>7

\* The tier falls on the days of its interval.
LEMMA AplicaNoIntervalo ==
    ASSUME NEW f \in Faixa, NEW d \in 0..SemTeto
    PROVE  /\ Intervalo(f).lo \in Nat /\ Intervalo(f).hi \in Nat
           /\ Aplica(f, d) <=> Intervalo(f).lo <= d /\ d <= Intervalo(f).hi
<1>1. f.min \in Nat \cup {-1} /\ f.max \in Nat \cup {-1}
  BY DEF Faixa, SemLimite
<1>2. /\ Intervalo(f).lo = IF f.min = -1 THEN 0 ELSE f.min
      /\ Intervalo(f).hi = IF f.max = -1 THEN SemTeto ELSE f.max
  BY DEF Intervalo, SemLimite
<1>3. SemTeto \in Nat
  BY TetoNatural
<1> QED
  BY <1>1, <1>2, <1>3 DEF Aplica

\* What the panel lets through covers every day once (dto.go cobrituraCompleta against
\* booking.CancellationPolicy.Simulate).
LEMMA CobreUmaVez ==
    ASSUME NEW fs \in Seq(Faixa), Validar(fs), NEW d \in 0..SemTeto
    PROVE  \E k \in DOMAIN fs : {i \in DOMAIN fs : Aplica(fs[i], d)} = {k}
<1> DEFINE n == Len(fs)
           D == DOMAIN fs
<1>1. n \in Nat \ {0} /\ D = 1..n /\ \A i \in D : fs[i] \in Faixa
  BY DEF Validar
<1>2. PICK p \in Bijection(D, D) :
        LET o == [i \in D |-> Intervalo(fs[p[i]])]
        IN  /\ EmOrdem(fs, p)
            /\ o[1].lo = 0 /\ o[n].hi = SemTeto
            /\ \A i \in 2..n : o[i].lo > o[i - 1].hi /\ o[i].lo <= o[i - 1].hi + 1
  BY DEF Validar, CoberturaCompleta
<1>3. p \in [D -> D] /\ \A k \in D : \E i \in D : p[i] = k
  BY <1>2 DEF Bijection, Surjection
<1> DEFINE lo(i) == Intervalo(fs[p[i]]).lo
           hi(i) == Intervalo(fs[p[i]]).hi
           Vale(i) == Aplica(fs[p[i]], d)
<1>4. \A i \in D : lo(i) \in Nat /\ hi(i) \in Nat /\ (Vale(i) <=> lo(i) <= d /\ d <= hi(i))
  BY <1>1, <1>3, AplicaNoIntervalo
<1>5. /\ lo(1) = 0 /\ hi(n) = SemTeto
      /\ \A i \in 2..n : lo(i) > hi(i - 1) /\ lo(i) <= hi(i - 1) + 1
  <2> DEFINE o == [i \in D |-> Intervalo(fs[p[i]])]
  <2>1. /\ o[1].lo = 0 /\ o[n].hi = SemTeto
        /\ \A i \in 2..n : o[i].lo > o[i - 1].hi /\ o[i].lo <= o[i - 1].hi + 1
    BY <1>2
  <2>2. \A i \in D : o[i].lo = lo(i) /\ o[i].hi = hi(i)
    OBVIOUS
  <2>3. 1 \in D /\ n \in D /\ \A i \in 2..n : i \in D /\ i - 1 \in D
    BY <1>1
  <2> HIDE DEF o, lo, hi
  <2> QED
    BY <2>1, <2>2, <2>3
<1>6. \A i, j \in D : i < j => lo(i) <= lo(j)
  <2>1. \A i, j \in D : i < j => lo(i) < lo(j) \/ lo(i) = lo(j)
    BY <1>2 DEF EmOrdem
  <2> QED
    BY <1>4, <2>1
<1>7. d \in Nat /\ d <= SemTeto /\ SemTeto \in Nat
  BY TetoNatural
<1> HIDE DEF lo, hi, Vale
<1>8. PICK m \in D : Vale(m)
  <2> DEFINE T == {i \in D : lo(i) <= d}
  <2>1. 1 \in T /\ T \in SUBSET (1..n)
    BY <1>1, <1>5, <1>7
  <2>2. PICK m \in T : \A y \in T : y <= m
    BY <1>1, <2>1, TemMaior
  <2>3. m \in D /\ m \in 1..n /\ lo(m) <= d
    BY <1>1, <2>2
  <2>4. CASE m = n
    BY <1>4, <1>5, <1>7, <2>3, <2>4
  <2>5. CASE m # n
    <3>1. m + 1 \in D /\ m + 1 \in 2..n /\ m + 1 \notin T
      BY <1>1, <2>2, <2>3, <2>5
    <3>2. ~(lo(m + 1) <= d) /\ lo(m + 1) <= hi((m + 1) - 1) + 1 /\ (m + 1) - 1 = m
      BY <1>5, <2>3, <3>1
    <3> QED
      BY <1>4, <1>7, <2>3, <3>1, <3>2
  <2> QED
    BY <2>4, <2>5
<1>9. ASSUME NEW i \in D, NEW j \in D, Vale(i), Vale(j), i < j PROVE FALSE
  <2>1. i + 1 \in D /\ i + 1 \in 2..n /\ (i + 1) - 1 = i /\ (i + 1 = j \/ i + 1 < j)
    BY <1>1, <1>9
  <2>2. lo(i + 1) > hi(i)
    BY <1>5, <2>1
  <2>3. lo(i + 1) <= lo(j)
    BY <1>4, <1>6, <2>1
  <2> QED
    BY <1>4, <1>7, <1>9, <2>1, <2>2, <2>3
<1>10. \A i \in D : Vale(i) => i = m
  BY <1>1, <1>8, <1>9
<1>11. \A i \in D : Aplica(fs[p[i]], d) <=> i = m
  BY <1>8, <1>10 DEF Vale
<1>12. ASSUME NEW k \in D PROVE Aplica(fs[k], d) <=> k = p[m]
  <2>1. PICK i \in D : p[i] = k
    BY <1>3
  <2>2. Aplica(fs[k], d) <=> i = m
    BY <1>11, <2>1
  <2>3. k = p[m] => i = m
    BY <1>8, <1>11, <2>1 DEF Vale
  <2> QED
    BY <2>1, <2>2, <2>3
<1>13. p[m] \in DOMAIN fs /\ {i \in DOMAIN fs : Aplica(fs[i], d)} = {p[m]}
  BY <1>3, <1>8, <1>12
<1> QED
  BY <1>13

LEMMA DevolveDoPago ==
    ASSUME NEW fs \in Seq(Faixa), NEW d \in Int
    PROVE  Simulate(fs, 3, d) \in 0..3
<1> DEFINE cabem == {i \in DOMAIN fs : Aplica(fs[i], d)}
           k == CHOOSE i \in cabem : \A j \in cabem : i <= j
<1>1. CASE cabem = {}
  BY <1>1 DEF Simulate
<1>2. CASE cabem # {}
  <2>1. k \in cabem
    <3> DEFINE n == Len(fs)
               E == {n + 1 - i : i \in cabem}
    <3>1. n \in Nat /\ \A i \in cabem : i \in 1..n
      OBVIOUS
    <3>2. E \in SUBSET (1..n) /\ E # {}
      BY <1>2, <3>1
    <3>3. PICK x \in E : \A y \in E : y <= x
      BY <3>1, <3>2, TemMaior
    <3>4. PICK i \in cabem : x = n + 1 - i
      OBVIOUS
    <3>5. \A j \in cabem : n + 1 - j \in E /\ j \in 1..n
      BY <3>1
    <3> HIDE DEF E, cabem
    <3>6. \A j \in cabem : i <= j
      BY <3>1, <3>3, <3>4, <3>5
    <3> QED
      BY <3>6
  <2>2. k \in DOMAIN fs /\ fs[k] \in Faixa
    BY <2>1
  <2>3. fs[k].pct \in 0..100
    BY <2>2 DEF Faixa
  <2>4. Simulate(fs, 3, d) = (2 * 3 * fs[k].pct + 100) \div 200
    BY <1>2 DEF Simulate
  <2> HIDE DEF k
  <2>5. \A x \in 0..100 : (2 * 3 * x + 100) \div 200 \in 0..3
    OBVIOUS
  <2> QED
    BY <2>3, <2>4, <2>5
<1> QED
  BY <1>1, <1>2

\* What is sent was checked, and nothing else is written.
FaixasValidas ==
    /\ \A p \in Pedidos :
          pedido[p].passo # "livre" /\ pedido[p].serie = "cancelamento" =>
              pedido[p].pedida \in Faixas /\ Validar(pedido[p].pedida)
    /\ \A i \in DOMAIN versoes["cancelamento"] :
          /\ versoes["cancelamento"][i].conteudo \in Faixas
          /\ Validar(versoes["cancelamento"][i].conteudo)

LEMMA FaixasSeguem ==
    ASSUME PoliticasInv, FaixasValidas, [Next]_vars
    PROVE  FaixasValidas'
<1> USE PoliticasAssumption
<1>0. TypeOKPoliticas /\ "cancelamento" \in Series
  BY DEF PoliticasInv, Series
<1>1. CASE UNCHANGED vars \/ PassarDia
  BY <1>1 DEF vars, PassarDia, FaixasValidas
<1>2. ASSUME NEW p \in Pedidos, UNCHANGED versoes,
             NEW r \in PublicacaoT, pedido' = [pedido EXCEPT ![p] = r],
             r.passo = "livre" \/ (/\ pedido[p].passo # "livre" /\ r.serie = pedido[p].serie
                                   /\ r.pedida = pedido[p].pedida)
                               \/ (r.serie = "cancelamento" => r.pedida \in Faixas /\ Validar(r.pedida))
      PROVE  FaixasValidas'
  <2>1. \A q \in Pedidos : pedido'[q] = IF q = p THEN r ELSE pedido[q]
    BY <1>0, <1>2 DEF TypeOKPoliticas
  <2> QED
    BY <1>2, <2>1 DEF FaixasValidas
<1>3. ASSUME NEW p \in Pedidos, Passo(p) PROVE FaixasValidas'
  <2>0. pedido[p] \in PublicacaoT /\ pedido \in [Pedidos -> PublicacaoT]
    BY <1>0 DEF TypeOKPoliticas
  <2>1. ASSUME NEW s \in Series, NEW de \in Dias, NEW x, Publicar(p, s, de, x),
               \/ s = "comercial" /\ x \in Validades \cup {Nada}
               \/ s = "cancelamento" /\ x \in Faixas
        PROVE  FaixasValidas'
    <3> DEFINE r == [Livre EXCEPT !.passo = "trava", !.serie = s, !.de = de, !.pedida = x]
    <3>1. pedido' = [pedido EXCEPT ![p] = r] /\ UNCHANGED versoes
      BY <2>1 DEF Publicar
    <3>2. x \in Conteudo
      BY <2>1 DEF Conteudo
    <3>3. r \in PublicacaoT /\ r.serie = s /\ r.pedida = x
      BY <3>2 DEF Livre, PublicacaoT
    <3>4. r.serie = "cancelamento" => r.pedida \in Faixas /\ Validar(r.pedida)
      BY <2>1, <3>3 DEF Publicar
    <3> HIDE DEF r
    <3> QED
      BY <1>2, <3>1, <3>3, <3>4
  <2>2. CASE Terminar(p) /\ UNCHANGED versoes
    <3>1. pedido' = [pedido EXCEPT ![p] = Livre] /\ Livre \in PublicacaoT
      BY <1>0, <2>2, AoTerminar
    <3> QED
      BY <1>2, <2>2, <3>1 DEF Livre
  <2>3. ASSUME NEW x \in {"conferir", "gravar"}, pedido[p].passo # "livre", UNCHANGED versoes,
               pedido' = [pedido EXCEPT ![p].passo = x]
        PROVE  FaixasValidas'
    <3> DEFINE r == [pedido[p] EXCEPT !.passo = x]
    <3>1. r \in PublicacaoT /\ r.serie = pedido[p].serie /\ r.pedida = pedido[p].pedida
      BY <2>0 DEF PublicacaoT
    <3>2. pedido' = [pedido EXCEPT ![p] = r]
      BY <2>3
    <3> HIDE DEF r
    <3> QED
      BY <1>2, <2>3, <3>1, <3>2
  <2>4. CASE PublicarPolitica(p)
    <3>1. /\ pedido[p].passo # "livre" /\ UNCHANGED versoes
          /\ \A q \in Pedidos : pedido'[q].serie = pedido[q].serie
                                /\ pedido'[q].pedida = pedido[q].pedida
          /\ \A q \in Pedidos : pedido'[q].passo # "livre" => pedido[q].passo # "livre"
      BY <2>0, <2>4 DEF PublicarPolitica, PublicacaoT
    <3> QED
      BY <3>1 DEF FaixasValidas
  <2>5. CASE Confirmar(p)
    <3> DEFINE s == pedido[p].serie  n == Len(versoes[s])  nova == pedido[p].nova
    <3>1. /\ pedido[p].passo = "confirmar" /\ s \in Series /\ Terminar(p)
          /\ versoes' = [versoes EXCEPT ![s] = Append(versoes[s], nova)]
      BY <2>0, <2>5 DEF Confirmar, PublicacaoT
    <3>2. \A q \in Pedidos : pedido'[q].passo # "livre" => pedido'[q] = pedido[q]
      BY <2>0, <3>1 DEF Terminar, Livre
    <3>3. CASE s # "cancelamento"
      <4>1. versoes'["cancelamento"] = versoes["cancelamento"]
        BY <1>0, <3>1, <3>3 DEF TypeOKPoliticas
      <4> QED
        BY <3>2, <4>1 DEF FaixasValidas
    <3>4. CASE s = "cancelamento"
      <4>1. nova.conteudo = Herdada(s, pedido[p].pedida)
        <5>1. nova = [de |-> pedido[p].de, pedida |-> pedido[p].pedida,
                      conteudo |-> Herdada(pedido[p].serie, pedido[p].pedida)]
          BY <3>1 DEF PoliticasInv, PublicacaoCoerente
        <5> QED
          BY <5>1
      <4>2. pedido[p].pedida \in Faixas /\ Validar(pedido[p].pedida)
        BY <3>1, <3>4 DEF FaixasValidas
      <4>3. nova.conteudo = pedido[p].pedida
        BY <4>1, <4>2 DEF Herdada
      <4>4. versoes["cancelamento"] \in Seq(Versao) /\ n \in Nat
            /\ versoes'["cancelamento"] = Append(versoes["cancelamento"], nova)
        BY <1>0, <3>1, <3>4 DEF TypeOKPoliticas
      <4>5. \A i \in DOMAIN versoes'["cancelamento"] :
               versoes'["cancelamento"][i] =
                 IF i \in DOMAIN versoes["cancelamento"] THEN versoes["cancelamento"][i] ELSE nova
        BY <4>4
      <4>6. ASSUME NEW i \in DOMAIN versoes'["cancelamento"]
            PROVE  /\ versoes'["cancelamento"][i].conteudo \in Faixas
                   /\ Validar(versoes'["cancelamento"][i].conteudo)
        <5>1. CASE i \in DOMAIN versoes["cancelamento"]
          BY <4>5, <5>1 DEF FaixasValidas
        <5>2. CASE i \notin DOMAIN versoes["cancelamento"]
          BY <4>2, <4>3, <4>5, <5>2
        <5> QED
          BY <5>1, <5>2
      <4> QED
        BY <3>2, <4>6 DEF FaixasValidas
    <3> QED
      BY <3>3, <3>4
  <2>6. TravarPublicacao(p) \/ ConferirVigencia(p) =>
            \/ Terminar(p) /\ UNCHANGED versoes
            \/ /\ pedido[p].passo # "livre" /\ UNCHANGED versoes
               /\ \E x \in {"conferir", "gravar"} : pedido' = [pedido EXCEPT ![p].passo = x]
    BY DEF TravarPublicacao, ConferirVigencia
  <2>7. Cair(p) => Terminar(p) /\ UNCHANGED versoes
    BY DEF Cair
  <2>8. Series = {"comercial", "cancelamento"}
    BY DEF Series
  <2> QED
    BY <1>3, <2>1, <2>2, <2>3, <2>4, <2>5, <2>6, <2>7, <2>8 DEF Passo
<1> QED
  BY <1>1, <1>3 DEF Next

LEMMA FaixaSempreUnica ==
    ASSUME PoliticasInv, FaixasValidas
    PROVE  FaixaUnica
<1> USE PoliticasAssumption
<1> SUFFICES ASSUME NEW i \in DOMAIN versoes["cancelamento"], NEW d \in 0..(UltimoDia + 4)
             PROVE  LET fs == versoes["cancelamento"][i].conteudo
                    IN  /\ Cardinality({k \in DOMAIN fs : Aplica(fs[k], d)}) = 1
                        /\ Simulate(fs, 3, d) \in 0..3
  BY DEF FaixaUnica
<1> DEFINE fs == versoes["cancelamento"][i].conteudo
<1>1. fs \in Faixas /\ Validar(fs)
  BY DEF FaixasValidas
<1>2. fs \in Seq(Faixa)
  BY <1>1 DEF Faixa
<1>3. d \in 0..SemTeto /\ d \in Int
  BY TetoNatural
<1> HIDE DEF fs
<1>4. PICK k \in DOMAIN fs : {j \in DOMAIN fs : Aplica(fs[j], d)} = {k}
  BY <1>1, <1>2, <1>3, CobreUmaVez
<1>5. Cardinality({j \in DOMAIN fs : Aplica(fs[j], d)}) = 1
  BY <1>4, FS_Singleton
<1>6. Simulate(fs, 3, d) \in 0..3
  BY <1>2, <1>3, DevolveDoPago
<1> QED
  BY <1>5, <1>6 DEF fs

\* Whatever is published, by however many managers at once, every day before check-in
\* falls in one tier and in one only, and what it gives back is part of what was paid
\* (tarifario/dto.go cobrituraCompleta against booking.CancellationPolicy.Simulate).
THEOREM TodoDiaTemUmaFaixa == Spec => []FaixaUnica
<1>1. Init => FaixasValidas
  <2> SUFFICES ASSUME Init PROVE FaixasValidas
    OBVIOUS
  <2>1. versoes["cancelamento"] = <<>>
    BY DEF Init, Series
  <2> QED
    BY <2>1 DEF Init, FaixasValidas, Livre
<1>2. PoliticasInv /\ FaixasValidas /\ [Next]_vars => PoliticasInv' /\ FaixasValidas'
  BY PoliticasSeguem, FaixasSeguem
<1>3. PoliticasInv /\ FaixasValidas => FaixaUnica
  BY FaixaSempreUnica
<1> QED
  BY <1>1, <1>2, <1>3, PoliticasIniciam, PTL DEF Spec

\* The days only pass and versions are only added: what is in force stays in force, until
\* a later one comes.
LEMMA VigenteAvanca ==
    ASSUME PoliticasInv, PoliticasInv', [Next]_vars, NEW s \in Series
    PROVE  VigenteNoPainel(s)' >= VigenteNoPainel(s)
<1> USE PoliticasAssumption
<1>1. /\ versoes[s] \in Seq(Versao) /\ versoes'[s] \in Seq(Versao)
      /\ dia \in Int /\ dia' \in Int
  BY DEF PoliticasInv, TypeOKPoliticas, Dias
<1>2. dia <= dia' /\ (versoes'[s] = versoes[s] \/ \E v : versoes'[s] = Append(versoes[s], v))
  <2>1. CASE UNCHANGED vars \/ PassarDia
    BY <1>1, <2>1 DEF vars, PassarDia
  <2>2. ASSUME NEW p \in Pedidos, Passo(p)
        PROVE  dia' = dia /\ (versoes' = versoes
                 \/ \E v, x : versoes' = [versoes EXCEPT ![x] = Append(versoes[x], v)])
    BY <2>2 DEF Passo, Publicar, TravarPublicacao, ConferirVigencia, PublicarPolitica,
                Confirmar, Cair
  <2>3. versoes \in [Series -> Seq(Versao)]
    BY DEF PoliticasInv, TypeOKPoliticas
  <2>4. ASSUME NEW p \in Pedidos, Passo(p)
        PROVE  dia <= dia' /\ (versoes'[s] = versoes[s] \/ \E v : versoes'[s] = Append(versoes[s], v))
    <3>1. CASE versoes' = versoes
      BY <1>1, <2>2, <2>4, <3>1
    <3>2. ASSUME NEW v, NEW x, versoes' = [versoes EXCEPT ![x] = Append(versoes[x], v)]
          PROVE  versoes'[s] = versoes[s] \/ versoes'[s] = Append(versoes[s], v)
      BY <2>3, <3>2
    <3>3. CASE versoes' # versoes
      <4>1. dia' = dia
        BY <2>2, <2>4
      <4>2. PICK v, x : versoes' = [versoes EXCEPT ![x] = Append(versoes[x], v)]
        BY <2>2, <2>4, <3>3
      <4>3. versoes'[s] = versoes[s] \/ versoes'[s] = Append(versoes[s], v)
        BY <3>2, <4>2
      <4>4. versoes'[s] = versoes[s] \/ \E w : versoes'[s] = Append(versoes[s], w)
        BY <4>3
      <4>5. dia <= dia'
        BY <1>1, <4>1
      <4> QED
        BY <4>4, <4>5
    <3> QED
      BY <3>1, <3>3
  <2> QED
    BY <2>1, <2>4 DEF Next
<1>3. \A i \in DOMAIN versoes[s] : i \in DOMAIN versoes'[s] /\ versoes'[s][i] = versoes[s][i]
  BY <1>1, <1>2
<1>4. \A i \in DOMAIN versoes[s] : versoes[s][i].de \in Int
  <2>1. \A i \in DOMAIN versoes[s] : versoes[s][i] \in Versao
    BY <1>1
  <2> QED
    BY <2>1 DEF Versao, Dias
<1> DEFINE E == EmVigor(s)
           F == {i \in DOMAIN versoes'[s] : versoes'[s][i].de <= dia'}
           n == Len(versoes'[s])
           e == CHOOSE i \in E : \A j \in E : i >= j
           f == CHOOSE i \in F : \A j \in F : i >= j
<1>5. E \subseteq F
  BY <1>1, <1>2, <1>3, <1>4 DEF EmVigor
<1>6. n \in Nat /\ F \in SUBSET (1..n) /\ E \in SUBSET (1..n)
  BY <1>1, <1>5
<1>7. /\ VigenteNoPainel(s) = IF E = {} THEN 0 ELSE e
      /\ VigenteNoPainel(s)' = IF F = {} THEN 0 ELSE f
  BY DEF VigenteNoPainel, EmVigor
<1> HIDE DEF E, F, n
<1>8. F # {} => f \in F /\ \A j \in F : j <= f
  <2>1. F # {} => \E x \in F : \A y \in F : y <= x
    BY <1>6, TemMaior
  <2>2. \A x, y \in F : y <= x <=> x >= y
    BY <1>6
  <2> QED
    BY <2>1, <2>2
<1>9. E # {} => e \in E
  <2>1. E # {} => \E x \in E : \A y \in E : y <= x
    BY <1>6, TemMaior
  <2>2. \A x, y \in E : y <= x <=> x >= y
    BY <1>6
  <2> QED
    BY <2>1, <2>2
<1> HIDE DEF e, f
<1>10. \A x \in F : x \in Nat
  BY <1>6
<1>11. CASE E = {}
  <2>1. F # {} => f >= 0
    BY <1>8, <1>10
  <2> QED
    BY <1>7, <1>11, <2>1
<1>12. CASE E # {}
  <2>1. e \in F /\ F # {} /\ e <= f /\ e \in Int /\ f \in Int
    BY <1>5, <1>8, <1>9, <1>12, <1>10
  <2> QED
    BY <1>7, <1>12, <2>1
<1> QED
  BY <1>11, <1>12

\* The version a quote is made under never goes back, whoever publishes meanwhile
\* (tarifario/service.go, the refusal of an earlier valid_from under the lock).
THEOREM VigenteNuncaRecua == Spec => VigenteNaoRecua
<1>1. PoliticasInv => \A s \in Series : VigenteNoPainel(s) = VigenteNoOrcamento(s)
  BY UmaSoVigente
<1> DEFINE Concorda == \A s \in Series : VigenteNoPainel(s) = VigenteNoOrcamento(s)
<1>2. PoliticasInv /\ PoliticasInv' /\ Concorda /\ Concorda' /\ [Next]_vars
        => [\A s \in Series : VigenteNoOrcamento(s)' >= VigenteNoOrcamento(s)]_vars
  BY VigenteAvanca
<1>3. PoliticasInv => Concorda
  BY <1>1
<1> QED
  BY <1>2, <1>3, PoliticasIniciam, PoliticasSeguem, PTL DEF Spec, VigenteNaoRecua

-----------------------------------------------------------------------------
(***************************************************************************)
(* The tables.  What a request read stays true until somebody else writes: *)
(* that is all its refusals rest on.                                       *)
(***************************************************************************)

LinhaT == [ativa : BOOLEAN, de : Datas, ate : Datas \cup {Vazio}]
RequisicaoT == [
    passo : {"livre", "contar", "restantes", "desativar", "atualizar"},
    id : Quadros \cup {Vazio}, hoje : Datas, de : Datas \cup {Vazio}, ate : Datas \cup {Vazio},
    vigentes : Nat, mudou : BOOLEAN]

TiposDasTabelas ==
    /\ hoje \in Datas
    /\ tabela \in [Quadros -> LinhaT \cup {Vazio}]
    /\ requer \in [Requisicoes -> RequisicaoT]

\* What the request r is sure of over the tables ts, while nobody else wrote.
LeuAsTabelas(r, ts) ==
    /\ r.passo = "restantes" => r.vigentes = Cardinality(VigentesEm(ts, r.hoje))
    /\ r.passo = "desativar" =>
          VigentesEm(ts, r.hoje) = {} \/ VigentesEm(ts, r.hoje) \ {r.id} # {}
    /\ r.passo = "atualizar" =>
          Coerente(IF r.de # Vazio THEN r.de ELSE ts[r.id].de,
                   IF r.ate # Vazio THEN r.ate ELSE ts[r.id].ate)

TabelasInv ==
    /\ TiposDasTabelas
    /\ \A p \in Requisicoes :
          /\ requer[p].passo # "livre" => requer[p].id \in Quadros /\ tabela[requer[p].id] \in LinhaT
          /\ ~requer[p].mudou => LeuAsTabelas(requer[p], tabela)

LEMMA NadaRequerido ==
    /\ SemRequisicao \in RequisicaoT /\ SemRequisicao.passo = "livre"
    /\ \A ts : LeuAsTabelas(SemRequisicao, ts)
BY TabelasAssumption DEF SemRequisicao, RequisicaoT, LeuAsTabelas, Datas

LEMMA TabelasIniciam == InitTabelas => TabelasInv
<1> SUFFICES ASSUME InitTabelas PROVE TabelasInv
  OBVIOUS
<1>1. hoje \in Datas /\ tabela \in [Quadros -> LinhaT \cup {Vazio}]
  BY TabelasAssumption DEF InitTabelas, LinhaT, Datas
<1>2. requer \in [Requisicoes -> RequisicaoT] /\ \A p \in Requisicoes : requer[p] = SemRequisicao
  BY NadaRequerido DEF InitTabelas
<1> QED
  BY <1>1, <1>2, NadaRequerido DEF TabelasInv, TiposDasTabelas

\* A request moves on and writes nothing.
LEMMA SoARequisicao ==
    ASSUME TabelasInv, NEW p \in Requisicoes, NEW r \in RequisicaoT,
           requer' = [requer EXCEPT ![p] = r], UNCHANGED <<hoje, tabela>>,
           r.passo # "livre" => r.id \in Quadros /\ tabela[r.id] \in LinhaT,
           ~r.mudou => LeuAsTabelas(r, tabela)
    PROVE  TabelasInv'
<1>1. /\ requer' \in [Requisicoes -> RequisicaoT] /\ requer'[p] = r
      /\ \A q \in Requisicoes : q # p => requer'[q] = requer[q]
  BY DEF TabelasInv, TiposDasTabelas
<1>2. TiposDasTabelas'
  BY <1>1 DEF TabelasInv, TiposDasTabelas
<1>3. ASSUME NEW q \in Requisicoes
      PROVE  /\ requer'[q].passo # "livre" =>
                    requer'[q].id \in Quadros /\ tabela[requer'[q].id] \in LinhaT
             /\ ~requer'[q].mudou => LeuAsTabelas(requer'[q], tabela)
  BY <1>1 DEF TabelasInv
<1> QED
  BY <1>2, <1>3 DEF TabelasInv

LEMMA AoDesistir ==
    ASSUME TabelasInv, NEW p \in Requisicoes, Desistir(p)
    PROVE  TabelasInv'
BY SoARequisicao, NadaRequerido DEF Desistir

\* A request writes a row and ends: the others are not sure any more, unless the row is
\* what it was.
LEMMA AoEscrever ==
    ASSUME TabelasInv, NEW p \in Requisicoes, NEW i \in Quadros, NEW linha \in LinhaT,
           Escrever(p, i, linha)
    PROVE  TabelasInv'
<1>1. /\ tabela' = [tabela EXCEPT ![i] = linha] /\ hoje' = hoje
      /\ requer' = [q \in Requisicoes |->
            IF q = p THEN SemRequisicao
            ELSE IF requer[q] = SemRequisicao THEN SemRequisicao
            ELSE [requer[q] EXCEPT !.mudou = @ \/ linha # tabela[i]]]
  BY DEF Escrever
<1>2. /\ tabela \in [Quadros -> LinhaT \cup {Vazio}] /\ requer \in [Requisicoes -> RequisicaoT]
      /\ hoje \in Datas
  BY DEF TabelasInv, TiposDasTabelas
<1>3. tabela' \in [Quadros -> LinhaT \cup {Vazio}] /\ (linha = tabela[i] => tabela' = tabela)
  BY <1>1, <1>2
<1>4. \A j \in Quadros : tabela[j] \in LinhaT => tabela'[j] \in LinhaT
  BY <1>1, <1>2
<1>5. ASSUME NEW q \in Requisicoes
      PROVE  /\ requer'[q] \in RequisicaoT
             /\ requer'[q].passo # "livre" =>
                    requer'[q].id \in Quadros /\ tabela'[requer'[q].id] \in LinhaT
             /\ ~requer'[q].mudou => LeuAsTabelas(requer'[q], tabela')
  <2>1. CASE q = p \/ requer[q] = SemRequisicao
    BY <1>1, <2>1, NadaRequerido
  <2>2. CASE ~(q = p \/ requer[q] = SemRequisicao)
    <3> DEFINE r == requer[q]
    <3>1. r \in RequisicaoT /\ requer'[q] = [r EXCEPT !.mudou = @ \/ linha # tabela[i]]
      BY <1>1, <1>2, <2>2
    <3>2. /\ requer'[q] \in RequisicaoT
          /\ requer'[q].passo = r.passo /\ requer'[q].id = r.id /\ requer'[q].hoje = r.hoje
          /\ requer'[q].de = r.de /\ requer'[q].ate = r.ate /\ requer'[q].vigentes = r.vigentes
          /\ ~requer'[q].mudou => ~r.mudou /\ tabela' = tabela
      <4> HIDE DEF r
      <4>1. r.mudou \in BOOLEAN
        BY <3>1 DEF RequisicaoT
      <4> QED
        BY <1>3, <3>1, <4>1 DEF RequisicaoT
    <3>3. r.passo # "livre" => r.id \in Quadros /\ tabela[r.id] \in LinhaT
      BY DEF TabelasInv
    <3>4. ~r.mudou => LeuAsTabelas(r, tabela)
      BY DEF TabelasInv
    <3> HIDE DEF r
    <3> QED
      BY <1>4, <3>2, <3>3, <3>4 DEF LeuAsTabelas
  <2> QED
    BY <2>1, <2>2
<1>6. requer' \in [Requisicoes -> RequisicaoT]
  BY <1>1, <1>5
<1> QED
  BY <1>1, <1>2, <1>3, <1>5, <1>6 DEF TabelasInv, TiposDasTabelas

LEMMA VigentesFinitas == \A ts, d : IsFiniteSet(VigentesEm(ts, d))
BY TabelasAssumption, FS_Subset DEF VigentesEm

LEMMA TabelasNoPasso ==
    ASSUME TabelasInv, NEW p \in Requisicoes, PassoTabelas(p)
    PROVE  TabelasInv'
<1> DEFINE r == requer[p]
<1>0. /\ tabela \in [Quadros -> LinhaT \cup {Vazio}] /\ requer \in [Requisicoes -> RequisicaoT]
      /\ hoje \in Datas /\ r \in RequisicaoT
      /\ r.passo # "livre" => r.id \in Quadros /\ tabela[r.id] \in LinhaT
      /\ ~r.mudou => LeuAsTabelas(r, tabela)
  BY DEF TabelasInv, TiposDasTabelas
<1>1. ASSUME NEW i \in Quadros, NEW de \in Datas, NEW ate \in Datas \cup {Vazio}, NEW a \in BOOLEAN,
             CriarTabela(p, i, de, ate) \/ SubstituirTabela(p, i, a, de, ate)
      PROVE  TabelasInv'
  <2>1. \A b \in BOOLEAN : [ativa |-> b, de |-> de, ate |-> ate] \in LinhaT
    BY DEF LinhaT
  <2> QED
    BY <1>1, <2>1, AoEscrever DEF CriarTabela, SubstituirTabela
<1>2. ASSUME NEW i \in Quadros, BuscarTabela(p, i) PROVE TabelasInv'
  <2> DEFINE n == [SemRequisicao EXCEPT !.passo = "contar", !.id = i, !.hoje = hoje]
  <2>1. n \in RequisicaoT /\ n.passo = "contar" /\ n.id = i
    BY <1>0, NadaRequerido DEF RequisicaoT, SemRequisicao
  <2>2. tabela[i] \in LinhaT /\ LeuAsTabelas(n, tabela)
    BY <1>0, <1>2, <2>1 DEF BuscarTabela, LeuAsTabelas
  <2>3. requer' = [requer EXCEPT ![p] = n] /\ UNCHANGED <<hoje, tabela>>
    BY <1>2 DEF BuscarTabela
  <2> HIDE DEF n
  <2> QED
    BY <2>1, <2>2, <2>3, SoARequisicao
<1>3. ASSUME NEW i \in Quadros, NEW de \in Datas \cup {Vazio}, NEW ate \in Datas \cup {Vazio},
             LerVigencia(p, i, de, ate)
      PROVE  TabelasInv'
  <2> DEFINE n == [SemRequisicao EXCEPT !.passo = "atualizar", !.id = i, !.de = de, !.ate = ate]
  <2>1. n \in RequisicaoT /\ n.passo = "atualizar" /\ n.id = i /\ n.de = de /\ n.ate = ate
    BY <1>0, NadaRequerido DEF RequisicaoT, SemRequisicao
  <2>2. tabela[i] \in LinhaT /\ LeuAsTabelas(n, tabela)
    BY <1>0, <1>3, <2>1 DEF LerVigencia, LeuAsTabelas
  <2>3. requer' = [requer EXCEPT ![p] = n] /\ UNCHANGED <<hoje, tabela>>
    BY <1>3 DEF LerVigencia
  <2> HIDE DEF n
  <2> QED
    BY <2>1, <2>2, <2>3, SoARequisicao
<1>4. CASE ContarTabelasVigentes(p)
  <2> DEFINE c == Cardinality(Vigentes(r.hoje))
             n == [r EXCEPT !.passo = "restantes", !.vigentes = c]
  <2>1. c \in Nat /\ c = Cardinality(VigentesEm(tabela, r.hoje))
    BY VigentesFinitas, FS_CardinalityType DEF Vigentes
  <2>2. /\ requer' = [requer EXCEPT ![p] = n] /\ UNCHANGED <<hoje, tabela>>
        /\ r.passo = "contar"
    BY <1>0, <1>4 DEF ContarTabelasVigentes
  <2> HIDE DEF c, r
  <2>3. /\ n \in RequisicaoT /\ n.passo = "restantes" /\ n.id = r.id /\ n.hoje = r.hoje
        /\ n.vigentes = c
    BY <1>0, <2>1 DEF RequisicaoT
  <2>4. LeuAsTabelas(n, tabela)
    BY <2>1, <2>3 DEF LeuAsTabelas
  <2> HIDE DEF n
  <2> QED
    BY <1>0, <2>2, <2>3, <2>4, SoARequisicao
<1>5. CASE ContarRestantes(p)
  <2>1. CASE r.vigentes > 0 /\ Vigentes(r.hoje) \ {r.id} = {}
    BY <1>5, <2>1, AoDesistir DEF ContarRestantes
  <2>2. CASE ~(r.vigentes > 0 /\ Vigentes(r.hoje) \ {r.id} = {})
    <3> DEFINE n == [r EXCEPT !.passo = "desativar"]
    <3>1. /\ requer' = [requer EXCEPT ![p] = n] /\ UNCHANGED <<hoje, tabela>>
          /\ r.passo = "restantes"
      BY <1>0, <1>5, <2>2 DEF ContarRestantes
    <3> HIDE DEF r
    <3>2. /\ n \in RequisicaoT /\ n.passo = "desativar" /\ n.id = r.id /\ n.hoje = r.hoje
          /\ n.mudou = r.mudou
      BY <1>0 DEF RequisicaoT
    <3>3. ~r.mudou => VigentesEm(tabela, r.hoje) = {} \/ VigentesEm(tabela, r.hoje) \ {r.id} # {}
      <4>1. CASE Vigentes(r.hoje) \ {r.id} # {}
        BY <4>1 DEF Vigentes
      <4>2. CASE Vigentes(r.hoje) \ {r.id} = {}
        <5>1. r.vigentes \in Nat /\ ~(r.vigentes > 0)
          BY <1>0, <2>2, <4>2 DEF RequisicaoT
        <5>2. ~r.mudou => Cardinality(VigentesEm(tabela, r.hoje)) = 0
          BY <1>0, <3>1, <5>1 DEF LeuAsTabelas
        <5> QED
          BY <5>2, VigentesFinitas, FS_EmptySet
      <4> QED
        BY <4>1, <4>2
    <3>4. ~n.mudou => LeuAsTabelas(n, tabela)
      BY <3>2, <3>3 DEF LeuAsTabelas
    <3> HIDE DEF n
    <3> QED
      BY <1>0, <3>1, <3>2, <3>4, SoARequisicao
  <2> QED
    BY <2>1, <2>2
<1>6. CASE DesativarTabela(p)
  <2>1. r.id \in Quadros /\ tabela[r.id] \in LinhaT
    BY <1>0, <1>6 DEF DesativarTabela
  <2>2. [tabela[r.id] EXCEPT !.ativa = FALSE] \in LinhaT
    BY <2>1 DEF LinhaT
  <2> QED
    BY <1>6, <2>1, <2>2, AoEscrever DEF DesativarTabela
<1>7. CASE AtualizarTabela(p)
  <2>1. r.id \in Quadros /\ tabela[r.id] \in LinhaT
    BY <1>0, <1>7 DEF AtualizarTabela
  <2>2. [tabela[r.id] EXCEPT !.de = IF r.de # Vazio THEN r.de ELSE @,
                             !.ate = IF r.ate # Vazio THEN r.ate ELSE @] \in LinhaT
    <3> HIDE DEF r
    <3> QED
      BY <1>0, <2>1 DEF LinhaT, RequisicaoT
  <2> QED
    BY <1>7, <2>1, <2>2, AoEscrever DEF AtualizarTabela
<1>8. CASE CairRequisicao(p)
  BY <1>8, AoDesistir DEF CairRequisicao
<1>9. ASSUME NEW i \in Quadros, NEW de \in Datas \cup {Vazio}, RetirarFim(p, i, de)
      PROVE  TabelasInv'
  <2> DEFINE linha == [tabela[i] EXCEPT !.de = IF de # Vazio THEN de ELSE @, !.ate = Vazio]
  <2>1. tabela[i] \in LinhaT
    BY <1>0, <1>9 DEF RetirarFim
  <2>2. linha \in LinhaT
    BY <2>1, TabelasAssumption DEF LinhaT
  <2>3. Escrever(p, i, linha)
    BY <1>9 DEF RetirarFim
  <2> QED
    BY <2>2, <2>3, AoEscrever
<1>10. TRUE \in BOOLEAN /\ Vazio \in Datas \cup {Vazio}
      /\ \A d \in Datas : d \in Datas \cup {Vazio}
  OBVIOUS
<1> QED
  BY <1>1, <1>2, <1>3, <1>4, <1>5, <1>6, <1>7, <1>8, <1>9, <1>10 DEF PassoTabelas

LEMMA TabelasSeguem == TabelasInv /\ [NextTabelas]_varsTabelas => TabelasInv'
<1> SUFFICES ASSUME TabelasInv, [NextTabelas]_varsTabelas PROVE TabelasInv'
  OBVIOUS
<1>1. CASE UNCHANGED varsTabelas
  BY <1>1 DEF TabelasInv, TiposDasTabelas, varsTabelas
<1>2. CASE VirarDia
  <2>1. hoje' \in Datas
    BY <1>2, TabelasAssumption DEF VirarDia, TabelasInv, TiposDasTabelas, Datas
  <2> QED
    BY <1>2, <2>1 DEF VirarDia, TabelasInv, TiposDasTabelas
<1> QED
  BY <1>1, <1>2, TabelasNoPasso DEF NextTabelas

\* The button never takes the last table in force from the house, and no edit leaves a
\* table that ends before it begins, unless another request wrote meanwhile, whatever
\* the tables, their number and who asks (tarifario/service.go DesativarTabela,
\* vigenciaCoerente).
THEOREM SoQuemCorreuFura == SpecTabelas => SoCorridaFuraAsTabelas
<1>1. ASSUME TabelasInv PROVE SoFuraQuemCorreu
  <2> SUFFICES ASSUME NEW p \in Requisicoes, ~requer[p].mudou
               PROVE  /\ DesativarTabela(p) /\ Vigentes(requer[p].hoje) # {}
                         /\ VigentesEm(tabela', requer[p].hoje) = {} => FALSE
                      /\ \A i \in Quadros :
                            AtualizarTabela(p) /\ requer[p].id = i
                            /\ ~Coerente(tabela'[i].de, tabela'[i].ate) => FALSE
    BY DEF SoFuraQuemCorreu
  <2> DEFINE r == requer[p]
  <2>1. /\ tabela \in [Quadros -> LinhaT \cup {Vazio}]
        /\ LeuAsTabelas(r, tabela)
        /\ r.passo # "livre" => r.id \in Quadros /\ tabela[r.id] \in LinhaT
    BY <1>1 DEF TabelasInv, TiposDasTabelas
  <2>2. ASSUME DesativarTabela(p), Vigentes(r.hoje) # {}, VigentesEm(tabela', r.hoje) = {}
        PROVE  FALSE
    <3>1. PICK j \in VigentesEm(tabela, r.hoje) : j # r.id
      BY <2>1, <2>2 DEF DesativarTabela, LeuAsTabelas, Vigentes
    <3>2. tabela'[j] = tabela[j]
      BY <2>1, <2>2, <3>1 DEF DesativarTabela, Escrever, VigentesEm
    <3> QED
      BY <2>2, <3>1, <3>2 DEF VigentesEm
  <2>3. ASSUME AtualizarTabela(p), ~Coerente(tabela'[r.id].de, tabela'[r.id].ate)
        PROVE  FALSE
    <3>1. r.id \in Quadros /\ tabela[r.id] \in LinhaT /\ r.passo = "atualizar"
      BY <2>1, <2>3 DEF AtualizarTabela
    <3>2. tabela'[r.id] = [tabela[r.id] EXCEPT !.de = IF r.de # Vazio THEN r.de ELSE @,
                                               !.ate = IF r.ate # Vazio THEN r.ate ELSE @]
      BY <2>1, <2>3, <3>1 DEF AtualizarTabela, Escrever
    <3>3. /\ tabela'[r.id].de = IF r.de # Vazio THEN r.de ELSE tabela[r.id].de
          /\ tabela'[r.id].ate = IF r.ate # Vazio THEN r.ate ELSE tabela[r.id].ate
      BY <3>1, <3>2 DEF LinhaT
    <3> QED
      BY <2>1, <2>3, <3>1, <3>3 DEF LeuAsTabelas
  <2> QED
    BY <2>2, <2>3
<1> QED
  BY <1>1, TabelasIniciam, TabelasSeguem, PTL DEF SpecTabelas, SoCorridaFuraAsTabelas
-----------------------------------------------------------------------------
(***************************************************************************)
(* The grid.  A request holds a row from its reading or its writing to its *)
(* end, and a key from its writing; so what it read of its rows is still   *)
(* there when it commits, and what it sees has one row for each key.       *)
(***************************************************************************)

CelulaT == [chave : Chaves, valor : Valores]
LinhasT(S) == UNION {[D -> S] : D \in SUBSET IdsDaGrade}

EdicaoT == [
    tipo : {"livre", "grade", "criar", "editar", "excluir"},
    passo : {"", "ler", "travar", "apagar", "gravar", "confirmar"},
    alvo : IdsDaGrade \cup {Ausente}, escopo : SUBSET Produtos,
    pede : UNION ({[D -> Valores] : D \in SUBSET Chaves}
                  \cup {[{"valor"} -> Valores], [{"chave"} -> Chaves]}),
    vistas : LinhasT(Produtos), antes : LinhasT(CelulaT), grava : LinhasT(CelulaT \cup {Ausente})]

\* What the request r sees under an id, what it keeps others from, and the keys it touches.
Vista(r, i) == IF i \in DOMAIN r.grava THEN r.grava[i] ELSE celula[i]
Presas(r) == DOMAIN r.grava \cup DOMAIN r.antes
Toca(r, k) == \E i \in DOMAIN r.grava : \/ r.grava[i] # Ausente /\ r.grava[i].chave = k
                                        \/ celula[i] # Ausente /\ celula[i].chave = k

\* The step a request may be at, and what it may have by then.
EtapaDaEdicao(r) ==
    /\ r.passo \in {"ler", "travar", "apagar"} => r.tipo = "grade"
    /\ r.passo = "confirmar" => r.tipo # "grade"
    /\ r.tipo = "grade" =>
          /\ r.pede \in UNION {[D -> Valores] : D \in SUBSET Chaves}
          /\ \A k \in DOMAIN r.pede : k[1] \in r.escopo
          /\ \A i \in DOMAIN r.vistas : r.vistas[i] \in r.escopo
    /\ r.tipo \in {"editar", "excluir"} => r.alvo \in IdsDaGrade
    /\ r.tipo = "editar" =>
          /\ "chave" \in DOMAIN r.pede => r.pede["chave"] \in Chaves
          /\ "valor" \in DOMAIN r.pede => r.pede["valor"] \in Valores
    /\ DOMAIN r.antes \subseteq DOMAIN r.vistas
    /\ r.passo \in {"", "ler", "travar"} \/ r.tipo # "grade" => r.antes = SemLinhas
    /\ r.passo # "confirmar" /\ ~(r.tipo = "grade" /\ r.passo = "gravar") => r.grava = SemLinhas

\* What the save r read is as it read it; what it wrote is what it was asked.
SalvaCoerente(r) ==
    /\ \A i \in DOMAIN r.antes : celula[i] = r.antes[i] /\ r.antes[i].chave[1] \in r.escopo
    /\ r.tipo = "grade" /\ r.passo = "gravar" =>
          /\ \A i \in DOMAIN r.antes : r.antes[i].chave \notin DOMAIN r.pede => i \in DOMAIN r.grava
          /\ \A i \in DOMAIN r.grava :
                \/ /\ r.grava[i] = Ausente
                   /\ i \in DOMAIN r.antes /\ r.antes[i].chave \notin DOMAIN r.pede
                \/ /\ r.grava[i] # Ausente /\ r.grava[i].chave \in DOMAIN r.pede
                   /\ r.grava[i].valor = r.pede[r.grava[i].chave]
                   /\ celula[i] # Ausente => celula[i].chave = r.grava[i].chave

VistaSemRepetir(r) ==
    \A i, j \in IdsDaGrade :
        Vista(r, i) # Ausente /\ Vista(r, j) # Ausente /\ Vista(r, i).chave = Vista(r, j).chave => i = j

Apartadas(r, s) ==
    /\ Presas(r) \cap Presas(s) = {}
    /\ \A k \in Chaves : ~(Toca(r, k) /\ Toca(s, k))

GradeInv ==
    /\ celula \in [IdsDaGrade -> CelulaT \cup {Ausente}]
    /\ edicao \in [Edicoes -> EdicaoT]
    /\ \A i, j \in Gravadas : celula[i].chave = celula[j].chave => i = j
    /\ \A p \in Edicoes :
          EtapaDaEdicao(edicao[p]) /\ SalvaCoerente(edicao[p]) /\ VistaSemRepetir(edicao[p])
    /\ \A p, q \in Edicoes : p # q => Apartadas(edicao[p], edicao[q])

LEMMA LinhasTipadas ==
    ASSUME NEW S, NEW f \in LinhasT(S)
    PROVE  /\ f = [i \in DOMAIN f |-> f[i]] /\ DOMAIN f \subseteq IdsDaGrade
           /\ \A i \in DOMAIN f : f[i] \in S
BY DEF LinhasT

LEMMA LinhasSao ==
    ASSUME NEW S, NEW D \in SUBSET IdsDaGrade, NEW f \in [D -> S]
    PROVE  f \in LinhasT(S)
BY DEF LinhasT

LEMMA NenhumaLinha ==
    /\ DOMAIN SemLinhas = {}
    /\ \A S : SemLinhas \in LinhasT(S)
    /\ SemLinhas \in UNION {[D -> Valores] : D \in SUBSET Chaves}
<1>1. DOMAIN SemLinhas = {} /\ \A S : SemLinhas \in [{} -> S]
  BY DEF SemLinhas
<1>2. {} \in SUBSET IdsDaGrade /\ {} \in SUBSET Chaves
  OBVIOUS
<1> QED
  BY <1>1, <1>2 DEF LinhasT

\* A request that wrote nothing sees the table and is in nobody's way.
LEMMA QuemNaoEscreveu ==
    ASSUME GradeInv, NEW r, r.grava = SemLinhas
    PROVE  /\ VistaSemRepetir(r)
           /\ \A k : ~Toca(r, k)
           /\ Presas(r) = DOMAIN r.antes
BY NenhumaLinha DEF VistaSemRepetir, Vista, Toca, Presas, GradeInv, Gravadas

LEMMA NadaEditado ==
    ASSUME GradeInv
    PROVE  /\ SemEdicao \in EdicaoT /\ EtapaDaEdicao(SemEdicao) /\ SalvaCoerente(SemEdicao)
           /\ VistaSemRepetir(SemEdicao)
           /\ \A s : Apartadas(SemEdicao, s) /\ Apartadas(s, SemEdicao)
<1>1. /\ SemEdicao.tipo = "livre" /\ SemEdicao.passo = "" /\ SemEdicao.grava = SemLinhas
      /\ SemEdicao.antes = SemLinhas /\ SemEdicao.vistas = SemLinhas
  BY DEF SemEdicao
<1>2. SemEdicao \in EdicaoT
  BY NenhumaLinha DEF SemEdicao, EdicaoT
<1>3. EtapaDaEdicao(SemEdicao) /\ SalvaCoerente(SemEdicao)
  BY <1>1, NenhumaLinha DEF EtapaDaEdicao, SalvaCoerente
<1>4. VistaSemRepetir(SemEdicao) /\ (\A k : ~Toca(SemEdicao, k)) /\ Presas(SemEdicao) = {}
  BY <1>1, QuemNaoEscreveu, NenhumaLinha
<1>5. \A s : Apartadas(SemEdicao, s) /\ Apartadas(s, SemEdicao)
  BY <1>4 DEF Apartadas
<1> QED
  BY <1>2, <1>3, <1>4, <1>5

LEMMA ApartadasSimetrica == \A r, s : Apartadas(r, s) => Apartadas(s, r)
BY DEF Apartadas

\* A request moves on before its commit.
LEMMA SoAEdicao ==
    ASSUME GradeInv, NEW p \in Edicoes, NEW n \in EdicaoT,
           edicao' = [edicao EXCEPT ![p] = n], celula' = celula,
           EtapaDaEdicao(n), SalvaCoerente(n), VistaSemRepetir(n),
           \A q \in Edicoes : q # p => Apartadas(n, edicao[q])
    PROVE  GradeInv'
<1>1. /\ edicao' \in [Edicoes -> EdicaoT] /\ edicao'[p] = n
      /\ \A q \in Edicoes : q # p => edicao'[q] = edicao[q]
  BY DEF GradeInv
<1>2. \A q \in Edicoes :
         EtapaDaEdicao(edicao'[q]) /\ SalvaCoerente(edicao'[q]) /\ VistaSemRepetir(edicao'[q])
  BY <1>1 DEF GradeInv
<1>3. \A q, s \in Edicoes : q # s => Apartadas(edicao'[q], edicao'[s])
  BY <1>1, ApartadasSimetrica DEF GradeInv
<1>4. \A q \in Edicoes :
         /\ EtapaDaEdicao(edicao[q])' /\ SalvaCoerente(edicao[q])' /\ VistaSemRepetir(edicao[q])'
  <2> TAKE q \in Edicoes
  <2>1. EtapaDaEdicao(edicao[q])'
    BY <1>2 DEF EtapaDaEdicao
  <2>2. SalvaCoerente(edicao[q])'
    BY <1>2 DEF SalvaCoerente
  <2>3. VistaSemRepetir(edicao[q])'
    BY <1>2 DEF VistaSemRepetir, Vista
  <2> QED
    BY <2>1, <2>2, <2>3
<1>5. \A q, s \in Edicoes : q # s => Apartadas(edicao[q], edicao[s])'
  BY <1>3 DEF Apartadas, Presas, Toca
<1>6. \A i, j \in Gravadas' : celula'[i].chave = celula'[j].chave => i = j
  BY DEF GradeInv, Gravadas
<1> QED
  BY <1>1, <1>4, <1>5, <1>6 DEF GradeInv

LEMMA Tipada ==
    ASSUME NEW r \in EdicaoT
    PROVE  /\ r.grava = [i \in DOMAIN r.grava |-> r.grava[i]] /\ DOMAIN r.grava \subseteq IdsDaGrade
           /\ \A i \in DOMAIN r.grava : r.grava[i] \in CelulaT \cup {Ausente}
           /\ r.antes = [i \in DOMAIN r.antes |-> r.antes[i]] /\ DOMAIN r.antes \subseteq IdsDaGrade
           /\ \A i \in DOMAIN r.antes : r.antes[i] \in CelulaT
           /\ r.vistas = [i \in DOMAIN r.vistas |-> r.vistas[i]]
           /\ DOMAIN r.vistas \subseteq IdsDaGrade
           /\ \A i \in DOMAIN r.vistas : r.vistas[i] \in Produtos
<1>1. r.grava \in LinhasT(CelulaT \cup {Ausente}) /\ r.antes \in LinhasT(CelulaT)
      /\ r.vistas \in LinhasT(Produtos)
  BY DEF EdicaoT
<1> QED
  BY <1>1, LinhasTipadas

LEMMA NadaEmBranco == \A l \in CelulaT : l # Ausente /\ l.chave \in Chaves /\ l.valor \in Valores
BY GradeAssumption DEF CelulaT

LEMMA PrendeOuTrava ==
    \A p \in Edicoes : \A i :
        /\ Trava(p, i) <=> i \in Presas(edicao[p])
        /\ ~TravadaPorOutro(p, i) => \A q \in Edicoes : q # p => i \notin Presas(edicao[q])
BY DEF Trava, Escreve, Presas, TravadaPorOutro

\* The key of a row is touched by no request that does not hold the row.
LEMMA NinguemTocou ==
    ASSUME GradeInv, NEW q \in Edicoes, NEW i \in IdsDaGrade,
           i \notin Presas(edicao[q]), celula[i] # Ausente
    PROVE  ~Toca(edicao[q], celula[i].chave)
<1> DEFINE s == edicao[q]
<1> SUFFICES ASSUME NEW j \in DOMAIN s.grava,
                    \/ s.grava[j] # Ausente /\ s.grava[j].chave = celula[i].chave
                    \/ celula[j] # Ausente /\ celula[j].chave = celula[i].chave
             PROVE  FALSE
  BY DEF Toca
<1>1. /\ s \in EdicaoT /\ VistaSemRepetir(s)
      /\ \A a, b \in Gravadas : celula[a].chave = celula[b].chave => a = b
  BY DEF GradeInv
<1>2. j \in IdsDaGrade /\ j \in Presas(s) /\ j # i
  BY <1>1, Tipada DEF Presas
<1>3. Vista(s, i) = celula[i] /\ Vista(s, j) = s.grava[j]
  BY DEF Vista, Presas
<1> HIDE DEF s
<1>4. CASE s.grava[j] # Ausente /\ s.grava[j].chave = celula[i].chave
  BY <1>1, <1>2, <1>3, <1>4 DEF VistaSemRepetir
<1>5. CASE celula[j] # Ausente /\ celula[j].chave = celula[i].chave
  BY <1>1, <1>2, <1>5 DEF Gravadas
<1> QED
  BY <1>4, <1>5

\* A request writes a row nobody holds, under a key nobody touches and no other row has.
LEMMA GravaUmaLinha ==
    ASSUME GradeInv, NEW p \in Edicoes, NEW n \in EdicaoT, NEW i \in IdsDaGrade,
           NEW linha \in CelulaT \cup {Ausente},
           n.grava = Grava(edicao[p].grava, i, linha), n.antes = edicao[p].antes,
           ~TravadaPorOutro(p, i),
           linha # Ausente => ~ChaveDisputada(p, linha.chave) /\ ComChave(p, linha.chave) \subseteq {i}
    PROVE  /\ VistaSemRepetir(n)
           /\ \A q \in Edicoes : q # p => Apartadas(n, edicao[q])
<1> DEFINE r == edicao[p]
<1>0. /\ r \in EdicaoT /\ VistaSemRepetir(r)
      /\ \A q \in Edicoes : q # p => Apartadas(r, edicao[q])
      /\ \A q \in Edicoes : edicao[q] \in EdicaoT
  BY DEF GradeInv
<1>1. /\ DOMAIN n.grava = DOMAIN r.grava \cup {i} /\ n.grava[i] = linha
      /\ \A j \in DOMAIN r.grava : j # i => n.grava[j] = r.grava[j]
  BY DEF Grava
<1>2. /\ Vista(n, i) = linha
      /\ \A j \in IdsDaGrade : j # i => Vista(n, j) = Vista(r, j)
  BY <1>1 DEF Vista
<1>3. \A j : Linha(p, j) = Vista(r, j)
  BY DEF Linha, Escreve, Vista
<1>4. VistaSemRepetir(n)
  <2>1. \A j \in IdsDaGrade :
           linha # Ausente /\ Vista(r, j) # Ausente /\ Vista(r, j).chave = linha.chave => j = i
    BY <1>3 DEF ComChave
  <2> HIDE DEF r
  <2> QED
    BY <1>0, <1>2, <2>1 DEF VistaSemRepetir
<1>5. ASSUME NEW q \in Edicoes, q # p PROVE Apartadas(n, edicao[q])
  <2> DEFINE s == edicao[q]
  <2>1. i \notin Presas(s) /\ Apartadas(r, s) /\ s \in EdicaoT
    BY <1>0, <1>5, PrendeOuTrava
  <2>2. Presas(n) = Presas(r) \cup {i}
    BY <1>1 DEF Presas
  <2>3. ASSUME NEW k \in Chaves, Toca(n, k), Toca(s, k) PROVE FALSE
    <3>1. CASE Toca(r, k)
      BY <2>1, <2>3, <3>1 DEF Apartadas
    <3>2. CASE linha # Ausente /\ linha.chave = k
      <4>1. ~ChaveDisputada(p, k)
        BY <3>2
      <4>2. PICK j \in DOMAIN s.grava : \/ s.grava[j] # Ausente /\ s.grava[j].chave = k
                                        \/ celula[j] # Ausente /\ celula[j].chave = k
        BY <2>3 DEF Toca
      <4>3. j \in IdsDaGrade /\ Escreve(q, j)
        BY <2>1, <4>2, Tipada DEF Escreve
      <4> QED
        BY <1>5, <4>1, <4>2, <4>3 DEF ChaveDisputada
    <3>3. CASE celula[i] # Ausente /\ celula[i].chave = k
      BY <2>1, <2>3, <3>3, NinguemTocou
    <3>4. Toca(r, k) \/ (linha # Ausente /\ linha.chave = k)
          \/ (celula[i] # Ausente /\ celula[i].chave = k)
      BY <1>1, <2>3 DEF Toca
    <3> QED
      BY <3>1, <3>2, <3>3, <3>4
  <2> QED
    BY <2>1, <2>2, <2>3 DEF Apartadas
<1> QED
  BY <1>4, <1>5

LEMMA IdNovoELivre ==
    ASSUME GradeInv, NEW p \in Edicoes, NEW i \in IdsDaGrade, IdNovo(i)
    PROVE  ~TravadaPorOutro(p, i) /\ celula[i] = Ausente
BY DEF IdNovo, TravadaPorOutro, Trava, Escreve, GradeInv, EtapaDaEdicao

LEMMA GravaTipada ==
    ASSUME NEW r \in EdicaoT, NEW i \in IdsDaGrade, NEW linha \in CelulaT \cup {Ausente}
    PROVE  Grava(r.grava, i, linha) \in LinhasT(CelulaT \cup {Ausente})
<1> DEFINE f == Grava(r.grava, i, linha)
<1>1. f \in [DOMAIN r.grava \cup {i} -> CelulaT \cup {Ausente}]
  BY Tipada DEF Grava
<1>2. DOMAIN r.grava \cup {i} \in SUBSET IdsDaGrade
  BY Tipada
<1> QED
  BY <1>1, <1>2, LinhasSao

\* A request goes back to nothing, or its client or its transaction falls.
LEMMA AoTerminarEdicao ==
    ASSUME GradeInv, NEW p \in Edicoes, TerminarEdicao(p), UNCHANGED celula
    PROVE  GradeInv'
BY SoAEdicao, NadaEditado DEF TerminarEdicao

\* The commit: what it saw is what is now there.
LEMMA AoConfirmarEdicao ==
    ASSUME GradeInv, NEW p \in Edicoes, ConfirmarEdicao(p)
    PROVE  GradeInv'
<1> DEFINE r == edicao[p]
<1>1. /\ celula \in [IdsDaGrade -> CelulaT \cup {Ausente}] /\ edicao \in [Edicoes -> EdicaoT]
      /\ \A i, j \in Gravadas : celula[i].chave = celula[j].chave => i = j
      /\ r \in EdicaoT /\ VistaSemRepetir(r)
      /\ \A q \in Edicoes :
            /\ EtapaDaEdicao(edicao[q]) /\ SalvaCoerente(edicao[q]) /\ VistaSemRepetir(edicao[q])
            /\ edicao[q] \in EdicaoT
      /\ \A q, s \in Edicoes : q # s => Apartadas(edicao[q], edicao[s])
  BY DEF GradeInv
<1>2. /\ celula' = [i \in IdsDaGrade |-> Vista(r, i)]
      /\ edicao' = [edicao EXCEPT ![p] = SemEdicao]
  BY DEF ConfirmarEdicao, TerminarEdicao, Linha, Vista, Escreve
<1>3. celula' \in [IdsDaGrade -> CelulaT \cup {Ausente}]
  BY <1>1, <1>2, Tipada DEF Vista
<1>4. /\ edicao' \in [Edicoes -> EdicaoT] /\ edicao'[p] = SemEdicao
      /\ \A q \in Edicoes : q # p => edicao'[q] = edicao[q]
  BY <1>1, <1>2, NadaEditado
<1>5. \A i, j \in Gravadas' : celula'[i].chave = celula'[j].chave => i = j
  BY <1>1, <1>2 DEF Gravadas, VistaSemRepetir
<1>6. \A i \in IdsDaGrade : i \notin DOMAIN r.grava => celula'[i] = celula[i]
  BY <1>2 DEF Vista
<1>7. ASSUME NEW q \in Edicoes, q # p, NEW i \in Presas(edicao[q])
      PROVE  celula'[i] = celula[i]
  <2>1. i \in IdsDaGrade /\ i \notin Presas(r)
    BY <1>1, <1>7, Tipada DEF Presas, Apartadas
  <2> QED
    BY <1>6, <2>1 DEF Presas
<1>8. ASSUME NEW q \in Edicoes, q # p PROVE SalvaCoerente(edicao[q])'
  <2> DEFINE s == edicao[q]
  <2>1. SalvaCoerente(s) /\ edicao'[q] = s
    BY <1>1, <1>4, <1>8
  <2>2. \A i \in DOMAIN s.antes \cup DOMAIN s.grava : celula'[i] = celula[i]
    BY <1>7, <1>8 DEF Presas
  <2> HIDE DEF s
  <2> QED
    BY <2>1, <2>2 DEF SalvaCoerente
<1>9. ASSUME NEW q \in Edicoes, q # p PROVE VistaSemRepetir(edicao[q])'
  <2> DEFINE s == edicao[q]
             w(i) == IF i \in DOMAIN s.grava THEN s.grava[i] ELSE celula'[i]
  <2>0. edicao'[q] = s /\ VistaSemRepetir(s) /\ Apartadas(r, s) /\ s \in EdicaoT
    BY <1>1, <1>4, <1>9
  <2>1. \A i \in IdsDaGrade : w(i) = IF i \in DOMAIN r.grava THEN Vista(r, i) ELSE Vista(s, i)
    <3>1. \A i \in DOMAIN s.grava : i \notin DOMAIN r.grava
      BY <2>0 DEF Apartadas, Presas
    <3> QED
      BY <1>2, <3>1 DEF Vista
  <2>2. ASSUME NEW i \in IdsDaGrade, NEW j \in IdsDaGrade, i \in DOMAIN r.grava, j \notin DOMAIN r.grava,
               w(i) # Ausente, w(j) # Ausente, w(i).chave = w(j).chave
        PROVE  FALSE
    <3>1. w(i) = r.grava[i] /\ w(i) \in CelulaT
      BY <1>1, <2>1, <2>2, Tipada DEF Vista
    <3>2. w(i).chave \in Chaves /\ Toca(r, w(i).chave)
      BY <2>2, <3>1, NadaEmBranco DEF Toca
    <3>3. CASE j \in DOMAIN s.grava
      <4>1. Toca(s, w(j).chave)
        BY <2>2, <3>3 DEF Toca
      <4> QED
        BY <2>0, <2>2, <3>2, <4>1 DEF Apartadas
    <3>4. CASE j \notin DOMAIN s.grava
      <4>1. w(j) = Vista(r, j) /\ w(i) = Vista(r, i)
        BY <1>6, <2>1, <2>2, <3>4 DEF Vista
      <4> QED
        BY <1>1, <2>2, <4>1 DEF VistaSemRepetir
    <3> QED
      BY <3>3, <3>4
  <2>3. ASSUME NEW i \in IdsDaGrade, NEW j \in IdsDaGrade,
               w(i) # Ausente, w(j) # Ausente, w(i).chave = w(j).chave
        PROVE  i = j
    <3>1. CASE i \in DOMAIN r.grava /\ j \in DOMAIN r.grava
      BY <1>1, <2>1, <2>3, <3>1 DEF VistaSemRepetir
    <3>2. CASE i \notin DOMAIN r.grava /\ j \notin DOMAIN r.grava
      BY <2>0, <2>1, <2>3, <3>2 DEF VistaSemRepetir
    <3> HIDE DEF w
    <3> QED
      BY <2>2, <2>3, <3>1, <3>2
  <2> QED
    BY <2>0, <2>3 DEF VistaSemRepetir, Vista
<1>10. ASSUME NEW q \in Edicoes, NEW u \in Edicoes, q # u, q # p, u # p
       PROVE  Apartadas(edicao[q], edicao[u])'
  <2> DEFINE s == edicao[q] t == edicao[u]
  <2>1. edicao'[q] = s /\ edicao'[u] = t /\ Apartadas(s, t)
    BY <1>1, <1>4, <1>10
  <2>2. \A i \in DOMAIN s.grava \cup DOMAIN t.grava : celula'[i] = celula[i]
    BY <1>7, <1>10 DEF Presas
  <2> HIDE DEF s, t
  <2> QED
    BY <2>1, <2>2 DEF Apartadas, Presas, Toca
<1>11. /\ EtapaDaEdicao(SemEdicao)
       /\ SemEdicao.grava = SemLinhas /\ SemEdicao.antes = SemLinhas /\ SemEdicao.tipo = "livre"
  BY NadaEditado DEF SemEdicao
<1>12. /\ SalvaCoerente(edicao[p])' /\ VistaSemRepetir(edicao[p])'
       /\ \A q \in Edicoes : Apartadas(edicao[p], edicao[q])' /\ Apartadas(edicao[q], edicao[p])'
  <2>1. SalvaCoerente(edicao[p])'
    BY <1>4, <1>11, NenhumaLinha DEF SalvaCoerente
  <2>2. VistaSemRepetir(edicao[p])'
    BY <1>4, <1>5, <1>11, NenhumaLinha DEF VistaSemRepetir, Vista, Gravadas
  <2>3. \A q \in Edicoes : Apartadas(edicao[p], edicao[q])' /\ Apartadas(edicao[q], edicao[p])'
    BY <1>4, <1>11, NenhumaLinha DEF Apartadas, Presas, Toca
  <2> QED
    BY <2>1, <2>2, <2>3
<1>13. \A q \in Edicoes : EtapaDaEdicao(edicao[q])'
  BY <1>1, <1>4, <1>11 DEF EtapaDaEdicao
<1>14. \A q \in Edicoes : SalvaCoerente(edicao[q])' /\ VistaSemRepetir(edicao[q])'
  BY <1>8, <1>9, <1>12
<1>15. \A q, s \in Edicoes : q # s => Apartadas(edicao[q], edicao[s])'
  BY <1>10, <1>12
<1> QED
  BY <1>3, <1>4, <1>5, <1>13, <1>14, <1>15 DEF GradeInv

LEMMA GradeInicia == InitGrade => GradeInv
<1> SUFFICES ASSUME InitGrade PROVE GradeInv
  OBVIOUS
<1>1. PICK i0 \in IdsDaGrade, k \in Chaves, v \in Valores :
         celula = [j \in IdsDaGrade |-> IF j = i0 THEN [chave |-> k, valor |-> v] ELSE Ausente]
  BY DEF InitGrade
<1>2. [chave |-> k, valor |-> v] \in CelulaT
  BY DEF CelulaT
<1>3. /\ celula \in [IdsDaGrade -> CelulaT \cup {Ausente}]
      /\ \A i, j \in Gravadas : i = j
  BY <1>1, <1>2 DEF Gravadas
<1>4. /\ SemEdicao.tipo = "livre" /\ SemEdicao.passo = "" /\ SemEdicao.grava = SemLinhas
      /\ SemEdicao.antes = SemLinhas /\ SemEdicao.vistas = SemLinhas
  BY DEF SemEdicao
<1>5. SemEdicao \in EdicaoT
  BY NenhumaLinha DEF SemEdicao, EdicaoT
<1>6. edicao \in [Edicoes -> EdicaoT] /\ \A p \in Edicoes : edicao[p] = SemEdicao
  BY <1>5 DEF InitGrade
<1>7. EtapaDaEdicao(SemEdicao) /\ SalvaCoerente(SemEdicao)
  BY <1>4, NenhumaLinha DEF EtapaDaEdicao, SalvaCoerente
<1>8. VistaSemRepetir(SemEdicao)
  BY <1>3, <1>4, NenhumaLinha DEF VistaSemRepetir, Vista, Gravadas
<1>9. Apartadas(SemEdicao, SemEdicao)
  BY <1>4, NenhumaLinha DEF Apartadas, Presas, Toca
<1> QED
  BY <1>3, <1>6, <1>7, <1>8, <1>9 DEF GradeInv

\* A request that holds no row moves on.
LEMMA SoLeAGrade ==
    ASSUME GradeInv, NEW p \in Edicoes, NEW n \in EdicaoT,
           edicao' = [edicao EXCEPT ![p] = n], celula' = celula,
           EtapaDaEdicao(n), n.grava = SemLinhas, n.antes = SemLinhas,
           ~(n.tipo = "grade" /\ n.passo = "gravar")
    PROVE  GradeInv'
<1>1. SalvaCoerente(n)
  BY NenhumaLinha DEF SalvaCoerente
<1>2. VistaSemRepetir(n) /\ Presas(n) = {} /\ \A k : ~Toca(n, k)
  BY QuemNaoEscreveu, NenhumaLinha
<1>3. \A q \in Edicoes : Apartadas(n, edicao[q])
  BY <1>2 DEF Apartadas
<1> QED
  BY <1>1, <1>2, <1>3, SoAEdicao

LEMMA CamposLivres ==
    /\ SemEdicao.tipo = "livre" /\ SemEdicao.passo = "" /\ SemEdicao.alvo = Ausente
    /\ SemEdicao.escopo = {} /\ SemEdicao.pede = SemLinhas /\ SemEdicao.vistas = SemLinhas
    /\ SemEdicao.antes = SemLinhas /\ SemEdicao.grava = SemLinhas
BY DEF SemEdicao

LEMMA AoComecarGrade ==
    ASSUME GradeInv, NEW p \in Edicoes, NEW escopo \in SUBSET Produtos,
           NEW chaves \in SUBSET Chaves, ComecarGrade(p, escopo, chaves)
    PROVE  GradeInv'
<1>1. PICK pede \in [chaves -> Valores] :
         edicao' = [edicao EXCEPT ![p] = [SemEdicao EXCEPT
              !.tipo = "grade", !.passo = "ler", !.escopo = escopo, !.pede = pede]]
  BY DEF ComecarGrade
<1> DEFINE n == [SemEdicao EXCEPT !.tipo = "grade", !.passo = "ler", !.escopo = escopo, !.pede = pede]
<1>2. pede \in UNION {[D -> Valores] : D \in SUBSET Chaves} /\ DOMAIN pede = chaves
  OBVIOUS
<1>3. /\ n.tipo = "grade" /\ n.passo = "ler" /\ n.alvo = Ausente /\ n.escopo = escopo
      /\ n.pede = pede /\ n.vistas = SemLinhas /\ n.antes = SemLinhas /\ n.grava = SemLinhas
  BY DEF SemEdicao
<1>4. n \in EdicaoT
  BY <1>2, NenhumaLinha DEF SemEdicao, EdicaoT
<1>5. celula' = celula /\ \A k \in chaves : k[1] \in escopo
  BY DEF ComecarGrade
<1> HIDE DEF n
<1>6. EtapaDaEdicao(n)
  BY <1>2, <1>3, <1>5, NenhumaLinha DEF EtapaDaEdicao
<1>7. edicao' = [edicao EXCEPT ![p] = n]
  BY <1>1 DEF n
<1> QED
  BY <1>3, <1>4, <1>5, <1>6, <1>7, SoLeAGrade

LEMMA AoVerEscopo ==
    ASSUME GradeInv, NEW p \in Edicoes, VerEscopo(p)
    PROVE  GradeInv'
<1> DEFINE r == edicao[p]
           v == [i \in DoEscopo(p) |-> celula[i].chave[1]]
           n == [r EXCEPT !.passo = "travar", !.vistas = v]
<1>1. /\ celula \in [IdsDaGrade -> CelulaT \cup {Ausente}] /\ edicao \in [Edicoes -> EdicaoT]
      /\ r \in EdicaoT /\ EtapaDaEdicao(r)
  BY DEF GradeInv
<1>2. /\ r.passo = "ler" /\ r.tipo = "grade" /\ r.antes = SemLinhas /\ r.grava = SemLinhas
      /\ edicao' = [edicao EXCEPT ![p] = n] /\ celula' = celula
  BY <1>1 DEF VerEscopo, EtapaDaEdicao
<1>3. ASSUME NEW i \in DoEscopo(p) PROVE celula[i].chave[1] \in Produtos /\ celula[i].chave[1] \in r.escopo
  BY <1>1, GradeAssumption, NadaEmBranco DEF DoEscopo, Gravadas
<1>4. v \in LinhasT(Produtos) /\ DOMAIN v = DoEscopo(p) /\ \A i \in DOMAIN v : v[i] \in r.escopo
  <2>1. DoEscopo(p) \in SUBSET IdsDaGrade
    BY DEF DoEscopo, Gravadas
  <2>2. v \in [DoEscopo(p) -> Produtos]
    BY <1>3
  <2> QED
    BY <1>3, <2>1, <2>2, LinhasSao
<1> HIDE DEF r, v
<1>5. /\ n \in EdicaoT /\ n.tipo = r.tipo /\ n.passo = "travar" /\ n.escopo = r.escopo
      /\ n.pede = r.pede /\ n.vistas = v /\ n.antes = r.antes /\ n.grava = r.grava
  BY <1>1, <1>4 DEF EdicaoT
<1> HIDE DEF n
<1>6. EtapaDaEdicao(n)
  BY <1>1, <1>2, <1>4, <1>5, NenhumaLinha DEF EtapaDaEdicao
<1> QED
  BY <1>2, <1>5, <1>6, SoLeAGrade

LEMMA AoTravarEscopo ==
    ASSUME GradeInv, NEW p \in Edicoes, CelulasDoEscopo(p)
    PROVE  GradeInv'
<1> DEFINE r == edicao[p]
           ficam == {i \in DOMAIN r.vistas \cap Gravadas : celula[i].chave[1] = r.vistas[i]}
           a == [i \in ficam |-> celula[i]]
           n == [r EXCEPT !.passo = "apagar", !.antes = a]
<1>1. /\ celula \in [IdsDaGrade -> CelulaT \cup {Ausente}] /\ edicao \in [Edicoes -> EdicaoT]
      /\ r \in EdicaoT /\ EtapaDaEdicao(r)
  BY DEF GradeInv
<1>2. /\ r.passo = "travar" /\ r.tipo = "grade" /\ r.grava = SemLinhas
      /\ edicao' = [edicao EXCEPT ![p] = n] /\ celula' = celula
      /\ \A i \in DOMAIN r.vistas : ~TravadaPorOutro(p, i)
  BY <1>1 DEF CelulasDoEscopo, EtapaDaEdicao
<1>3. a \in LinhasT(CelulaT) /\ DOMAIN a = ficam
  <2>1. ficam \in SUBSET IdsDaGrade
    BY DEF Gravadas
  <2>2. a \in [ficam -> CelulaT]
    BY <1>1 DEF Gravadas
  <2> QED
    BY <2>1, <2>2, LinhasSao
<1>4. \A i \in DOMAIN a : /\ i \in DOMAIN r.vistas /\ celula[i] = a[i] /\ a[i].chave[1] = r.vistas[i]
  BY <1>3
<1> HIDE DEF r, a
<1>5. /\ n \in EdicaoT /\ n.tipo = r.tipo /\ n.passo = "apagar" /\ n.escopo = r.escopo
      /\ n.pede = r.pede /\ n.vistas = r.vistas /\ n.antes = a /\ n.grava = r.grava
  BY <1>1, <1>3 DEF EdicaoT
<1>6. edicao' = [edicao EXCEPT ![p] = n]
  BY <1>2
<1> HIDE DEF n
<1>7. EtapaDaEdicao(n)
  BY <1>1, <1>2, <1>4, <1>5 DEF EtapaDaEdicao
<1>8. SalvaCoerente(n)
  BY <1>1, <1>2, <1>4, <1>5 DEF SalvaCoerente, EtapaDaEdicao
<1>9. VistaSemRepetir(n) /\ (\A k : ~Toca(n, k)) /\ Presas(n) = DOMAIN a
  BY <1>2, <1>5, QuemNaoEscreveu
<1>10. \A q \in Edicoes : q # p => Apartadas(n, edicao[q])
  BY <1>2, <1>4, <1>9, PrendeOuTrava DEF Apartadas
<1> QED
  BY <1>2, <1>5, <1>6, <1>7, <1>8, <1>9, <1>10, SoAEdicao

LEMMA AoApagarForaDaGrade ==
    ASSUME GradeInv, NEW p \in Edicoes, ApagarForaDaGrade(p)
    PROVE  GradeInv'
<1> DEFINE r == edicao[p]
           remover == {i \in DOMAIN r.antes : r.antes[i].chave \notin DOMAIN r.pede}
           g == [i \in remover |-> Ausente]
           n == [r EXCEPT !.passo = "gravar", !.grava = g]
<1>1. /\ celula \in [IdsDaGrade -> CelulaT \cup {Ausente}] /\ edicao \in [Edicoes -> EdicaoT]
      /\ r \in EdicaoT /\ EtapaDaEdicao(r) /\ SalvaCoerente(r)
      /\ \A i, j \in Gravadas : celula[i].chave = celula[j].chave => i = j
      /\ \A q \in Edicoes : q # p => Apartadas(r, edicao[q])
  BY DEF GradeInv
<1>2. /\ r.passo = "apagar" /\ r.tipo = "grade" /\ r.grava = SemLinhas
      /\ edicao' = [edicao EXCEPT ![p] = n] /\ celula' = celula
  BY <1>1 DEF ApagarForaDaGrade, EtapaDaEdicao
<1>3. g \in LinhasT(CelulaT \cup {Ausente}) /\ DOMAIN g = remover
  <2>1. remover \in SUBSET IdsDaGrade
    BY <1>1, Tipada
  <2>2. g \in [remover -> CelulaT \cup {Ausente}]
    OBVIOUS
  <2> QED
    BY <2>1, <2>2, LinhasSao
<1>4. /\ \A i \in DOMAIN g : g[i] = Ausente /\ i \in DOMAIN r.antes /\ r.antes[i].chave \notin DOMAIN r.pede
      /\ \A i \in DOMAIN r.antes : r.antes[i].chave \notin DOMAIN r.pede => i \in DOMAIN g
  BY <1>3
<1> HIDE DEF r, g
<1>5. /\ n \in EdicaoT /\ n.tipo = r.tipo /\ n.passo = "gravar" /\ n.escopo = r.escopo
      /\ n.pede = r.pede /\ n.vistas = r.vistas /\ n.antes = r.antes /\ n.grava = g
  BY <1>1, <1>3 DEF EdicaoT
<1> HIDE DEF n
<1>6. EtapaDaEdicao(n)
  BY <1>1, <1>2, <1>5 DEF EtapaDaEdicao
<1>7. SalvaCoerente(n)
  BY <1>1, <1>2, <1>4, <1>5 DEF SalvaCoerente
<1>8. VistaSemRepetir(n)
  BY <1>1, <1>4, <1>5 DEF VistaSemRepetir, Vista, Gravadas
<1>9. ASSUME NEW q \in Edicoes, q # p PROVE Apartadas(n, edicao[q])
  <2>1. Presas(n) \subseteq Presas(r)
    BY <1>4, <1>5 DEF Presas
  <2>2. ASSUME NEW k \in Chaves, Toca(n, k), Toca(edicao[q], k) PROVE FALSE
    <3>1. PICK i \in DOMAIN g : celula[i] # Ausente /\ celula[i].chave = k
      BY <1>4, <1>5, <2>2 DEF Toca
    <3>2. i \in IdsDaGrade /\ i \notin Presas(edicao[q])
      BY <1>1, <1>4, <1>9, <3>1, Tipada DEF Apartadas, Presas
    <3> QED
      BY <2>2, <3>1, <3>2, NinguemTocou
  <2> QED
    BY <1>1, <1>9, <2>1, <2>2 DEF Apartadas
<1> QED
  BY <1>2, <1>5, <1>6, <1>7, <1>8, <1>9, SoAEdicao DEF n

LEMMA AoGravarCelula ==
    ASSUME GradeInv, NEW p \in Edicoes, NEW k \in Chaves, GravarCelula(p, k)
    PROVE  GradeInv'
<1> DEFINE r == edicao[p]
<1>1. /\ celula \in [IdsDaGrade -> CelulaT \cup {Ausente}] /\ edicao \in [Edicoes -> EdicaoT]
      /\ r \in EdicaoT /\ EtapaDaEdicao(r) /\ SalvaCoerente(r) /\ VistaSemRepetir(r)
  BY DEF GradeInv
<1>2. PICK i \in IdsDaGrade :
         /\ IF ComChave(p, k) = {} THEN IdNovo(i) ELSE i \in ComChave(p, k)
         /\ edicao' = [edicao EXCEPT ![p].grava = Grava(@, i, [chave |-> k, valor |-> r.pede[k]])]
  BY DEF GravarCelula
<1> DEFINE linha == [chave |-> k, valor |-> r.pede[k]]
           n == [r EXCEPT !.grava = Grava(r.grava, i, linha)]
<1>3. /\ r.passo = "gravar" /\ r.tipo = "grade" /\ k \in DOMAIN r.pede /\ celula' = celula
      /\ \A j \in ComChave(p, k) : ~Escreve(p, j) /\ ~TravadaPorOutro(p, j)
      /\ ~ChaveDisputada(p, k)
  BY DEF GravarCelula
<1>4. linha \in CelulaT /\ linha # Ausente /\ linha.chave = k /\ linha.valor = r.pede[k]
  <2>1. r.pede[k] \in Valores
    BY <1>1, <1>3 DEF EtapaDaEdicao
  <2> QED
    BY <2>1, NadaEmBranco DEF CelulaT
<1>5. /\ ~TravadaPorOutro(p, i) /\ ComChave(p, k) \subseteq {i}
      /\ i \notin DOMAIN r.grava
      /\ celula[i] # Ausente => celula[i].chave = k
  <2>1. CASE ComChave(p, k) = {}
    BY <1>2, <2>1, IdNovoELivre DEF IdNovo
  <2>2. CASE ComChave(p, k) # {}
    <3>1. i \in ComChave(p, k)
      BY <1>2, <2>2
    <3>2. \A j \in ComChave(p, k) : j = i
      BY <1>1, <3>1 DEF ComChave, VistaSemRepetir, Vista, Linha, Escreve
    <3> QED
      BY <1>3, <3>1, <3>2 DEF ComChave, Linha, Escreve
  <2> QED
    BY <2>1, <2>2
<1>6. edicao' = [edicao EXCEPT ![p] = n]
  BY <1>1, <1>2
<1>7. Grava(r.grava, i, linha) \in LinhasT(CelulaT \cup {Ausente})
  BY <1>1, <1>4, GravaTipada
<1> HIDE DEF r, linha
<1>8. /\ n \in EdicaoT /\ n.tipo = r.tipo /\ n.passo = r.passo /\ n.escopo = r.escopo /\ n.alvo = r.alvo
      /\ n.pede = r.pede /\ n.vistas = r.vistas /\ n.antes = r.antes
      /\ n.grava = Grava(r.grava, i, linha)
  BY <1>1, <1>7 DEF EdicaoT
<1> HIDE DEF n
<1>9. EtapaDaEdicao(n)
  BY <1>1, <1>3, <1>8 DEF EtapaDaEdicao
<1>10. SalvaCoerente(n)
  <2>1. /\ DOMAIN n.grava = DOMAIN r.grava \cup {i} /\ n.grava[i] = linha
        /\ \A j \in DOMAIN r.grava : n.grava[j] = r.grava[j]
    BY <1>5, <1>8 DEF Grava
  <2>2. \A j \in DOMAIN n.grava :
           \/ /\ n.grava[j] = Ausente
              /\ j \in DOMAIN n.antes /\ n.antes[j].chave \notin DOMAIN n.pede
           \/ /\ n.grava[j] # Ausente /\ n.grava[j].chave \in DOMAIN n.pede
              /\ n.grava[j].valor = n.pede[n.grava[j].chave]
              /\ celula[j] # Ausente => celula[j].chave = n.grava[j].chave
    BY <1>1, <1>3, <1>4, <1>5, <1>8, <2>1 DEF SalvaCoerente
  <2> QED
    BY <1>1, <1>3, <1>8, <2>1, <2>2 DEF SalvaCoerente
<1>11. VistaSemRepetir(n) /\ \A q \in Edicoes : q # p => Apartadas(n, edicao[q])
  BY <1>3, <1>4, <1>5, <1>8, GravaUmaLinha DEF r
<1> QED
  BY <1>3, <1>6, <1>8, <1>9, <1>10, <1>11, SoAEdicao

LEMMA AoCriarTarifa ==
    ASSUME GradeInv, NEW p \in Edicoes, NEW k \in Chaves, NEW v \in Valores, CriarTarifa(p, k, v)
    PROVE  GradeInv'
<1> DEFINE linha == [chave |-> k, valor |-> v]
<1>1. PICK i \in IdsDaGrade :
         /\ IdNovo(i)
         /\ edicao' = [edicao EXCEPT ![p] = [SemEdicao EXCEPT
                 !.tipo = "criar", !.passo = "confirmar", !.grava = Grava(SemLinhas, i, linha)]]
  BY DEF CriarTarifa
<1> DEFINE n == [SemEdicao EXCEPT !.tipo = "criar", !.passo = "confirmar",
                                  !.grava = Grava(SemLinhas, i, linha)]
<1>2. /\ edicao[p] = SemEdicao /\ celula' = celula
      /\ ~ChaveDisputada(p, k) /\ ComChave(p, k) = {}
  BY DEF CriarTarifa
<1>3. linha \in CelulaT /\ linha # Ausente /\ linha.chave = k
  BY NadaEmBranco DEF CelulaT
<1>4. Grava(SemLinhas, i, linha) \in LinhasT(CelulaT \cup {Ausente})
  BY <1>3, NadaEditado, CamposLivres, GravaTipada
<1> HIDE DEF linha
<1>5. /\ n \in EdicaoT /\ n.tipo = "criar" /\ n.passo = "confirmar"
      /\ n.vistas = SemLinhas /\ n.antes = SemLinhas /\ n.grava = Grava(SemLinhas, i, linha)
  BY <1>4, NenhumaLinha DEF SemEdicao, EdicaoT
<1>6. edicao' = [edicao EXCEPT ![p] = n]
  BY <1>1
<1> HIDE DEF n
<1>7. EtapaDaEdicao(n) /\ SalvaCoerente(n)
  BY <1>5, NenhumaLinha DEF EtapaDaEdicao, SalvaCoerente
<1>8. VistaSemRepetir(n) /\ \A q \in Edicoes : q # p => Apartadas(n, edicao[q])
  BY <1>1, <1>2, <1>3, <1>5, CamposLivres, IdNovoELivre, GravaUmaLinha
<1> QED
  BY <1>2, <1>5, <1>6, <1>7, <1>8, SoAEdicao

\* A single rate: read first, written later over what is there then.
LEMMA AoLerTarifa ==
    ASSUME GradeInv, NEW p \in Edicoes, NEW i \in IdsDaGrade, NEW tipo \in {"editar", "excluir"},
           NEW pede,
           \/ pede \in [{"valor"} -> Valores] \/ pede \in [{"chave"} -> Chaves]
           \/ tipo = "excluir" /\ pede = SemLinhas,
           LerTarifa(p, tipo, i, pede)
    PROVE  GradeInv'
<1> DEFINE n == [SemEdicao EXCEPT !.tipo = tipo, !.passo = "gravar", !.alvo = i, !.pede = pede]
<1>1. pede \in UNION ({[D -> Valores] : D \in SUBSET Chaves}
                      \cup {[{"valor"} -> Valores], [{"chave"} -> Chaves]})
  BY NenhumaLinha
<1>2. tipo = "editar" => /\ "chave" \in DOMAIN pede => pede["chave"] \in Chaves
                         /\ "valor" \in DOMAIN pede => pede["valor"] \in Valores
  OBVIOUS
<1>3. /\ n \in EdicaoT /\ n.tipo = tipo /\ n.passo = "gravar" /\ n.alvo = i /\ n.pede = pede
      /\ n.vistas = SemLinhas /\ n.antes = SemLinhas /\ n.grava = SemLinhas
  BY <1>1, NenhumaLinha DEF SemEdicao, EdicaoT
<1>4. edicao' = [edicao EXCEPT ![p] = n] /\ celula' = celula
  BY DEF LerTarifa
<1> HIDE DEF n
<1>5. EtapaDaEdicao(n)
  BY <1>2, <1>3, NenhumaLinha DEF EtapaDaEdicao
<1> QED
  BY <1>3, <1>4, <1>5, SoLeAGrade

\* The row of a single rate is written, whatever is written there.
LEMMA AoGravarTarifa ==
    ASSUME GradeInv, NEW p \in Edicoes, NEW linha \in CelulaT \cup {Ausente},
           edicao[p].tipo \in {"editar", "excluir"}, edicao[p].passo = "gravar",
           ~TravadaPorOutro(p, edicao[p].alvo), celula' = celula,
           linha # Ausente =>
               ~ChaveDisputada(p, linha.chave) /\ ComChave(p, linha.chave) \subseteq {edicao[p].alvo},
           edicao' = [edicao EXCEPT ![p].passo = "confirmar",
                                    ![p].grava = Grava(SemLinhas, edicao[p].alvo, linha)]
    PROVE  GradeInv'
<1> DEFINE r == edicao[p]
           n == [r EXCEPT !.passo = "confirmar", !.grava = Grava(SemLinhas, r.alvo, linha)]
<1>1. edicao \in [Edicoes -> EdicaoT] /\ r \in EdicaoT /\ EtapaDaEdicao(r)
  BY DEF GradeInv
<1>2. r.alvo \in IdsDaGrade /\ r.grava = SemLinhas /\ r.antes = SemLinhas
  BY <1>1 DEF EtapaDaEdicao
<1>3. edicao' = [edicao EXCEPT ![p] = n]
  BY <1>1
<1>4. Grava(SemLinhas, r.alvo, linha) \in LinhasT(CelulaT \cup {Ausente})
  BY <1>1, <1>2, GravaTipada
<1>5. r.tipo \in {"editar", "excluir"} /\ r.passo = "gravar"
  OBVIOUS
<1> HIDE DEF r
<1>6. /\ n \in EdicaoT /\ n.tipo = r.tipo /\ n.passo = "confirmar" /\ n.escopo = r.escopo
      /\ n.alvo = r.alvo /\ n.pede = r.pede /\ n.vistas = r.vistas /\ n.antes = r.antes
      /\ n.grava = Grava(r.grava, r.alvo, linha)
  BY <1>1, <1>2, <1>4 DEF EdicaoT
<1> HIDE DEF n
<1>7. EtapaDaEdicao(n) /\ SalvaCoerente(n)
  BY <1>1, <1>2, <1>5, <1>6, NenhumaLinha DEF EtapaDaEdicao, SalvaCoerente
<1>8. VistaSemRepetir(n) /\ \A q \in Edicoes : q # p => Apartadas(n, edicao[q])
  BY <1>2, <1>6, GravaUmaLinha DEF r
<1> QED
  BY <1>3, <1>6, <1>7, <1>8, SoAEdicao

LEMMA GradeSegue == GradeInv /\ [NextGrade]_varsGrade => GradeInv'
<1> SUFFICES ASSUME GradeInv, [NextGrade]_varsGrade PROVE GradeInv'
  OBVIOUS
<1>1. CASE UNCHANGED varsGrade
  <2>1. celula' = celula /\ edicao' = edicao
    BY <1>1 DEF varsGrade
  <2>2. ASSUME NEW q \in Edicoes
        PROVE  EtapaDaEdicao(edicao[q])' /\ SalvaCoerente(edicao[q])' /\ VistaSemRepetir(edicao[q])'
    <3>1. EtapaDaEdicao(edicao[q]) /\ SalvaCoerente(edicao[q]) /\ VistaSemRepetir(edicao[q])
      BY DEF GradeInv
    <3>2. EtapaDaEdicao(edicao[q])'
      BY <2>1, <3>1 DEF EtapaDaEdicao
    <3>3. SalvaCoerente(edicao[q])'
      BY <2>1, <3>1 DEF SalvaCoerente
    <3>4. VistaSemRepetir(edicao[q])'
      BY <2>1, <3>1 DEF VistaSemRepetir, Vista
    <3> QED
      BY <3>2, <3>3, <3>4
  <2>3. ASSUME NEW q \in Edicoes, NEW s \in Edicoes, q # s
        PROVE  Apartadas(edicao[q], edicao[s])'
    <3>1. Apartadas(edicao[q], edicao[s])
      BY <2>3 DEF GradeInv
    <3> QED
      BY <2>1, <3>1 DEF Apartadas, Presas, Toca
  <2> QED
    BY <2>1, <2>2, <2>3 DEF GradeInv, Gravadas
<1>2. CASE NextGrade
  <2>1. PICK p \in Edicoes : PassoGrade(p)
    BY <1>2 DEF NextGrade
  <2> DEFINE r == edicao[p]
  <2>2. /\ celula \in [IdsDaGrade -> CelulaT \cup {Ausente}]
        /\ r \in EdicaoT /\ EtapaDaEdicao(r)
    BY DEF GradeInv
  <2>3. ASSUME NEW i \in IdsDaGrade,
               \/ \E v \in Valores : LerTarifa(p, "editar", i, [valor |-> v])
               \/ \E k \in Chaves : LerTarifa(p, "editar", i, [chave |-> k])
               \/ LerTarifa(p, "excluir", i, SemLinhas)
        PROVE  GradeInv'
    <3>1. \A v \in Valores : [valor |-> v] \in [{"valor"} -> Valores]
      OBVIOUS
    <3>2. \A k \in Chaves : [chave |-> k] \in [{"chave"} -> Chaves]
      OBVIOUS
    <3> QED
      BY <2>3, <3>1, <3>2, AoLerTarifa
  <2>4. CASE AtualizarTarifa(p)
    <3> DEFINE nova == [celula[r.alvo] EXCEPT
                    !.chave = IF "chave" \in DOMAIN r.pede THEN r.pede["chave"] ELSE @,
                    !.valor = IF "valor" \in DOMAIN r.pede THEN r.pede["valor"] ELSE @]
    <3>1. r.tipo = "editar" /\ r.passo = "gravar" /\ ~TravadaPorOutro(p, r.alvo) /\ celula' = celula
      BY <2>4 DEF AtualizarTarifa
    <3>2. CASE celula[r.alvo] = Ausente
      BY <2>4, <3>2, AoTerminarEdicao DEF AtualizarTarifa
    <3>3. CASE celula[r.alvo] # Ausente
      <4>1. nova \in CelulaT
        BY <2>2, <3>1, <3>3 DEF CelulaT, EtapaDaEdicao
      <4>2. CASE ComChave(p, nova.chave) \ {r.alvo} # {}
        BY <2>4, <3>3, <4>2, AoTerminarEdicao DEF AtualizarTarifa
      <4>3. CASE ComChave(p, nova.chave) \ {r.alvo} = {}
        <5>1. /\ ~ChaveDisputada(p, nova.chave)
              /\ edicao' = [edicao EXCEPT ![p].passo = "confirmar",
                                          ![p].grava = Grava(SemLinhas, r.alvo, nova)]
          BY <2>4, <3>3, <4>3 DEF AtualizarTarifa
        <5> HIDE DEF nova
        <5>2. ComChave(p, nova.chave) \subseteq {r.alvo}
          BY <4>3
        <5> QED
          BY <3>1, <4>1, <5>1, <5>2, AoGravarTarifa
      <4> QED
        BY <4>2, <4>3
    <3> QED
      BY <3>2, <3>3
  <2>5. CASE ExcluirTarifa(p)
    BY <2>5, AoTerminarEdicao, AoGravarTarifa DEF ExcluirTarifa
  <2>6. CASE CairEdicao(p)
    BY <2>6, AoTerminarEdicao DEF CairEdicao
  <2> QED
    BY <2>1, <2>3, <2>4, <2>5, <2>6, AoComecarGrade, AoVerEscopo, AoTravarEscopo,
       AoApagarForaDaGrade, AoGravarCelula, AoCriarTarifa, AoConfirmarEdicao DEF PassoGrade
<1> QED
  BY <1>1, <1>2

\* The commit of a save, when it wrote all it was asked.
LEMMA SalvaComoPediu ==
    ASSUME GradeInv, NEW p \in Edicoes, edicao[p].tipo = "grade", ConfirmarEdicao(p)
    PROVE  ComoDeclarou(p)
<1> DEFINE r == edicao[p]
<1>1. /\ celula \in [IdsDaGrade -> CelulaT \cup {Ausente}]
      /\ r \in EdicaoT /\ EtapaDaEdicao(r) /\ SalvaCoerente(r) /\ VistaSemRepetir(r)
  BY DEF GradeInv
<1>2. /\ r.tipo = "grade" /\ r.passo = "gravar" /\ GradeEscrita(p)
      /\ celula' = [i \in IdsDaGrade |-> Vista(r, i)]
  BY <1>1 DEF ConfirmarEdicao, EtapaDaEdicao, Linha, Vista, Escreve
<1>3. /\ \A i \in DOMAIN r.antes :
            /\ celula[i] = r.antes[i] /\ r.antes[i].chave[1] \in r.escopo
            /\ r.antes[i].chave \notin DOMAIN r.pede => i \in DOMAIN r.grava
      /\ \A i \in DOMAIN r.grava :
                \/ /\ r.grava[i] = Ausente
                   /\ i \in DOMAIN r.antes /\ r.antes[i].chave \notin DOMAIN r.pede
                \/ /\ r.grava[i] # Ausente /\ r.grava[i].chave \in DOMAIN r.pede
                   /\ r.grava[i].valor = r.pede[r.grava[i].chave]
                   /\ celula[i] # Ausente => celula[i].chave = r.grava[i].chave
  BY <1>1, <1>2 DEF SalvaCoerente
<1>4. \A k \in DOMAIN r.pede : k[1] \in r.escopo
  BY <1>1, <1>2 DEF EtapaDaEdicao
\* A key of the request is only under the row that got its price.
<1>5. ASSUME NEW i \in IdsDaGrade, Vista(r, i) # Ausente, Vista(r, i).chave \in DOMAIN r.pede
      PROVE  /\ i \in DOMAIN r.grava
             /\ Vista(r, i).valor = r.pede[Vista(r, i).chave]
  <2>1. PICK j \in IdsDaGrade : /\ j \in DOMAIN r.grava /\ Vista(r, j) # Ausente
                                /\ Vista(r, j).chave = Vista(r, i).chave
    BY <1>2, <1>5 DEF GradeEscrita, ComChave, Escreve, Linha, Vista
  <2>2. i = j
    BY <1>1, <1>5, <2>1 DEF VistaSemRepetir
  <2> QED
    BY <1>3, <1>5, <2>1, <2>2 DEF Vista
<1>6. \A i \in IdsDaGrade : celula'[i] = Vista(r, i)
  BY <1>2
<1>7. \A i \in DOMAIN r.antes : i \in IdsDaGrade /\ r.antes[i] \in CelulaT /\ r.antes[i] # Ausente
  BY <1>1, Tipada, NadaEmBranco
<1>8. \A i \in DOMAIN r.grava : r.grava[i] \in CelulaT \cup {Ausente}
  BY <1>1, Tipada
<1> HIDE DEF r
<1>9. ASSUME NEW i \in IdsDaGrade, celula[i] # Vista(r, i), celula[i] # Ausente
      PROVE  /\ celula[i].chave[1] \in r.escopo
             /\ \/ i \in DOMAIN r.antes /\ celula[i] = r.antes[i]
                \/ i \notin DOMAIN r.antes /\ celula[i].chave \in DOMAIN r.pede
  BY <1>3, <1>4, <1>9 DEF Vista
<1>10. ASSUME NEW i \in DOMAIN r.antes
       PROVE  Vista(r, i) = IF r.antes[i].chave \in DOMAIN r.pede
                            THEN [r.antes[i] EXCEPT !.valor = r.pede[r.antes[i].chave]]
                            ELSE Ausente
  <2>1. CASE r.antes[i].chave \notin DOMAIN r.pede
    BY <1>3, <1>7, <2>1 DEF Vista
  <2>2. CASE r.antes[i].chave \in DOMAIN r.pede
    <3>1. Vista(r, i) # Ausente /\ Vista(r, i).chave = r.antes[i].chave
      BY <1>3, <1>7, <2>2 DEF Vista
    <3>2. i \in DOMAIN r.grava /\ Vista(r, i).valor = r.pede[r.antes[i].chave]
      BY <1>5, <1>7, <2>2, <3>1
    <3>3. Vista(r, i) \in CelulaT
      BY <1>8, <3>1, <3>2 DEF Vista
    <3> QED
      BY <1>7, <2>2, <3>1, <3>2, <3>3 DEF CelulaT
  <2> QED
    BY <2>1, <2>2
<1> QED
  BY <1>5, <1>6, <1>7, <1>9, <1>10 DEF ComoDeclarou, r

LEMMA UmaDeCadaChave ==
    ASSUME GradeInv PROVE UmaCelulaPorChave
<1>1. \A p, q \in Edicoes, i \in IdsDaGrade : Escreve(p, i) /\ Escreve(q, i) => p = q
  BY DEF GradeInv, Apartadas, Presas, Escreve
<1> QED
  BY <1>1 DEF UmaCelulaPorChave, GradeInv

\* A grid is saved as its summary says, whatever other saves and single edits are in
\* course (tarifario/service.go SalvarGrade, repository.go CelulasDoEscopo FOR UPDATE).
THEOREM SalvaSempreComoDeclarou == SpecGrade => GradeDeclarada
<1>1. GradeInv /\ GradeInv' => SalvaComoDeclarou
  <2> SUFFICES ASSUME GradeInv, GradeInv', NEW p \in Edicoes,
                      edicao[p].tipo = "grade", ConfirmarEdicao(p)
               PROVE  ComoDeclarou(p) /\ UmaCelulaPorChave'
    BY DEF SalvaComoDeclarou
  <2>1. UmaCelulaPorChave'
    BY UmaDeCadaChave, PTL
  <2> QED
    BY <2>1, SalvaComoPediu
<1> QED
  BY <1>1, GradeInicia, GradeSegue, PTL DEF SpecGrade, GradeDeclarada

-----------------------------------------------------------------------------
(***************************************************************************)
(* The quotes.  A quote adds up because each night is disposed of by one   *)
(* turn of the loop, a package's price is shared out over its own nights,  *)
(* and each night is on one line; sums are taken one element at a time.    *)
(***************************************************************************)

\* A set of naturals that is not empty has a least.
LEMMA TemMenor ==
    ASSUME NEW T \in SUBSET Nat, T # {}
    PROVE  \E x \in T : \A y \in T : x <= y
<1> DEFINE R == {ss \in Nat \X Nat : ss[1] < ss[2]}
<1>1. R = OpToRel(<, Nat)
  BY DEF OpToRel
<1>2. IsWellFoundedOn(R, Nat)
  BY <1>1, NatLessThanWellFounded
<1>3. \A a, b \in Nat : <<a, b>> \in R <=> a < b
  OBVIOUS
<1> HIDE DEF R
<1>4. PICK x \in T : \A y \in T : ~ (<<y, x>> \in R)
  BY <1>2, WFMin
<1>5. \A y \in T : y \in Nat
  OBVIOUS
<1>6. ASSUME NEW y \in T PROVE x <= y
  <2>1. x \in Nat /\ y \in Nat /\ ~(<<y, x>> \in R)
    BY <1>4, <1>5
  <2>2. ~(y < x)
    BY <1>3, <2>1
  <2> QED
    BY <2>1, <2>2
<1> QED
  BY <1>6

\* Induction, with the set of what holds for a predicate.

LEMMA TodosOsNaturais ==
    ASSUME NEW S \in SUBSET Nat, 0 \in S, \A n \in S : n + 1 \in S
    PROVE  S = Nat
<1> SUFFICES ASSUME NEW m \in Nat, m \notin S PROVE FALSE
  OBVIOUS
<1>1. PICK k \in Nat \ S : \A y \in Nat \ S : k <= y
  BY TemMenor
<1>2. k # 0 /\ k - 1 \in Nat /\ k - 1 < k
  BY <1>1
<1>3. k - 1 \in S
  BY <1>1, <1>2
<1>4. (k - 1) + 1 \in S
  BY <1>3
<1> QED
  BY <1>1, <1>4

\* What holds of a finite set when it holds of it without any one element.
LEMMA PorRetirada ==
    ASSUME NEW D, IsFiniteSet(D), NEW V, {} \in V,
           \A s \in SUBSET D : s # {} /\ (\A x \in s : s \ {x} \in V) => s \in V
    PROVE  \A s \in SUBSET D : s \in V
<1> SUFFICES ASSUME NEW r \in SUBSET D, r \notin V PROVE FALSE
  OBVIOUS
<1> DEFINE C == {Cardinality(s) : s \in {t \in SUBSET D : t \notin V}}
<1>1. \A s \in SUBSET D : IsFiniteSet(s) /\ Cardinality(s) \in Nat
  BY FS_Subset, FS_CardinalityType
<1>2. C \in SUBSET Nat /\ C # {}
  BY <1>1
<1>3. PICK m \in C : \A y \in C : m <= y
  BY <1>2, TemMenor
<1>4. PICK s \in SUBSET D : s \notin V /\ m = Cardinality(s)
  BY <1>3
<1>5. ASSUME NEW x \in s PROVE s \ {x} \in V
  <2>1. Cardinality(s \ {x}) = Cardinality(s) - 1
    BY <1>1, FS_RemoveElement
  <2>2. s \ {x} \in SUBSET D /\ ~(m <= Cardinality(s \ {x}))
    BY <1>1, <1>4, <2>1
  <2> QED
    BY <1>3, <2>2
<1> QED
  BY <1>4, <1>5

\* A sum of a finite set, one element set apart at a time.
Um(s) == CHOOSE x \in s : TRUE
Regra(f, it, s) == IF s = {} THEN 0 ELSE f[Um(s)] + it[s \ {Um(s)}]
Parcial(f) == CHOOSE it : it = [s \in SUBSET DOMAIN f |-> Regra(f, it, s)]

\* The sum of the library is that one.
LEMMA SomaDesdobrada == \A f : Soma(f) = Parcial(f)[DOMAIN f]
BY DEF Soma, MapThenSumSet, MapThenFoldSet, Parcial, Regra, Um

LEMMA SemUm ==
    ASSUME NEW s, IsFiniteSet(s), s # {}
    PROVE  /\ Um(s) \in s /\ Cardinality(s) \in Nat \ {0}
           /\ Cardinality(s \ {Um(s)}) = Cardinality(s) - 1
<1>1. Um(s) \in s
  BY DEF Um
<1>2. Cardinality(s) \in Nat /\ Cardinality(s) # 0
  BY FS_CardinalityType, FS_EmptySet
<1>3. Cardinality(s \ {Um(s)}) = Cardinality(s) - 1
  BY <1>1, FS_RemoveElement
<1> QED
  BY <1>1, <1>2, <1>3

\* The recursion defines a function.
LEMMA ParcialExiste ==
    ASSUME NEW f, IsFiniteSet(DOMAIN f)
    PROVE  Parcial(f) = [s \in SUBSET DOMAIN f |-> Regra(f, Parcial(f), s)]
<1> DEFINE D == DOMAIN f
           Vale(it, n) == \A s \in SUBSET D : Cardinality(s) <= n => it[s] = Regra(f, it, s)
           S == {n \in Nat : \E it : Vale(it, n)}
<1>0. \A s \in SUBSET D : IsFiniteSet(s) /\ Cardinality(s) \in Nat /\ Cardinality(s) <= Cardinality(D)
  BY FS_Subset, FS_CardinalityType
<1>1. 0 \in S
  <2> DEFINE it == [s \in SUBSET D |-> 0]
  <2>1. ASSUME NEW s \in SUBSET D, Cardinality(s) <= 0 PROVE it[s] = Regra(f, it, s)
    <3>1. s = {}
      <4>1. s # {} => Cardinality(s) \in Nat \ {0}
        BY <1>0, SemUm
      <4> HIDE DEF it
      <4> QED
        BY <2>1, <4>1
    <3> QED
      BY <3>1 DEF Regra
  <2> QED
    BY <2>1
<1>2. ASSUME NEW n \in S PROVE n + 1 \in S
  <2>1. PICK it : Vale(it, n)
    BY <1>2
  <2> DEFINE ja == [s \in SUBSET D |-> IF Cardinality(s) <= n THEN it[s] ELSE Regra(f, it, s)]
  <2>2. ASSUME NEW s \in SUBSET D, Cardinality(s) <= n + 1 PROVE ja[s] = Regra(f, ja, s)
    <3>1. ja[s] = Regra(f, it, s)
      BY <2>1
    <3>2. CASE s = {}
      BY <3>1, <3>2 DEF Regra
    <3>3. CASE s # {}
      <4>1. s \ {Um(s)} \in SUBSET D /\ Cardinality(s \ {Um(s)}) <= n
        BY <1>0, <2>2, <3>3, SemUm
      <4>2. ja[s \ {Um(s)}] = it[s \ {Um(s)}]
        BY <4>1
      <4> HIDE DEF ja
      <4> QED
        BY <3>1, <3>3, <4>2 DEF Regra
    <3> QED
      BY <3>2, <3>3
  <2>3. Vale(ja, n + 1)
    BY <2>2
  <2> HIDE DEF Vale, ja
  <2> QED
    BY <1>2, <2>3
<1>3. S = Nat
  <2> HIDE DEF S
  <2>1. S \in SUBSET Nat
    BY DEF S
  <2> QED
    BY <1>1, <1>2, <2>1, TodosOsNaturais
<1>4. Cardinality(D) \in Nat
  BY FS_CardinalityType
<1>5. PICK it : Vale(it, Cardinality(D))
  BY <1>3, <1>4
<1> DEFINE ja == [s \in SUBSET D |-> it[s]]
<1>6. ASSUME NEW s \in SUBSET D PROVE ja[s] = Regra(f, ja, s)
  <2>1. it[s] = Regra(f, it, s) /\ ja[s] = it[s]
    BY <1>0, <1>5
  <2>2. ja[s \ {Um(s)}] = it[s \ {Um(s)}]
    OBVIOUS
  <2> HIDE DEF ja
  <2> QED
    BY <2>1, <2>2 DEF Regra
<1>7. ja = [s \in SUBSET D |-> Regra(f, ja, s)]
  BY <1>6
<1> HIDE DEF ja
<1> QED
  BY <1>7 DEF Parcial

\* Any element may be the first to be added.
LEMMA ParcialRetira ==
    ASSUME NEW f, IsFiniteSet(DOMAIN f), \A i \in DOMAIN f : f[i] \in Int
    PROVE  /\ Parcial(f)[{}] = 0
           /\ \A s \in SUBSET DOMAIN f :
                /\ Parcial(f)[s] \in Int
                /\ \A x \in s : Parcial(f)[s] = f[x] + Parcial(f)[s \ {x}]
<1> DEFINE D == DOMAIN f
           F == Parcial(f)
           V == {s \in SUBSET D : F[s] \in Int /\ \A x \in s : F[s] = f[x] + F[s \ {x}]}
<1>1. \A s \in SUBSET D : F[s] = Regra(f, F, s)
  BY ParcialExiste
<1> HIDE DEF F
<1>2. F[{}] = 0
  BY <1>1 DEF Regra
<1>3. \A s \in SUBSET D : F[s] \in Int
  <2> DEFINE I == {s \in SUBSET D : F[s] \in Int}
  <2>1. {} \in I
    BY <1>2
  <2>2. ASSUME NEW s \in SUBSET D, s # {}, \A x \in s : s \ {x} \in I PROVE s \in I
    <3> DEFINE c == Um(s)
    <3>1. c \in s /\ F[s] = f[c] + F[s \ {c}]
      BY <1>1, <2>2 DEF Um, Regra
    <3> HIDE DEF c
    <3>2. s \ {c} \in I /\ f[c] \in Int
      BY <2>2, <3>1
    <3>3. F[s \ {c}] \in Int
      BY <3>2
    <3>4. F[s] \in Int
      BY <3>1, <3>2, <3>3
    <3> QED
      BY <2>2, <3>4
  <2>3. \A s \in SUBSET D : s \in I
    <3> HIDE DEF I
    <3> QED
      BY <2>1, <2>2, PorRetirada
  <2> QED
    BY <2>3
<1>4. {} \in V
  BY <1>2
<1>5. ASSUME NEW s \in SUBSET D, s # {}, \A x \in s : s \ {x} \in V PROVE s \in V
  <2> DEFINE c == Um(s)
  <2>1. c \in s /\ F[s] = f[c] + F[s \ {c}]
    BY <1>1, <1>5 DEF Um, Regra
  <2> HIDE DEF c
  <2>2. ASSUME NEW x \in s, x # c PROVE F[s] = f[x] + F[s \ {x}]
    <3>1. F[s \ {c}] = f[x] + F[(s \ {c}) \ {x}]
      BY <1>5, <2>1, <2>2
    <3>2. F[s \ {x}] = f[c] + F[(s \ {x}) \ {c}]
      BY <1>5, <2>1, <2>2
    <3>3. (s \ {x}) \ {c} = (s \ {c}) \ {x}
      OBVIOUS
    <3>4. F[(s \ {c}) \ {x}] \in Int /\ f[x] \in Int /\ f[c] \in Int
      BY <1>3, <2>1
    <3>5. F[(s \ {x}) \ {c}] = F[(s \ {c}) \ {x}]
      BY <3>3
    <3> QED
      BY <2>1, <3>1, <3>2, <3>4, <3>5
  <2> QED
    BY <1>3, <2>1, <2>2
<1>6. \A s \in SUBSET D : s \in V
  <2> HIDE DEF V
  <2> QED
    BY <1>4, <1>5, PorRetirada
<1> QED
  BY <1>2, <1>6 DEF F

-----------------------------------------------------------------------------
(* Sums.                                                                   *)

\* The part of a sum over a set of its terms.
Parte(f, s) == Soma([i \in s |-> f[i]])

\* A sum depends on its own terms only.
LEMMA ParcialLocal ==
    ASSUME NEW f, NEW g, IsFiniteSet(DOMAIN f), IsFiniteSet(DOMAIN g),
           DOMAIN g \subseteq DOMAIN f, \A i \in DOMAIN g : g[i] = f[i]
    PROVE  \A s \in SUBSET DOMAIN g : Parcial(g)[s] = Parcial(f)[s]
<1> DEFINE D == DOMAIN g
           F == Parcial(f)
           G == Parcial(g)
           V == {s \in SUBSET D : G[s] = F[s]}
<1>1. \A s \in SUBSET D : F[s] = Regra(f, F, s) /\ G[s] = Regra(g, G, s)
  BY ParcialExiste
<1> HIDE DEF F, G
<1>2. {} \in V
  BY <1>1 DEF Regra
<1>3. ASSUME NEW s \in SUBSET D, s # {}, \A x \in s : s \ {x} \in V PROVE s \in V
  <2>1. Um(s) \in s
    BY <1>3 DEF Um
  <2>2. G[s] = g[Um(s)] + G[s \ {Um(s)}] /\ F[s] = f[Um(s)] + F[s \ {Um(s)}]
    BY <1>1, <1>3 DEF Regra
  <2>3. G[s \ {Um(s)}] = F[s \ {Um(s)}] /\ g[Um(s)] = f[Um(s)]
    BY <1>3, <2>1
  <2>4. G[s] = F[s]
    BY <2>2, <2>3
  <2> QED
    BY <2>4
<1>4. \A s \in SUBSET D : s \in V
  <2> HIDE DEF V
  <2> QED
    BY <1>2, <1>3, PorRetirada
<1> QED
  BY <1>4 DEF F, G

\* A part of a sum is one of its steps.
LEMMA ParteEhParcial ==
    ASSUME NEW D, IsFiniteSet(D), NEW f \in [D -> Int], NEW s \in SUBSET D
    PROVE  Parte(f, s) = Parcial(f)[s]
<1> DEFINE g == [i \in s |-> f[i]]
<1>1. IsFiniteSet(s) /\ DOMAIN f = D /\ DOMAIN g = s /\ \A i \in s : g[i] = f[i]
  BY FS_Subset
<1>2. s \in SUBSET DOMAIN g
  BY <1>1
<1> HIDE DEF g
<1>3. Parcial(g)[s] = Parcial(f)[s]
  BY <1>1, <1>2, ParcialLocal
<1> QED
  BY <1>1, <1>3, SomaDesdobrada DEF Parte, g

\* A sum is of integers, and any of its terms may be set apart.
LEMMA ParteRetira ==
    ASSUME NEW D, IsFiniteSet(D), NEW f \in [D -> Int]
    PROVE  /\ Parte(f, {}) = 0 /\ Parte(f, D) = Soma(f)
           /\ \A s \in SUBSET D :
                /\ Parte(f, s) \in Int
                /\ \A x \in s : Parte(f, s) = f[x] + Parte(f, s \ {x})
<1>1. DOMAIN f = D /\ \A i \in D : f[i] \in Int
  OBVIOUS
<1>2. \A s \in SUBSET D : Parte(f, s) = Parcial(f)[s]
  BY ParteEhParcial
<1>3. {} \in SUBSET D /\ D \in SUBSET D /\ \A s \in SUBSET D : \A x \in s : s \ {x} \in SUBSET D
  OBVIOUS
<1>4. Soma(f) = Parcial(f)[D]
  BY <1>1, SomaDesdobrada
<1>5. /\ Parcial(f)[{}] = 0
      /\ \A s \in SUBSET D :
           /\ Parcial(f)[s] \in Int
           /\ \A x \in s : Parcial(f)[s] = f[x] + Parcial(f)[s \ {x}]
  BY <1>1, ParcialRetira
<1>6. ASSUME NEW s \in SUBSET D
      PROVE  /\ Parte(f, s) \in Int
             /\ \A x \in s : Parte(f, s) = f[x] + Parte(f, s \ {x})
  <2>1. Parte(f, s) = Parcial(f)[s] /\ \A x \in s : Parte(f, s \ {x}) = Parcial(f)[s \ {x}]
    BY <1>2, <1>3
  <2> QED
    BY <1>5, <2>1
<1> QED
  BY <1>2, <1>3, <1>4, <1>5, <1>6

LEMMA ParteUne ==
    ASSUME NEW D, IsFiniteSet(D), NEW f \in [D -> Int],
           NEW a \in SUBSET D, NEW b \in SUBSET D, a \cap b = {}
    PROVE  Parte(f, a \cup b) = Parte(f, a) + Parte(f, b)
<1> DEFINE V == {s \in SUBSET a : Parte(f, s \cup b) = Parte(f, s) + Parte(f, b)}
<1>0. IsFiniteSet(a)
  BY FS_Subset
<1>1. /\ Parte(f, {}) = 0
      /\ \A s \in SUBSET D : /\ Parte(f, s) \in Int
                             /\ \A x \in s : Parte(f, s) = f[x] + Parte(f, s \ {x})
  BY ParteRetira
<1>2. {} \in V
  <2>1. {} \cup b = b
    OBVIOUS
  <2> QED
    BY <1>1, <2>1
<1>3. ASSUME NEW s \in SUBSET a, s # {}, \A x \in s : s \ {x} \in V PROVE s \in V
  <2>1. PICK x \in s : TRUE
    BY <1>3
  <2>2. (s \cup b) \ {x} = (s \ {x}) \cup b
    BY <2>1
  <2>3. /\ Parte(f, s \cup b) = f[x] + Parte(f, (s \cup b) \ {x})
        /\ Parte(f, s) = f[x] + Parte(f, s \ {x})
    BY <1>1, <2>1
  <2>4. Parte(f, (s \ {x}) \cup b) = Parte(f, s \ {x}) + Parte(f, b)
    BY <1>3, <2>1
  <2>5. f[x] \in Int /\ Parte(f, s \ {x}) \in Int /\ Parte(f, b) \in Int
    BY <1>1, <2>1
  <2>6. Parte(f, (s \cup b) \ {x}) = Parte(f, (s \ {x}) \cup b)
    BY <2>2
  <2>7. Parte(f, s \cup b) = Parte(f, s) + Parte(f, b)
    BY <2>3, <2>4, <2>5, <2>6
  <2> QED
    BY <2>7
<1>4. \A s \in SUBSET a : s \in V
  <2> HIDE DEF V
  <2> QED
    BY <1>0, <1>2, <1>3, PorRetirada
<1> QED
  BY <1>4

\* What is no more term by term is no more in all, and is less when one term is.
LEMMA ParteCresce ==
    ASSUME NEW D, IsFiniteSet(D), NEW f \in [D -> Int], NEW g \in [D -> Int],
           \A i \in D : f[i] <= g[i]
    PROVE  \A s \in SUBSET D :
             /\ Parte(f, s) <= Parte(g, s)
             /\ (\E i \in s : f[i] < g[i]) => Parte(f, s) < Parte(g, s)
<1> DEFINE V == {s \in SUBSET D : /\ Parte(f, s) <= Parte(g, s)
                                  /\ (\E i \in s : f[i] < g[i]) => Parte(f, s) < Parte(g, s)}
<1>1. /\ Parte(f, {}) = 0
      /\ \A s \in SUBSET D : /\ Parte(f, s) \in Int
                             /\ \A x \in s : Parte(f, s) = f[x] + Parte(f, s \ {x})
  BY ParteRetira
<1>2. /\ Parte(g, {}) = 0
      /\ \A s \in SUBSET D : /\ Parte(g, s) \in Int
                             /\ \A x \in s : Parte(g, s) = g[x] + Parte(g, s \ {x})
  BY ParteRetira
<1>3. {} \in V
  BY <1>1, <1>2
<1>4. ASSUME NEW s \in SUBSET D, s # {}, \A x \in s : s \ {x} \in V PROVE s \in V
  <2>1. ASSUME NEW x \in s
        PROVE  /\ Parte(f, s) <= Parte(g, s)
               /\ f[x] < g[x] => Parte(f, s) < Parte(g, s)
    <3>1. /\ Parte(f, s) = f[x] + Parte(f, s \ {x}) /\ Parte(g, s) = g[x] + Parte(g, s \ {x})
          /\ Parte(f, s \ {x}) \in Int /\ Parte(g, s \ {x}) \in Int
          /\ f[x] \in Int /\ g[x] \in Int /\ f[x] <= g[x]
      BY <1>1, <1>2
    <3>2. Parte(f, s \ {x}) <= Parte(g, s \ {x})
      BY <1>4
    <3> QED
      BY <3>1, <3>2
  <2> QED
    BY <1>4, <2>1
<1>5. \A s \in SUBSET D : s \in V
  <2> HIDE DEF V
  <2> QED
    BY <1>3, <1>4, PorRetirada
<1> QED
  BY <1>5

\* A sum of equal terms counts them.
LEMMA ParteConta ==
    ASSUME NEW D, IsFiniteSet(D), NEW f \in [D -> Int], NEW s \in SUBSET D,
           NEW c \in Int, \A i \in s : f[i] = c
    PROVE  Parte(f, s) = c * Cardinality(s)
<1> DEFINE V == {t \in SUBSET s : Parte(f, t) = c * Cardinality(t)}
<1>0. IsFiniteSet(s) /\ s \in SUBSET s
  BY FS_Subset
<1>1. /\ Parte(f, {}) = 0
      /\ \A t \in SUBSET D : /\ Parte(f, t) \in Int
                             /\ \A x \in t : Parte(f, t) = f[x] + Parte(f, t \ {x})
  BY ParteRetira
<1>2. {} \in V
  BY <1>1, FS_EmptySet
<1>3. ASSUME NEW t \in SUBSET s, t # {}, \A x \in t : t \ {x} \in V PROVE t \in V
  <2>1. PICK x \in t : TRUE
    BY <1>3
  <2>2. /\ Parte(f, t) = f[x] + Parte(f, t \ {x}) /\ f[x] = c
        /\ Parte(f, t \ {x}) = c * Cardinality(t \ {x})
    BY <1>1, <1>3, <2>1
  <2>3. Cardinality(t \ {x}) = Cardinality(t) - 1 /\ Cardinality(t) \in Nat
    BY <1>0, <2>1, FS_Subset, FS_RemoveElement, FS_CardinalityType
  <2>4. \A k \in Nat : c + c * (k - 1) = c * k
    OBVIOUS
  <2>5. Parte(f, t) = c + c * (Cardinality(t) - 1)
    BY <2>2, <2>3
  <2> QED
    BY <2>3, <2>4, <2>5
<1>4. \A t \in SUBSET s : t \in V
  <2> HIDE DEF V
  <2> QED
    BY <1>0, <1>2, <1>3, PorRetirada
<1> QED
  BY <1>0, <1>4

\* A sum is the sum of the sums of disjoint parts that cover it.
LEMMA ParteAgrupa ==
    ASSUME NEW D, IsFiniteSet(D), NEW f \in [D -> Int],
           NEW C, IsFiniteSet(C), NEW P \in [C -> SUBSET D],
           \A c, e \in C : c # e => P[c] \cap P[e] = {}
    PROVE  \A s \in SUBSET C :
             Parte(f, UNION {P[c] : c \in s}) = Parte([c \in C |-> Parte(f, P[c])], s)
<1> DEFINE h == [c \in C |-> Parte(f, P[c])]
           U(s) == UNION {P[c] : c \in s}
           V == {s \in SUBSET C : Parte(f, U(s)) = Parte(h, s)}
<1>1. /\ Parte(f, {}) = 0
      /\ \A s \in SUBSET D : Parte(f, s) \in Int
  BY ParteRetira
<1>2. h \in [C -> Int]
  BY <1>1
<1>3. /\ Parte(h, {}) = 0
      /\ \A s \in SUBSET C : /\ Parte(h, s) \in Int
                             /\ \A x \in s : Parte(h, s) = h[x] + Parte(h, s \ {x})
  <2> HIDE DEF h
  <2> QED
    BY <1>2, ParteRetira
<1>4. {} \in V
  <2>1. U({}) = {}
    OBVIOUS
  <2> QED
    BY <1>1, <1>3, <2>1
<1>5. ASSUME NEW s \in SUBSET C, s # {}, \A x \in s : s \ {x} \in V PROVE s \in V
  <2>1. PICK x \in s : TRUE
    BY <1>5
  <2>2. U(s) = P[x] \cup U(s \ {x})
    BY <2>1
  <2>3. P[x] \in SUBSET D /\ U(s \ {x}) \in SUBSET D /\ P[x] \cap U(s \ {x}) = {}
    BY <2>1
  <2>4. Parte(f, U(s)) = Parte(f, P[x]) + Parte(f, U(s \ {x}))
    BY <2>2, <2>3, ParteUne
  <2>5. Parte(f, U(s \ {x})) = Parte(h, s \ {x})
    BY <1>5, <2>1
  <2>6. h[x] = Parte(f, P[x]) /\ Parte(h, s) = h[x] + Parte(h, s \ {x})
    BY <1>3, <2>1
  <2>7. Parte(f, U(s)) = Parte(h, s)
    BY <2>4, <2>5, <2>6
  <2> QED
    BY <2>7
<1>6. \A s \in SUBSET C : s \in V
  <2> HIDE DEF V
  <2> QED
    BY <1>4, <1>5, PorRetirada
<1> QED
  BY <1>6

-----------------------------------------------------------------------------
(* The packages.                                                           *)

\* A night with a price, and the turn each night is disposed of by.
Noite == [dia : Int, tipo : Tipos, preco : Nat, pacote : Nat]

Turno(noites, pacotes, inicio, j) ==
    IF j = 1 THEN 1
    ELSE LET i == inicio[j - 1]
         IN  IF j < i + Passada(noites, i, pacotes) THEN i ELSE j
DeOnde(noites, pacotes) ==
    CHOOSE inicio : inicio = [j \in DOMAIN noites |-> Turno(noites, pacotes, inicio, j)]

\* The definition, and that there is such a function.
LEMMA IniciosDesdobrados ==
    \A noites, pacotes : Inicios(noites, pacotes) = DeOnde(noites, pacotes)
BY DEF Inicios, DeOnde, Turno

LEMMA IniciosExistem ==
    ASSUME NEW noites, NEW N \in Nat, DOMAIN noites = 1..N, NEW pacotes
    PROVE  LET inicio == Inicios(noites, pacotes)
           IN  inicio = [j \in 1..N |-> Turno(noites, pacotes, inicio, j)]
<1> DEFINE Vale(it, k) == \A n \in 1..N : n <= k => it[n] = Turno(noites, pacotes, it, n)
           S == {k \in Nat : \E it : Vale(it, k)}
<1>1. 0 \in S
  <2> DEFINE it == [n \in 1..N |-> 1]
  <2>1. Vale(it, 0)
    OBVIOUS
  <2> QED
    BY <2>1
<1>2. ASSUME NEW k \in S PROVE k + 1 \in S
  <2>1. PICK it : Vale(it, k)
    BY <1>2
  <2>2. k \in Nat
    BY <1>2
  <2> DEFINE ja == [n \in 1..N |-> IF n <= k THEN it[n] ELSE Turno(noites, pacotes, it, n)]
  <2>3. ASSUME NEW n \in 1..N, n <= k + 1 PROVE ja[n] = Turno(noites, pacotes, ja, n)
    <3>1. ja[n] = Turno(noites, pacotes, it, n)
      BY <2>1
    <3>2. CASE n = 1
      BY <3>1, <3>2 DEF Turno
    <3>3. CASE n # 1
      <4>1. n - 1 \in 1..N /\ n - 1 <= k
        BY <2>2, <2>3, <3>3
      <4>2. ja[n - 1] = it[n - 1]
        BY <4>1
      <4> HIDE DEF ja
      <4> QED
        BY <3>1, <3>3, <4>2 DEF Turno
    <3> QED
      BY <3>2, <3>3
  <2>4. Vale(ja, k + 1)
    BY <2>3
  <2> HIDE DEF Vale, ja
  <2> QED
    BY <2>2, <2>4
<1>3. S = Nat
  <2> HIDE DEF S
  <2>1. S \in SUBSET Nat
    BY DEF S
  <2> QED
    BY <1>1, <1>2, <2>1, TodosOsNaturais
<1>4. PICK it : Vale(it, N)
  BY <1>3
<1> DEFINE ja == [n \in 1..N |-> it[n]]
<1>5. ASSUME NEW n \in 1..N PROVE ja[n] = Turno(noites, pacotes, ja, n)
  <2>1. it[n] = Turno(noites, pacotes, it, n) /\ ja[n] = it[n]
    BY <1>4
  <2>2. n # 1 => n - 1 \in 1..N
    OBVIOUS
  <2>3. n # 1 => ja[n - 1] = it[n - 1]
    BY <2>2
  <2> HIDE DEF ja
  <2> QED
    BY <2>1, <2>3 DEF Turno
<1>6. ja = [n \in 1..N |-> Turno(noites, pacotes, ja, n)]
  BY <1>5
<1> HIDE DEF ja
<1>7. DeOnde(noites, pacotes) = [n \in 1..N |-> Turno(noites, pacotes, DeOnde(noites, pacotes), n)]
  BY <1>6 DEF DeOnde
<1> QED
  BY <1>7, IniciosDesdobrados

\* A finite set of numbers that is not empty has a greatest.
LEMMA TemMaximo ==
    ASSUME NEW D \in SUBSET Int, IsFiniteSet(D), D # {}
    PROVE  \E x \in D : \A y \in D : y <= x
<1> DEFINE V == {s \in SUBSET D : s = {} \/ \E x \in s : \A y \in s : y <= x}
<1>1. {} \in V
  OBVIOUS
<1>2. ASSUME NEW s \in SUBSET D, s # {}, \A x \in s : s \ {x} \in V PROVE s \in V
  <2>1. PICK x \in s : TRUE
    BY <1>2
  <2>2. CASE s \ {x} = {}
    <3>1. \A y \in s : y <= x
      BY <2>1, <2>2
    <3> QED
      BY <2>1, <3>1
  <2>3. CASE s \ {x} # {}
    <3>1. PICK m \in s \ {x} : \A y \in s \ {x} : y <= m
      BY <1>2, <2>1, <2>3
    <3>2. m \in Int /\ x \in Int /\ \A y \in s : y \in Int
      BY <2>1, <3>1
    <3>3. CASE m <= x
      <4>1. \A y \in s : y <= x
        BY <3>1, <3>2, <3>3
      <4> QED
        BY <2>1, <4>1
    <3>4. CASE ~(m <= x)
      <4>1. \A y \in s : y <= m
        BY <3>1, <3>2, <3>4
      <4> QED
        BY <3>1, <4>1
    <3> QED
      BY <3>3, <3>4
  <2> QED
    BY <2>2, <2>3
<1>3. D \in SUBSET D
  OBVIOUS
<1>4. D \in V
  <2> HIDE DEF V
  <2> QED
    BY <1>1, <1>2, <1>3, PorRetirada
<1> QED
  BY <1>4

\* The package taken is one that serves.
LEMMA EscolhidoServe ==
    ASSUME NEW noites, NEW pacotes \in Seq(Pacote), NEW i, Servem(noites, i, pacotes) # {}
    PROVE  /\ \E k \in DOMAIN pacotes : Escolhido(noites, i, pacotes) = pacotes[k]
           /\ Escolhido(noites, i, pacotes) \in Pacote
           /\ Serve(noites, i, Escolhido(noites, i, pacotes))
<1> DEFINE S == Servem(noites, i, pacotes)
           L == {pacotes[k].noites : k \in S}
           Vence(k) == \A m \in S : \/ pacotes[k].noites > pacotes[m].noites
                                    \/ pacotes[k].noites = pacotes[m].noites /\ k <= m
<1>1. DOMAIN pacotes = 1..Len(pacotes) /\ Len(pacotes) \in Nat /\ \A k \in DOMAIN pacotes : pacotes[k] \in Pacote
  OBVIOUS
<1>2. S \in SUBSET DOMAIN pacotes /\ S # {} /\ \A k \in S : Serve(noites, i, pacotes[k])
  BY DEF Servem
<1>3. \A k \in S : pacotes[k] \in Pacote /\ pacotes[k].noites \in Nat /\ k \in Nat
  BY <1>1, <1>2 DEF Pacote
<1> HIDE DEF S
<1>4. IsFiniteSet(S)
  <2>1. IsFiniteSet(1..Len(pacotes))
    BY <1>1, FS_Interval
  <2>2. S \in SUBSET (1..Len(pacotes))
    BY <1>1, <1>2
  <2> QED
    BY <2>1, <2>2, FS_Subset
<1>5. L \in SUBSET Int /\ L # {} /\ IsFiniteSet(L)
  <2>1. IsFiniteSet(L)
    <3> DEFINE g == [k \in S |-> pacotes[k].noites]
    <3>1. g \in [S -> L] /\ \A y \in L : \E k \in S : g[k] = y
      OBVIOUS
    <3> HIDE DEF g, L
    <3>2. g \in Surjection(S, L)
      BY <3>1 DEF Surjection
    <3> QED
      BY <1>4, <3>2, FS_Surjection
  <2> QED
    BY <1>2, <1>3, <2>1
<1>6. PICK x \in L : \A y \in L : y <= x
  BY <1>5, TemMaximo
<1> DEFINE T == {k \in S : pacotes[k].noites = x}
<1>7. T \in SUBSET Nat /\ T # {}
  BY <1>3, <1>6
<1>8. PICK k \in T : \A m \in T : k <= m
  BY <1>7, TemMenor
<1>9. Vence(k)
  <2> SUFFICES ASSUME NEW m \in S
               PROVE  \/ pacotes[k].noites > pacotes[m].noites
                      \/ pacotes[k].noites = pacotes[m].noites /\ k <= m
    OBVIOUS
  <2>1. pacotes[k].noites = x /\ pacotes[m].noites <= x /\ x \in Nat /\ pacotes[m].noites \in Nat
    BY <1>3, <1>6, <1>8
  <2>2. pacotes[m].noites = x => k <= m
    BY <1>8
  <2> QED
    BY <2>1, <2>2
<1> DEFINE e == CHOOSE q \in S : Vence(q)
<1>10. e \in S
  BY <1>8, <1>9
<1>11. Escolhido(noites, i, pacotes) = pacotes[e]
  BY DEF Escolhido, S
<1> QED
  BY <1>2, <1>3, <1>10, <1>11

LEMMA PassadaAnda ==
    ASSUME NEW noites, NEW pacotes \in Seq(Pacote), NEW i
    PROVE  Passada(noites, i, pacotes) \in Nat \ {0}
<1>1. CASE Servem(noites, i, pacotes) = {}
  BY <1>1 DEF Passada
<1>2. CASE Servem(noites, i, pacotes) # {}
  <2> DEFINE pk == Escolhido(noites, i, pacotes)
  <2>1. pk \in Pacote /\ Serve(noites, i, pk)
    BY <1>2, EscolhidoServe
  <2>2. Passada(noites, i, pacotes) = pk.noites
    BY <1>2 DEF Passada
  <2> HIDE DEF pk
  <2>3. pk.noites \in Nat /\ pk.noites >= 2
    BY <2>1 DEF Serve, Pacote
  <2> QED
    BY <2>2, <2>3
<1> QED
  BY <1>1, <1>2

\* Each turn of the loop disposes of the nights from where it begins, and of no other.
LEMMA IniciosAndam ==
    ASSUME NEW noites, NEW N \in Nat, DOMAIN noites = 1..N, NEW pacotes \in Seq(Pacote)
    PROVE  LET I == Inicios(noites, pacotes)
               B(i) == Passada(noites, i, pacotes)
           IN  /\ DOMAIN I = 1..N
               /\ \A j \in 1..N : I[j] \in 1..j /\ I[I[j]] = I[j] /\ j < I[j] + B(I[j])
               /\ \A i, j \in 1..N : I[i] = i /\ i <= j /\ j < i + B(i) => I[j] = i
<1> DEFINE I == Inicios(noites, pacotes)
           B(i) == Passada(noites, i, pacotes)
<1>1. I = [j \in 1..N |-> Turno(noites, pacotes, I, j)]
  BY IniciosExistem
<1>2. \A i : B(i) \in Nat \ {0}
  BY PassadaAnda
<1>3. \A j \in 1..N : I[j] = IF j = 1 THEN 1
                              ELSE IF j < I[j - 1] + B(I[j - 1]) THEN I[j - 1] ELSE j
  BY <1>1 DEF Turno
<1>4. DOMAIN I = 1..N
  BY <1>1
<1> HIDE DEF I, B
<1> DEFINE Bom(j) == I[j] \in 1..j /\ I[I[j]] = I[j] /\ j < I[j] + B(I[j])
           S == {k \in Nat : k \in 1..N => Bom(k)}
<1>5. S = Nat
  <2>1. 0 \in S
    OBVIOUS
  <2>2. ASSUME NEW k \in S PROVE k + 1 \in S
    <3> SUFFICES ASSUME k + 1 \in 1..N PROVE Bom(k + 1)
      BY <2>2
    <3>1. CASE k = 0
      <4>1. I[1] = 1 /\ B(1) \in Nat \ {0}
        BY <1>2, <1>3, <3>1
      <4> QED
        BY <3>1, <4>1
    <3>2. CASE k # 0
      <4>1. k \in Nat /\ k \in 1..N /\ (k + 1) - 1 = k /\ k + 1 # 1
        BY <2>2, <3>2
      <4>2. Bom(k)
        BY <2>2, <4>1
      <4>3. I[k + 1] = IF k + 1 < I[k] + B(I[k]) THEN I[k] ELSE k + 1
        BY <1>3, <4>1
      <4>4. CASE k + 1 < I[k] + B(I[k])
        <5>1. I[k + 1] = I[k] /\ I[k] \in 1..k /\ I[I[k]] = I[k]
          BY <4>2, <4>3, <4>4
        <5>2. I[k] \in 1..(k + 1)
          BY <4>1, <5>1
        <5> QED
          BY <4>4, <5>1, <5>2
      <4>5. CASE ~(k + 1 < I[k] + B(I[k]))
        <5>1. I[k + 1] = k + 1 /\ B(k + 1) \in Nat \ {0}
          BY <1>2, <4>3, <4>5
        <5> QED
          BY <4>1, <5>1
      <4> QED
        BY <4>4, <4>5
    <3> QED
      BY <3>1, <3>2
  <2>3. S \in SUBSET Nat
    OBVIOUS
  <2> HIDE DEF S
  <2> QED
    BY <2>1, <2>2, <2>3, TodosOsNaturais
<1>6. \A j \in 1..N : Bom(j)
  BY <1>5
<1>7. ASSUME NEW i \in 1..N, I[i] = i PROVE \A j \in 1..N : i <= j /\ j < i + B(i) => I[j] = i
  <2> DEFINE T == {k \in Nat : k \in 1..N /\ i <= k /\ k < i + B(i) => I[k] = i}
  <2>1. 0 \in T
    OBVIOUS
  <2>2. ASSUME NEW k \in T PROVE k + 1 \in T
    <3> SUFFICES ASSUME k + 1 \in 1..N, i <= k + 1, k + 1 < i + B(i) PROVE I[k + 1] = i
      BY <2>2
    <3>1. CASE i = k + 1
      BY <1>7, <3>1
    <3>2. CASE i # k + 1
      <4>1. k \in Nat /\ k \in 1..N /\ (k + 1) - 1 = k /\ k + 1 # 1 /\ i <= k /\ k < i + B(i)
        BY <1>2, <2>2, <3>2
      <4>2. I[k] = i
        BY <2>2, <4>1
      <4> QED
        BY <1>3, <4>1, <4>2
    <3> QED
      BY <3>1, <3>2
  <2>3. T = Nat
    <3>1. T \in SUBSET Nat
      OBVIOUS
    <3> HIDE DEF T
    <3> QED
      BY <2>1, <2>2, <3>1, TodosOsNaturais
  <2> QED
    BY <2>3
<1> QED
  BY <1>4, <1>6, <1>7 DEF I, B

\* The image of a finite set.
LEMMA ImagemFinita ==
    ASSUME NEW S, IsFiniteSet(S), NEW g
    PROVE  IsFiniteSet({g[x] : x \in S})
<1> DEFINE T == {g[x] : x \in S}
           h == [x \in S |-> g[x]]
<1>1. h \in [S -> T] /\ \A y \in T : \E x \in S : h[x] = y
  OBVIOUS
<1> HIDE DEF h, T
<1>2. h \in Surjection(S, T)
  BY <1>1 DEF Surjection
<1>3. IsFiniteSet(T)
  BY <1>2, FS_Surjection
<1> QED
  BY <1>3 DEF T

\* Quotient and rest.
LEMMA RestoDaDivisao ==
    ASSUME NEW t \in Nat, NEW l \in Nat \ {0}
    PROVE  t \div l \in Nat /\ t % l \in 0..(l - 1) /\ t = l * (t \div l) + (t % l)
<1>1. t \in Int /\ l \in Int /\ l > 0 /\ l \in Nat
  OBVIOUS
<1>2. t \div l \in Nat
  BY <1>1
<1>3. t % l \in 0..(l - 1)
  BY <1>1
<1>4. t = l * (t \div l) + (t % l)
  BY <1>1, Z3
<1> QED
  BY <1>2, <1>3, <1>4, Zenon

\* The nights of a package cost what it costs, whatever the division leaves.
LEMMA PacoteRepartido ==
    ASSUME NEW s \in Nat, NEW pk \in Pacote, pk.noites >= 2, NEW f \in [Janela(s, pk) -> Int],
           \A j \in Janela(s, pk) :
               f[j] = (pk.total \div pk.noites)
                          + (IF (j - s) + 1 <= pk.total % pk.noites THEN 1 ELSE 0)
    PROVE  Soma(f) = pk.total
<1> DEFINE D == Janela(s, pk)
           l == pk.noites
           q == pk.total \div l
           r == pk.total % l
           a == s..(s + r - 1)
           b == (s + r)..(s + l - 1)
<1>1. l \in Nat /\ l >= 2 /\ pk.total \in Nat /\ D = s..(s + l - 1)
  BY DEF Pacote, Janela
<1>2. q \in Nat /\ r \in 0..(l - 1) /\ pk.total = l * q + r
  <2>1. pk.total \in Nat /\ l \in Nat \ {0}
    BY <1>1
  <2> HIDE DEF l
  <2> QED
    BY <2>1, RestoDaDivisao
<1>3. \A j \in D : f[j] = q + (IF (j - s) + 1 <= r THEN 1 ELSE 0)
  OBVIOUS
<1>4. f \in [D -> Int]
  OBVIOUS
<1> HIDE DEF D, l, q, r
<1>5. IsFiniteSet(D)
  BY <1>1, FS_Interval
<1>6. a \in SUBSET D /\ b \in SUBSET D /\ a \cap b = {} /\ a \cup b = D
  BY <1>1, <1>2
<1>7. \A j \in a : f[j] = q + 1
  BY <1>1, <1>2, <1>3
<1>8. \A j \in b : f[j] = q
  BY <1>1, <1>2, <1>3
<1>9. Cardinality(a) = r /\ Cardinality(b) = l - r
  <2>1. s \in Int /\ s + r - 1 \in Int /\ s + r \in Int /\ s + l - 1 \in Int
    BY <1>1, <1>2
  <2>2. \A x, y \in Int : Cardinality(x..y) = IF x > y THEN 0 ELSE y - x + 1
    BY FS_Interval
  <2> QED
    <3>1. Cardinality(a) = IF s > s + r - 1 THEN 0 ELSE (s + r - 1) - s + 1
      BY <2>1, <2>2, Zenon
    <3>2. Cardinality(b) = IF s + r > s + l - 1 THEN 0 ELSE (s + l - 1) - (s + r) + 1
      BY <2>1, <2>2, Zenon
    <3> QED
      BY <1>1, <1>2, <3>1, <3>2
<1> HIDE DEF a, b
<1>10. Parte(f, a) = (q + 1) * r
  <2> DEFINE c == q + 1
  <2>1. c \in Int /\ \A j \in a : f[j] = c
    BY <1>2, <1>7
  <2> HIDE DEF c
  <2>2. Parte(f, a) = c * Cardinality(a)
    BY <1>4, <1>5, <1>6, <2>1, ParteConta
  <2> QED
    BY <1>9, <2>2 DEF c
<1>11. Parte(f, b) = q * (l - r)
  BY <1>2, <1>4, <1>5, <1>6, <1>8, <1>9, ParteConta
<1>12. Soma(f) = Parte(f, a) + Parte(f, b)
  BY <1>4, <1>5, <1>6, ParteRetira, ParteUne
<1>13. (q + 1) * r + q * (l - r) = l * q + r
  BY <1>1, <1>2
<1> QED
  BY <1>2, <1>10, <1>11, <1>12, <1>13

\* The price of some nights is part of the price of all.
LEMMA PrecoEhParte ==
    ASSUME NEW D, NEW noites \in [D -> Noite], NEW s \in SUBSET D
    PROVE  Preco(noites, s) = Parte([i \in D |-> noites[i].preco], s)
<1>1. [i \in s |-> [j \in D |-> noites[j].preco][i]] = [i \in s |-> noites[i].preco]
  OBVIOUS
<1> QED
  BY <1>1 DEF Preco, Parte

\* The nights of a stay.
NoitesDe(N) == [1..N -> Noite]

\* The nights of a turn that took a package.
LEMMA PacoteTomado ==
    ASSUME NEW N \in Nat, NEW noites \in NoitesDe(N), NEW pacotes \in Seq(Pacote),
           NEW s \in 1..N, Inicios(noites, pacotes)[s] = s, Servem(noites, s, pacotes) # {}
    PROVE  LET pk == Escolhido(noites, s, pacotes)
               n == ApplyPackages(noites, pacotes)
           IN  /\ pk \in Pacote /\ pk.noites >= 2
               /\ Janela(s, pk) = {j \in 1..N : Inicios(noites, pacotes)[j] = s}
               /\ \A j \in Janela(s, pk) : n[j].pacote = pk.noites /\ n[j].tipo \in pk.tipos
               /\ Preco(n, Janela(s, pk)) = pk.total
               /\ pk.total < Preco(noites, Janela(s, pk))
<1> DEFINE I == Inicios(noites, pacotes)
           pk == Escolhido(noites, s, pacotes)
           n == ApplyPackages(noites, pacotes)
           W == Janela(s, pk)
<1>1. pk \in Pacote /\ Serve(noites, s, pk)
  BY EscolhidoServe
<1>2. DOMAIN noites = 1..N /\ Len(noites) = N /\ \A j \in 1..N : noites[j] \in Noite
  BY DEF NoitesDe
<1>3. /\ \A j \in 1..N : I[j] \in 1..j /\ I[I[j]] = I[j] /\ j < I[j] + Passada(noites, I[j], pacotes)
      /\ \A i, j \in 1..N : I[i] = i /\ i <= j /\ j < i + Passada(noites, i, pacotes) => I[j] = i
  BY <1>2, IniciosAndam
<1>4. Passada(noites, s, pacotes) = pk.noites
  BY DEF Passada
<1>5. n = [j \in 1..N |-> IF Servem(noites, I[j], pacotes) = {} THEN noites[j]
                          ELSE Repartir(noites[j], (j - I[j]) + 1, Escolhido(noites, I[j], pacotes))]
  BY <1>2 DEF ApplyPackages
<1>6. I[s] = s
  OBVIOUS
<1> HIDE DEF I, n
<1>7. \A j \in 1..N : I[j] = s => n[j] = Repartir(noites[j], (j - s) + 1, pk)
  BY <1>5
<1> HIDE DEF pk
<1>8. /\ pk.noites \in Nat /\ pk.noites >= 2 /\ s + pk.noites - 1 <= N
      /\ \A j \in W : noites[j].tipo \in pk.tipos
      /\ pk.total < Preco(noites, W)
  BY <1>1, <1>2 DEF Serve, Pacote
<1>9. W = {j \in 1..N : I[j] = s}
  <2>1. \A j : j \in W <=> j \in 1..N /\ s <= j /\ j < s + pk.noites
    BY <1>8 DEF Janela
  <2>2. \A j \in 1..N : I[j] = s => s <= j /\ j < s + pk.noites
    BY <1>3, <1>4
  <2>3. \A j \in 1..N : s <= j /\ j < s + pk.noites => I[j] = s
    BY <1>3, <1>4, <1>6
  <2> QED
    BY <2>1, <2>2, <2>3
<1>10. ASSUME NEW j \in W
       PROVE  /\ n[j].pacote = pk.noites /\ n[j].tipo = noites[j].tipo
              /\ n[j].preco = (pk.total \div pk.noites)
                                  + (IF (j - s) + 1 <= pk.total % pk.noites THEN 1 ELSE 0)
  <2>1. n[j] = Repartir(noites[j], (j - s) + 1, pk) /\ noites[j] \in Noite
    BY <1>2, <1>7, <1>9
  <2> QED
    BY <2>1 DEF Repartir, Noite
<1>11. Preco(n, W) = pk.total
  <2> DEFINE f == [j \in W |-> n[j].preco]
  <2>1. pk.total \in Nat /\ pk.noites \in Nat \ {0} /\ s \in Nat
    BY <1>1, <1>8 DEF Pacote
  <2>2. pk.total \div pk.noites \in Nat
    BY <2>1, RestoDaDivisao
  <2>3. \A j \in W : n[j].preco \in Int
    BY <1>10, <2>2
  <2>4. f \in [Janela(s, pk) -> Int]
    BY <2>3
  <2>5. \A j \in Janela(s, pk) :
               f[j] = (pk.total \div pk.noites)
                          + (IF (j - s) + 1 <= pk.total % pk.noites THEN 1 ELSE 0)
    BY <1>10
  <2> HIDE DEF f
  <2>6. Soma(f) = pk.total
    BY <1>1, <1>8, <2>1, <2>4, <2>5, PacoteRepartido
  <2> QED
    BY <2>6 DEF Preco, f
<1>12. \A j \in W : n[j].tipo \in pk.tipos
  BY <1>8, <1>10
<1> QED
  BY <1>1, <1>8, <1>9, <1>10, <1>11, <1>12 DEF pk, I, n

\* What the packages do to the nights of a stay: each stays itself, the packages are
\* whole, and the stay costs less exactly when there is one.
LEMMA PacotesAplicados ==
    ASSUME NEW N \in Nat, NEW noites \in NoitesDe(N), NEW pacotes \in Seq(Pacote),
           \A j \in 1..N : noites[j].pacote = 0
    PROVE  LET n == ApplyPackages(noites, pacotes)
           IN  /\ n \in NoitesDe(N)
               /\ \A j \in 1..N : n[j].dia = noites[j].dia /\ n[j].tipo = noites[j].tipo
               /\ \A j \in 1..N : n[j].pacote = 0 => n[j] = noites[j]
               /\ Preco(n, 1..N) \in Int /\ Preco(noites, 1..N) \in Int
               /\ Preco(n, 1..N) <= Preco(noites, 1..N)
               /\ Preco(n, 1..N) = Preco(noites, 1..N) <=> \A j \in 1..N : n[j].pacote = 0
               /\ PacotesInteiros(n, noites, pacotes)
<1> DEFINE I == Inicios(noites, pacotes)
           n == ApplyPackages(noites, pacotes)
           C == {s \in 1..N : I[s] = s}
           T == {s \in C : Servem(noites, s, pacotes) # {}}
           Pk(s) == Escolhido(noites, s, pacotes)
           P == [s \in C |-> {j \in 1..N : I[j] = s}]
           A == [j \in 1..N |-> noites[j].preco]
           B == [j \in 1..N |-> n[j].preco]
           F == [s \in C |-> Parte(A, P[s])]
           G == [s \in C |-> Parte(B, P[s])]
<1>1. DOMAIN noites = 1..N /\ Len(noites) = N /\ \A j \in 1..N : noites[j] \in Noite
  BY DEF NoitesDe
<1>2. /\ \A j \in 1..N : I[j] \in 1..j /\ I[I[j]] = I[j] /\ j < I[j] + Passada(noites, I[j], pacotes)
      /\ \A i, j \in 1..N : I[i] = i /\ i <= j /\ j < i + Passada(noites, i, pacotes) => I[j] = i
  BY <1>1, IniciosAndam
<1>3. n = [j \in 1..N |-> IF Servem(noites, I[j], pacotes) = {} THEN noites[j]
                          ELSE Repartir(noites[j], (j - I[j]) + 1, Pk(I[j]))]
  BY <1>1 DEF ApplyPackages
<1>4. \A j \in 1..N : I[j] \in 1..N /\ I[j] \in C /\ I[j] <= j
  BY <1>2
<1>5. ASSUME NEW s \in T
      PROVE  /\ Pk(s) \in Pacote /\ Pk(s).noites >= 2
             /\ Janela(s, Pk(s)) = {j \in 1..N : I[j] = s}
             /\ \A j \in Janela(s, Pk(s)) : n[j].pacote = Pk(s).noites /\ n[j].tipo \in Pk(s).tipos
             /\ Preco(n, Janela(s, Pk(s))) = Pk(s).total
             /\ Pk(s).total < Preco(noites, Janela(s, Pk(s)))
             /\ Passada(noites, s, pacotes) = Pk(s).noites
             /\ \E k \in DOMAIN pacotes : Pk(s) = pacotes[k]
  <2>1. s \in 1..N /\ I[s] = s /\ Servem(noites, s, pacotes) # {}
    OBVIOUS
  <2>2. Passada(noites, s, pacotes) = Pk(s).noites
    BY <2>1 DEF Passada
  <2>3. \E k \in DOMAIN pacotes : Pk(s) = pacotes[k]
    BY <2>1, EscolhidoServe
  <2> QED
    BY <2>1, <2>2, <2>3, PacoteTomado
<1> HIDE DEF I, n, Pk
<1>6. ASSUME NEW j \in 1..N, I[j] \in T
      PROVE  /\ n[j] \in Noite /\ n[j].dia = noites[j].dia /\ n[j].tipo = noites[j].tipo
             /\ n[j].pacote = Pk(I[j]).noites /\ n[j].pacote >= 2
  <2>1. /\ n[j] = Repartir(noites[j], (j - I[j]) + 1, Pk(I[j])) /\ noites[j] \in Noite
        /\ Pk(I[j]) \in Pacote /\ Pk(I[j]).noites >= 2
    BY <1>1, <1>3, <1>5, <1>6
  <2>2. /\ Pk(I[j]).noites \in Nat \ {0} /\ Pk(I[j]).total \in Nat /\ Pk(I[j]).noites >= 2
    BY <2>1 DEF Pacote
  <2>3. Pk(I[j]).total \div Pk(I[j]).noites \in Nat
    BY <2>2, RestoDaDivisao
  <2> DEFINE v == (Pk(I[j]).total \div Pk(I[j]).noites)
                     + (IF (j - I[j]) + 1 <= Pk(I[j]).total % Pk(I[j]).noites THEN 1 ELSE 0)
  <2>4. v \in Nat
    BY <2>3
  <2>5. n[j] = [noites[j] EXCEPT !.pacote = Pk(I[j]).noites, !.preco = v]
    BY <2>1 DEF Repartir
  <2> HIDE DEF v
  <2> QED
    BY <2>1, <2>2, <2>4, <2>5 DEF Noite
<1>7. ASSUME NEW j \in 1..N, I[j] \notin T
      PROVE  n[j] = noites[j]
  BY <1>3, <1>4, <1>7
<1>8. \A j \in 1..N : /\ n[j] \in Noite /\ n[j].dia = noites[j].dia /\ n[j].tipo = noites[j].tipo
                      /\ n[j].pacote = 0 <=> I[j] \notin T
                      /\ n[j].pacote = 0 => n[j] = noites[j]
  BY <1>1, <1>6, <1>7
<1>9. n \in NoitesDe(N)
  BY <1>3, <1>8 DEF NoitesDe
<1>10. /\ A \in [1..N -> Int] /\ B \in [1..N -> Int]
       /\ \A s \in SUBSET (1..N) : Preco(noites, s) = Parte(A, s) /\ Preco(n, s) = Parte(B, s)
  <2>1. ASSUME NEW j \in 1..N PROVE noites[j].preco \in Int /\ n[j].preco \in Int
    <3>1. noites[j] \in Noite /\ n[j] \in Noite
      BY <1>1, <1>8
    <3> QED
      BY <3>1 DEF Noite
  <2> QED
    BY <1>9, <2>1, PrecoEhParte DEF NoitesDe
<1>11. /\ IsFiniteSet(1..N) /\ C \in SUBSET (1..N) /\ IsFiniteSet(C)
       /\ P \in [C -> SUBSET (1..N)] /\ \A c, e \in C : c # e => P[c] \cap P[e] = {}
  <2>1. IsFiniteSet(1..N)
    BY FS_Interval
  <2> QED
    BY <2>1, FS_Subset
<1>12. UNION {P[s] : s \in C} = 1..N
  <2>1. ASSUME NEW j \in 1..N PROVE j \in P[I[j]] /\ I[j] \in C
    BY <1>4
  <2>2. \A s \in C : P[s] \subseteq 1..N
    BY <1>11
  <2> HIDE DEF P, C
  <2> QED
    BY <2>1, <2>2
<1>13. ASSUME NEW s \in C PROVE P[s] \in SUBSET (1..N) /\ P[s] = {j \in 1..N : I[j] = s}
  OBVIOUS
<1> HIDE DEF A, B, P
<1>14. \A s \in SUBSET (1..N) : Parte(A, s) \in Int /\ Parte(B, s) \in Int
  BY <1>10, <1>11, ParteRetira
<1>15. F \in [C -> Int] /\ G \in [C -> Int]
  BY <1>13, <1>14
<1>16. ASSUME NEW s \in C
       PROVE  G[s] <= F[s] /\ (s \in T => G[s] < F[s]) /\ (s \notin T => G[s] = F[s])
  <2>1. F[s] = Preco(noites, P[s]) /\ G[s] = Preco(n, P[s]) /\ F[s] \in Int /\ G[s] \in Int
    BY <1>10, <1>13, <1>14
  <2>2. CASE s \in T
    <3>1. P[s] = Janela(s, Pk(s))
      BY <1>5, <1>13, <2>2
    <3>2. G[s] < F[s]
      BY <1>5, <2>1, <2>2, <3>1
    <3> QED
      BY <2>1, <2>2, <3>2
  <2>3. CASE s \notin T
    <3>1. \A j \in P[s] : n[j] = noites[j]
      BY <1>7, <1>13, <2>3
    <3>2. [j \in P[s] |-> n[j].preco] = [j \in P[s] |-> noites[j].preco]
      BY <3>1
    <3>3. Preco(n, P[s]) = Preco(noites, P[s])
      BY <3>2 DEF Preco
    <3> QED
      BY <2>1, <2>3, <3>3
  <2> QED
    BY <2>2, <2>3
<1> HIDE DEF F, G
<1>17. Preco(noites, 1..N) = Parte(F, C) /\ Preco(n, 1..N) = Parte(G, C)
  <2>1. C \in SUBSET C /\ 1..N \in SUBSET (1..N)
    OBVIOUS
  <2>2. Parte(A, UNION {P[s] : s \in C}) = Parte(F, C)
    <3>1. F = [c \in C |-> Parte(A, P[c])]
      BY DEF F
    <3> HIDE DEF C
    <3>2. \A s \in SUBSET C :
             Parte(A, UNION {P[c] : c \in s}) = Parte([c \in C |-> Parte(A, P[c])], s)
      <4>1. A \in [1..N -> Int]
        BY <1>10
      <4> DEFINE D == 1..N
      <4>2. /\ A \in [D -> Int] /\ IsFiniteSet(D) /\ IsFiniteSet(C) /\ P \in [C -> SUBSET D]
            /\ \A c, e \in C : c # e => P[c] \cap P[e] = {}
        BY <1>11, <4>1
      <4> HIDE DEF D
      <4> QED
        BY <4>2, ParteAgrupa
    <3> QED
      BY <2>1, <3>1, <3>2
  <2>3. Parte(B, UNION {P[s] : s \in C}) = Parte(G, C)
    <3>1. G = [c \in C |-> Parte(B, P[c])]
      BY DEF G
    <3> HIDE DEF C
    <3>2. \A s \in SUBSET C :
             Parte(B, UNION {P[c] : c \in s}) = Parte([c \in C |-> Parte(B, P[c])], s)
      <4>1. B \in [1..N -> Int]
        BY <1>10
      <4> DEFINE D == 1..N
      <4>2. /\ B \in [D -> Int] /\ IsFiniteSet(D) /\ IsFiniteSet(C) /\ P \in [C -> SUBSET D]
            /\ \A c, e \in C : c # e => P[c] \cap P[e] = {}
        BY <1>11, <4>1
      <4> HIDE DEF D
      <4> QED
        BY <4>2, ParteAgrupa
    <3> QED
      BY <2>1, <3>1, <3>2
  <2> QED
    BY <1>10, <1>12, <2>1, <2>2, <2>3
<1>18. /\ Preco(n, 1..N) <= Preco(noites, 1..N)
       /\ (\E s \in C : s \in T) => Preco(n, 1..N) < Preco(noites, 1..N)
  <2>1. C \in SUBSET C
    OBVIOUS
  <2>2. /\ Parte(G, C) <= Parte(F, C)
        /\ (\E s \in C : G[s] < F[s]) => Parte(G, C) < Parte(F, C)
    <3>1. \A s \in C : G[s] <= F[s]
      BY <1>16
    <3> HIDE DEF C
    <3> QED
      BY <1>11, <1>15, <2>1, <3>1, ParteCresce
  <2> QED
    BY <1>16, <1>17, <2>2
<1>19. Preco(n, 1..N) = Preco(noites, 1..N) <=> \A j \in 1..N : n[j].pacote = 0
  <2>1. ASSUME \A j \in 1..N : n[j].pacote = 0 PROVE Preco(n, 1..N) = Preco(noites, 1..N)
    <3>1. [j \in 1..N |-> n[j].preco] = [j \in 1..N |-> noites[j].preco]
      BY <1>8, <2>1
    <3> QED
      BY <3>1 DEF Preco
  <2>2. ASSUME NEW j \in 1..N, n[j].pacote # 0 PROVE \E s \in C : s \in T
    BY <1>4, <1>8, <2>2
  <2>3. Preco(n, 1..N) \in Int /\ Preco(noites, 1..N) \in Int
    BY <1>10, <1>14
  <2> QED
    BY <1>18, <2>1, <2>2, <2>3
<1>20. PacotesInteiros(n, noites, pacotes)
  <2>1. DOMAIN n = 1..N /\ T \in SUBSET (1..N)
    BY <1>3
  <2>2. ASSUME NEW i \in T
        PROVE  \E k \in DOMAIN pacotes :
                 /\ Janela(i, pacotes[k]) \subseteq DOMAIN n
                 /\ \A j \in Janela(i, pacotes[k]) :
                       n[j].pacote = pacotes[k].noites /\ n[j].tipo \in pacotes[k].tipos
                 /\ Preco(n, Janela(i, pacotes[k])) = pacotes[k].total
                 /\ pacotes[k].total < Preco(noites, Janela(i, pacotes[k]))
    <3>1. PICK k \in DOMAIN pacotes : Pk(i) = pacotes[k]
      BY <1>5
    <3>2. Janela(i, Pk(i)) \subseteq DOMAIN n
      BY <1>5, <2>1
    <3> QED
      BY <1>5, <3>1, <3>2
  <2>3. ASSUME NEW i \in T PROVE n[i].pacote = Passada(noites, i, pacotes) /\ i \in 1..N /\ I[i] = i
    <3>1. i \in 1..N /\ I[i] = i
      OBVIOUS
    <3> QED
      BY <1>5, <1>6, <3>1
  <2>4. ASSUME NEW j \in 1..N
        PROVE  n[j].pacote > 0 <=> \E i \in T : i <= j /\ j < i + n[i].pacote
    <3>1. n[j].pacote \in Nat
      BY <1>8 DEF Noite
    <3>2. ASSUME I[j] \in T PROVE I[j] <= j /\ j < I[j] + n[I[j]].pacote
      BY <1>2, <1>4, <2>3, <3>2
    <3>3. ASSUME NEW i \in T, i <= j, j < i + n[i].pacote PROVE I[j] = i
      BY <1>2, <2>3, <3>3
    <3>4. n[j].pacote > 0 <=> I[j] \in T
      BY <1>8, <3>1
    <3> QED
      BY <3>2, <3>3, <3>4
  <2>5. ASSUME NEW i \in T, NEW j \in T, i < j PROVE i + n[i].pacote <= j
    <3>1. i \in 1..N /\ j \in 1..N /\ I[i] = i /\ I[j] = j
      BY <2>3
    <3>2. n[i].pacote \in Nat /\ n[i].pacote = Passada(noites, i, pacotes)
      BY <1>8, <2>3, <3>1 DEF Noite
    <3>3. ~(j < i + n[i].pacote)
      BY <1>2, <2>5, <3>1, <3>2
    <3> QED
      BY <3>1, <3>2, <3>3
  <2> HIDE DEF T
  <2> QED
    BY <2>1, <2>2, <2>4, <2>5 DEF PacotesInteiros
<1>21. Preco(n, 1..N) \in Int /\ Preco(noites, 1..N) \in Int
  BY <1>10, <1>14
<1> QED
  BY <1>8, <1>9, <1>18, <1>19, <1>20, <1>21 DEF n

\* The lines of a quote share out its nights, and so their price.
LEMMA LinhasFecham ==
    ASSUME NEW N \in Nat, NEW n \in NoitesDe(N)
    PROVE  /\ Soma([l \in Linhas(n) |-> l.noites]) = N
           /\ Soma([l \in Linhas(n) |-> l.subtotal]) = Preco(n, 1..N)
<1> DEFINE D == 1..N
           A == [i \in D |-> n[i].preco]
           U == [i \in D |-> 1]
           k == [i \in D |-> LinhaDe(n[i])]
           K == {k[i] : i \in D}
           Da(x) == {i \in D : k[i] = x}
           r == [x \in K |-> [linha |-> x, noites |-> Cardinality(Da(x)), subtotal |-> Preco(n, Da(x))]]
           C == {r[x] : x \in K}
           P == [l \in C |-> Da(l.linha)]
<1>1. DOMAIN n = D /\ n \in [D -> Noite]
  BY DEF NoitesDe
<1>2. \A i \in D : n[i].preco \in Int
  BY <1>1 DEF Noite
<1>3. Linhas(n) = C
  <2>1. K = {LinhaDe(n[i]) : i \in D}
    OBVIOUS
  <2>2. \A x : Da(x) = {i \in D : LinhaDe(n[i]) = x}
    OBVIOUS
  <2>3. Linhas(n) = {[linha |-> x, noites |-> Cardinality(Da(x)), subtotal |-> Preco(n, Da(x))] : x \in K}
    <3> HIDE DEF Da, K
    <3> QED
      BY <1>1, <2>1, <2>2 DEF Linhas
  <2>4. \A x \in K : r[x] = [linha |-> x, noites |-> Cardinality(Da(x)), subtotal |-> Preco(n, Da(x))]
    OBVIOUS
  <2> HIDE DEF r, K, Da
  <2> QED
    BY <2>3, <2>4
<1>4. IsFiniteSet(D) /\ Cardinality(D) = N
  BY FS_Interval
<1>5. IsFiniteSet(K)
  <2> HIDE DEF k
  <2> QED
    BY <1>4, ImagemFinita
<1>6. IsFiniteSet(C)
  <2> HIDE DEF r, K
  <2> QED
    BY <1>5, ImagemFinita
<1>7. \A l \in C : /\ l.linha \in K /\ l = r[l.linha]
                   /\ l.noites = Cardinality(Da(l.linha)) /\ l.subtotal = Preco(n, Da(l.linha))
  <2>1. \A x \in K : /\ r[x].linha = x
                      /\ r[x].noites = Cardinality(Da(x)) /\ r[x].subtotal = Preco(n, Da(x))
    <3> HIDE DEF K, Da
    <3> QED
      OBVIOUS
  <2> HIDE DEF K, Da, r
  <2>2. \A l \in C : \E x \in K : l = r[x]
    OBVIOUS
  <2> QED
    BY <2>1, <2>2
<1>8. \A x \in K : r[x] \in C /\ r[x].linha = x
  <2> HIDE DEF K, Da
  <2> QED
    OBVIOUS
<1>9. \A i \in D : k[i] \in K
  OBVIOUS
<1> HIDE DEF C, r, k, K
<1>10. /\ P \in [C -> SUBSET D] /\ \A c, e \in C : c # e => P[c] \cap P[e] = {}
       /\ \A l \in C : P[l] = Da(l.linha)
  <2>1. \A c, e \in C : c # e => c.linha # e.linha
    BY <1>7
  <2> QED
    BY <2>1
<1>11. UNION {P[l] : l \in C} = D
  <2>1. ASSUME NEW i \in D PROVE r[k[i]] \in C /\ i \in P[r[k[i]]]
    BY <1>8, <1>9, <1>10
  <2> HIDE DEF P
  <2> QED
    BY <1>10, <2>1
<1> HIDE DEF P
<1>12. A \in [D -> Int] /\ U \in [D -> Int] /\ \A i \in D : U[i] = 1
  BY <1>2
<1>13. \A s \in SUBSET D : Preco(n, s) = Parte(A, s) /\ Cardinality(s) = Parte(U, s)
  <2>1. \A s \in SUBSET D : Preco(n, s) = Parte(A, s)
    BY <1>1, PrecoEhParte
  <2>2. ASSUME NEW s \in SUBSET D PROVE Cardinality(s) = Parte(U, s)
    <3>1. Cardinality(s) \in Nat
      BY <1>4, FS_Subset, FS_CardinalityType
    <3>2. U \in [D -> Int] /\ \A i \in s : U[i] = 1
      BY <1>12
    <3> HIDE DEF U, D
    <3>3. Parte(U, s) = 1 * Cardinality(s)
      BY <1>4, <3>2, ParteConta
    <3> QED
      BY <3>1, <3>3
  <2> QED
    BY <2>1, <2>2
<1> HIDE DEF A, U, D
<1>14. \A s \in SUBSET D : Parte(A, s) \in Int /\ Parte(U, s) \in Int
  BY <1>4, <1>12, ParteRetira
<1>15. /\ Parte(A, D) = Parte([c \in C |-> Parte(A, P[c])], C)
       /\ Parte(U, D) = Parte([c \in C |-> Parte(U, P[c])], C)
  <2>1. C \in SUBSET C
    OBVIOUS
  <2>2. Parte(A, UNION {P[c] : c \in C}) = Parte([c \in C |-> Parte(A, P[c])], C)
    BY <1>4, <1>6, <1>10, <1>12, <2>1, ParteAgrupa
  <2>3. Parte(U, UNION {P[c] : c \in C}) = Parte([c \in C |-> Parte(U, P[c])], C)
    BY <1>4, <1>6, <1>10, <1>12, <2>1, ParteAgrupa
  <2> QED
    BY <1>11, <2>2, <2>3
<1>16. \A l \in C : P[l] \in SUBSET D /\ l.subtotal = Parte(A, P[l]) /\ l.noites = Parte(U, P[l])
  BY <1>7, <1>10, <1>13
<1>17. /\ [l \in C |-> l.subtotal] = [c \in C |-> Parte(A, P[c])]
       /\ [l \in C |-> l.noites] = [c \in C |-> Parte(U, P[c])]
  BY <1>16
<1>18. \A h \in [C -> Int] : Parte(h, C) = Soma(h)
  BY <1>6, ParteRetira
<1>19. /\ [c \in C |-> Parte(A, P[c])] \in [C -> Int]
       /\ [c \in C |-> Parte(U, P[c])] \in [C -> Int]
  BY <1>14, <1>16
<1>20. D \in SUBSET D
  OBVIOUS
<1>21. Soma([l \in C |-> l.subtotal]) = Preco(n, D) /\ Soma([l \in C |-> l.noites]) = N
  BY <1>4, <1>13, <1>15, <1>17, <1>18, <1>19, <1>20
<1> QED
  BY <1>3, <1>21 DEF D

-----------------------------------------------------------------------------
(* A quote.                                                                *)

\* A sequence given by its elements.
LEMMA SequenciaDada ==
    ASSUME NEW N \in Nat, NEW f, f = [i \in 1..N |-> f[i]]
    PROVE  <<>> \o f = f /\ Len(f) = N /\ DOMAIN f = 1..N
<1> DEFINE S == {f[i] : i \in 1..N}
<1>1. DOMAIN f = 1..N
  OBVIOUS
<1>2. f \in [1..N -> S]
  <2>1. \A i \in 1..N : f[i] \in S
    OBVIOUS
  <2> HIDE DEF S
  <2> QED
    BY <2>1
<1> HIDE DEF S
<1>3. f \in Seq(S) /\ Len(f) = N
  BY <1>2
<1>4. <<>> \o f = f
  BY <1>3, ConcatEmptySeq
<1> QED
  BY <1>1, <1>3, <1>4

\* A percentage of an amount is part of it.
LEMMA PctCabe ==
    ASSUME NEW v \in Nat, NEW pct \in 0..100
    PROVE  Pct(v, pct) \in 0..v
<1> DEFINE m == v * pct
<1>1. m \in Nat /\ m <= 100 * v
  BY Z3
<1>2. 2 * v * pct = 2 * m
  BY Z3
<1> HIDE DEF m
<1>3. (2 * m + 100) \div 200 \in 0..v
  BY <1>1
<1> QED
  BY <1>2, <1>3 DEF Pct

\* Prices are amounts.
LEMMA PrecoNatural ==
    ASSUME NEW N \in Nat, NEW n \in NoitesDe(N), NEW s \in SUBSET (1..N)
    PROVE  Preco(n, s) \in Nat
<1> DEFINE D == 1..N
           A == [i \in D |-> n[i].preco]
           Z == [i \in D |-> 0]
<1>1. n \in [D -> Noite] /\ IsFiniteSet(D) /\ s \in SUBSET D
  BY FS_Interval DEF NoitesDe
<1>2. \A i \in D : n[i].preco \in Nat
  BY <1>1 DEF Noite
<1>3. A \in [D -> Int] /\ Z \in [D -> Int] /\ (\A i \in D : Z[i] <= A[i]) /\ \A i \in s : Z[i] = 0
  BY <1>1, <1>2
<1>4. Preco(n, s) = Parte(A, s)
  BY <1>1, PrecoEhParte
<1>8. \A i \in s : Z[i] = 0
  BY <1>1
<1> HIDE DEF A, Z, D
<1>5. Parte(A, s) \in Int /\ Parte(Z, s) <= Parte(A, s)
  BY <1>1, <1>3, ParteRetira, ParteCresce
<1>6. Parte(Z, s) = 0 * Cardinality(s)
  <2>1. 0 \in Int
    OBVIOUS
  <2> DEFINE c == 0
  <2>2. c \in Int /\ \A i \in s : Z[i] = c
    BY <1>8
  <2> HIDE DEF c
  <2>3. Parte(Z, s) = c * Cardinality(s)
    BY <1>1, <1>3, <2>2, ParteConta
  <2> QED
    BY <2>3 DEF c
<1>7. Cardinality(s) \in Nat
  BY <1>1, FS_Subset, FS_CardinalityType
<1> QED
  BY <1>4, <1>5, <1>6, <1>7

\* The columns of what is configured.
TiposMotor ==
    /\ periodos \in SUBSET Especiais
    /\ tarifas \in [Vendidos -> [Tipos -> Precos \cup {SemValor}]]
    /\ minimos \in [Tipos -> Noites \cup {SemValor}]
    /\ regras \in [Vendidos -> Regras]
    /\ ativas \in SUBSET Unidades
    /\ blocos \in Mapas

\* Every action leaves the columns what they are.
LEMMA MotorComeca == ASSUME InitMotor PROVE TiposMotor
<1>1. PICK v \in Precos :
          tarifas = [p \in Vendidos |-> [t \in Tipos |-> IF t = "reveillon" THEN SemValor ELSE v]]
  BY DEF InitMotor
<1>2. tarifas \in [Vendidos -> [Tipos -> Precos \cup {SemValor}]]
  BY <1>1
<1>3. minimos \in [Tipos -> Noites \cup {SemValor}]
  BY DEF InitMotor
<1>4. regras \in [Vendidos -> Regras]
  BY DEF InitMotor
<1>5. ativas \in SUBSET Unidades /\ blocos \in Mapas /\ periodos \in SUBSET Especiais
  BY DEF InitMotor
<1> QED
  BY <1>2, <1>3, <1>4, <1>5 DEF TiposMotor

LEMMA MotorSegue == ASSUME TiposMotor, [NextMotor]_varsMotor PROVE TiposMotor'
<1>1. CASE \E d \in Feriados : SalvarFeriado(d)
  BY <1>1 DEF TiposMotor, SalvarFeriado
<1>2. CASE \E e \in Especiais : SalvarPeriodo(e)
  BY <1>2 DEF TiposMotor, SalvarPeriodo
<1>3. CASE \E c \in Editadas, v \in Precos \cup {SemValor} : SalvarTarifa(c, v)
  <2>1. PICK c \in Editadas, v \in Precos \cup {SemValor} : SalvarTarifa(c, v)
    BY <1>3
  <2>2. tarifas' \in [Vendidos -> [Tipos -> Precos \cup {SemValor}]]
    BY <2>1 DEF TiposMotor, SalvarTarifa
  <2> QED
    BY <2>1, <2>2 DEF TiposMotor, SalvarTarifa
<1>4. CASE \E t \in ComMinimo, n \in Noites \cup {SemValor} : SalvarMinimo(t, n)
  BY <1>4 DEF TiposMotor, SalvarMinimo
<1>5. CASE \E u \in Unidades : AtivarUnidade(u)
  BY <1>5 DEF TiposMotor, AtivarUnidade
<1>6. CASE MudarMapa
  BY <1>6 DEF TiposMotor, MudarMapa
<1>7. CASE UNCHANGED varsMotor
  BY <1>7 DEF TiposMotor, varsMotor
<1> QED
  BY <1>1, <1>2, <1>3, <1>4, <1>5, <1>6, <1>7 DEF NextMotor

LEMMA MotorTipado == SpecMotor => []TiposMotor
<1>1. InitMotor => TiposMotor
  BY MotorComeca
<1>2. TiposMotor /\ [NextMotor]_varsMotor => TiposMotor'
  BY MotorSegue
<1> QED
  BY <1>1, <1>2, PTL DEF SpecMotor

\* A quote of nights that have a price adds up.
LEMMA QuoteFecha ==
    ASSUME TiposMotor, NEW p \in Vendidos, NEW N \in Nat, NEW avulsas \in NoitesDe(N),
           \A i \in 1..N : avulsas[i].pacote = 0,
           NEW desconto \in 0..100, NEW evento \in BOOLEAN
    PROVE  Fecha(p, Quote(p, avulsas, desconto, evento), evento)
<1> DEFINE q == Quote(p, avulsas, desconto, evento)
           n == ApplyPackages(avulsas, regras[p].pacotes)
           caucao == IF evento THEN Politica.caucao ELSE 0
           limpeza == Catalogo[p].limpeza
<1>1. regras[p].pacotes \in Seq(Pacote) /\ limpeza \in Nat /\ caucao \in Nat /\ Politica.sinal \in 0..100
  BY MotorAssumption DEF TiposMotor
<1>2. DOMAIN avulsas = 1..N /\ Len(avulsas) = N
  BY DEF NoitesDe
<1>3. /\ n \in NoitesDe(N)
      /\ \A j \in 1..N : n[j].dia = avulsas[j].dia /\ n[j].tipo = avulsas[j].tipo
      /\ Preco(n, 1..N) <= Preco(avulsas, 1..N)
      /\ Preco(n, 1..N) = Preco(avulsas, 1..N) <=> \A j \in 1..N : n[j].pacote = 0
      /\ PacotesInteiros(n, avulsas, regras[p].pacotes)
  BY <1>1, PacotesAplicados
<1>4. n = [i \in 1..N |-> n[i]]
  BY <1>3 DEF NoitesDe
<1> HIDE DEF n, caucao, limpeza
<1>5. <<>> \o n = n /\ Len(n) = N /\ DOMAIN n = 1..N
  BY <1>4, SequenciaDada
<1> DEFINE sub == Preco(n, 1..N)
           abate == Pct(sub, desconto)
           total == sub - abate + limpeza + caucao
           sinal == Pct(total, Politica.sinal)
<1>6. /\ q.noites = n /\ q.avulsas = avulsas /\ q.linhas = Linhas(n) /\ q.subtotal = sub
      /\ q.desconto = abate /\ q.total = total /\ q.sinal = sinal /\ q.saldo = total - sinal
  <2>1. <<>> \o ApplyPackages(avulsas, regras[p].pacotes) = n
    BY <1>5 DEF n
  <2> QED
    BY <1>5, <2>1 DEF Quote, Totais, caucao, limpeza
<1> HIDE DEF q
<1>7. sub \in Nat
  BY <1>3, PrecoNatural
<1>8. abate \in 0..sub
  BY <1>7, PctCabe
<1>9. total \in Nat
  BY <1>1, <1>7, <1>8
<1>10. sinal \in 0..total
  BY <1>1, <1>9, PctCabe
<1>11. Soma([l \in Linhas(n) |-> l.noites]) = N /\ Soma([l \in Linhas(n) |-> l.subtotal]) = sub
  BY <1>3, LinhasFecham
<1> HIDE DEF sub, abate, sinal
<1>12. q.sinal + q.saldo + q.desconto = Soma([l \in q.linhas |-> l.subtotal]) + limpeza + caucao
  BY <1>1, <1>6, <1>7, <1>8, <1>9, <1>10, <1>11
<1>13. Len(q.noites) = Len(q.avulsas) /\ DOMAIN q.noites = 1..N /\ DOMAIN q.avulsas = 1..N
  BY <1>2, <1>5, <1>6
<1>14. \A i \in DOMAIN q.noites : /\ q.noites[i].dia = q.avulsas[i].dia
                                  /\ q.noites[i].tipo = q.avulsas[i].tipo
  BY <1>3, <1>6, <1>13
<1>15. PacotesInteiros(q.noites, q.avulsas, regras[p].pacotes)
  BY <1>3, <1>6
<1>16. /\ q.subtotal <= Preco(q.avulsas, DOMAIN q.avulsas)
       /\ q.subtotal = Preco(q.avulsas, DOMAIN q.avulsas)
             <=> \A i \in DOMAIN q.noites : q.noites[i].pacote = 0
  BY <1>2, <1>3, <1>5, <1>6 DEF sub
<1>17. Len(q.noites) = Soma([l \in q.linhas |-> l.noites])
  BY <1>5, <1>6, <1>11
<1>18. q.sinal + q.saldo + q.desconto
          = Soma([l \in q.linhas |-> l.subtotal]) + Catalogo[p].limpeza
                + (IF evento THEN Politica.caucao ELSE 0)
  BY <1>12 DEF limpeza, caucao
<1>19. q.desconto \in 0..q.subtotal /\ q.sinal \in 0..q.total
  BY <1>6, <1>8, <1>10
<1>20. Fecha(p, q, evento)
  BY <1>13, <1>14, <1>15, <1>16, <1>17, <1>18, <1>19, Zenon DEF Fecha
<1> QED
  BY <1>20 DEF q

\* The nights of a stay, before the packages.
LEMMA AvulsasSao ==
    ASSUME NEW p, NEW cal, NEW de \in Int, NEW ate \in Int, de < ate
    PROVE  LET a == Avulsas(p, cal, de, ate)
           IN  /\ a = [i \in 1..(ate - de) |-> [dia |-> de + i - 1, tipo |-> Classify(cal, de + i - 1),
                          preco |-> Tarifa(p, Classify(cal, de + i - 1)), pacote |-> 0]]
               /\ Len(a) = ate - de /\ DOMAIN a = 1..(ate - de)
<1> DEFINE N == ate - de
           f == [i \in 1..N |-> [dia |-> de + i - 1, tipo |-> Classify(cal, de + i - 1),
                          preco |-> Tarifa(p, Classify(cal, de + i - 1)), pacote |-> 0]]
<1>1. N \in Nat /\ f = [i \in 1..N |-> f[i]]
  OBVIOUS
<1>2. Avulsas(p, cal, de, ate) = <<>> \o f
  BY DEF Avulsas, Lista
<1> HIDE DEF f
<1>3. <<>> \o f = f /\ Len(f) = N /\ DOMAIN f = 1..N
  BY <1>1, SequenciaDada
<1> QED
  BY <1>2, <1>3 DEF f

\* They have a price when none is missing its rate.
LEMMA AvulsasTipadas ==
    ASSUME TiposMotor, NEW p \in Vendidos, NEW cal, NEW de \in Int, NEW ate \in Int, de < ate,
           \A i \in DOMAIN Avulsas(p, cal, de, ate) : Avulsas(p, cal, de, ate)[i].preco # SemValor
    PROVE  /\ Avulsas(p, cal, de, ate) \in NoitesDe(ate - de)
           /\ \A i \in 1..(ate - de) : Avulsas(p, cal, de, ate)[i].pacote = 0
<1> DEFINE a == Avulsas(p, cal, de, ate)
           N == ate - de
<1>1. /\ a = [i \in 1..N |-> [dia |-> de + i - 1, tipo |-> Classify(cal, de + i - 1),
                          preco |-> Tarifa(p, Classify(cal, de + i - 1)), pacote |-> 0]]
      /\ DOMAIN a = 1..N
  BY AvulsasSao
<1>2. \A i \in 1..N : a[i].preco # SemValor
  BY <1>1
<1> HIDE DEF a
<1>3. ASSUME NEW i \in 1..N PROVE a[i] \in Noite /\ a[i].pacote = 0
  <2> DEFINE t == Classify(cal, de + i - 1)
  <2>1. a[i] = [dia |-> de + i - 1, tipo |-> t, preco |-> Tarifa(p, t), pacote |-> 0]
    BY <1>1
  <2> HIDE DEF t
  <2>2. Tarifa(p, t) # SemValor
    BY <1>2, <2>1
  <2>3. t \in Tipos /\ tarifas[p][t] \in Precos \cup {SemValor} /\ Tarifa(p, t) = tarifas[p][t]
    BY <2>2 DEF Tarifa, TiposMotor
  <2>4. Tarifa(p, t) \in Nat
    BY <2>2, <2>3, MotorAssumption
  <2>5. de + i - 1 \in Int
    OBVIOUS
  <2> QED
    BY <2>1, <2>3, <2>4, <2>5 DEF Noite
<1>4. a \in NoitesDe(N)
  BY <1>1, <1>3 DEF NoitesDe
<1> QED
  BY <1>3, <1>4 DEF a

\* Why a quote is refused, in order.
LEMMA BuildResponde ==
    ASSUME NEW p, NEW cal, NEW de \in Int, NEW ate \in Int, de < ate, NEW desconto, NEW evento
    PROVE  LET a == Avulsas(p, cal, de, ate)
               b == Build(p, cal, de, ate, 1, desconto, evento)
               semTarifa == \E i \in DOMAIN a : a[i].preco = SemValor
               curta == ate - de < MinimoDaEstadia(p, a)
           IN  /\ semTarifa => b.codigo = "RATE_NOT_FOUND"
               /\ ~semTarifa /\ curta => b.codigo = "MIN_STAY_NOT_MET"
               /\ ~semTarifa /\ ~curta /\ Authority(desconto) = "negado"
                      => b.codigo = "DISCOUNT_ABOVE_LIMIT"
               /\ ~semTarifa /\ ~curta /\ Authority(desconto) # "negado"
                      => b.codigo = "OK" /\ b = Quote(p, a, desconto, evento)
<1> DEFINE a == Avulsas(p, cal, de, ate)
           q == Quote(p, a, desconto, evento)
           b == Build(p, cal, de, ate, 1, desconto, evento)
           semTarifa == \E i \in DOMAIN a : a[i].preco = SemValor
           curta == ate - de < MinimoDaEstadia(p, a)
<1>1. /\ q.codigo = "OK" /\ q.alcada = Authority(desconto)
      /\ [q EXCEPT !.codigo = "MIN_STAY_NOT_MET"].codigo = "MIN_STAY_NOT_MET"
      /\ [q EXCEPT !.codigo = "DISCOUNT_ABOVE_LIMIT"].codigo = "DISCOUNT_ABOVE_LIMIT"
  BY DEF Quote, Totais
<1>2. ~(1 > Lotacao) /\ ~(de >= ate) /\ ~(1 < 1)
  BY MotorAssumption
<1>3. b = IF semTarifa THEN [codigo |-> "RATE_NOT_FOUND"]
          ELSE IF curta THEN [q EXCEPT !.codigo = "MIN_STAY_NOT_MET"]
          ELSE IF q.alcada = "negado" THEN [q EXCEPT !.codigo = "DISCOUNT_ABOVE_LIMIT"]
          ELSE q
  BY <1>2 DEF Build, Conferir
<1> HIDE DEF a, q, b, semTarifa, curta
<1>4. /\ semTarifa => b.codigo = "RATE_NOT_FOUND"
      /\ ~semTarifa /\ curta => b.codigo = "MIN_STAY_NOT_MET"
      /\ ~semTarifa /\ ~curta /\ Authority(desconto) = "negado"
             => b.codigo = "DISCOUNT_ABOVE_LIMIT"
      /\ ~semTarifa /\ ~curta /\ Authority(desconto) # "negado"
             => b.codigo = "OK" /\ b = q
  <2>1. [codigo |-> "RATE_NOT_FOUND"].codigo = "RATE_NOT_FOUND"
    OBVIOUS
  <2> QED
    BY <1>1, <1>3, <2>1, Zenon
<1> QED
  BY <1>4, Zenon DEF a, q, b, semTarifa, curta

\* Whatever the house has configured, a quote that is given adds up to the cent
\* (domain/booking/booking.go Build, applyPackages).
THEOREM OrcamentoSempreFecha == SpecMotor => []OrcamentoFecha
<1>1. ASSUME TiposMotor PROVE OrcamentoFecha
  <2> SUFFICES ASSUME NEW p \in Vendidos, NEW e \in Estadias, NEW desconto \in Descontos,
                      NEW evento \in BOOLEAN, ConferirComposicao(p),
                      Orcar(p, e[1], e[2], 1, desconto, evento).codigo = "OK"
               PROVE  Fecha(p, Orcar(p, e[1], e[2], 1, desconto, evento), evento)
    BY DEF OrcamentoFecha
  <2> DEFINE cal == Calendario(e[1], e[2])
             a == Avulsas(p, cal, e[1], e[2])
             b == Build(p, cal, e[1], e[2], 1, desconto, evento)
  <2>1. e[1] \in Int /\ e[2] \in Int /\ e[1] < e[2] /\ e[2] - e[1] \in Nat /\ desconto \in 0..100
    BY MotorAssumption DEF Estadias
  <2>2. b.codigo = "OK" /\ Orcar(p, e[1], e[2], 1, desconto, evento) = b
    BY DEF Orcar
  <2> HIDE DEF b, cal
  <2>3. b = Quote(p, a, desconto, evento) /\ \A i \in DOMAIN a : a[i].preco # SemValor
    BY <2>1, <2>2, BuildResponde DEF b
  <2>4. a \in NoitesDe(e[2] - e[1]) /\ \A i \in 1..(e[2] - e[1]) : a[i].pacote = 0
    BY <1>1, <2>1, <2>3, AvulsasTipadas
  <2> HIDE DEF a
  <2>5. Fecha(p, Quote(p, a, desconto, evento), evento)
    BY <1>1, <2>1, <2>4, QuoteFecha
  <2> QED
    BY <2>2, <2>3, <2>5
<1> QED
  BY <1>1, MotorTipado, PTL

-----------------------------------------------------------------------------
(* What the questions say of each other.                                   *)

\* A night is of the same kind in the calendar of its stay and in that of the season.
LEMMA MesmoTipo ==
    ASSUME TiposMotor, NEW de \in Int, NEW ate \in Int, NEW d \in Int,
           0 <= de, de <= d, d < ate, ate <= UltimaNoite
    PROVE  Classify(Calendario(de, ate), d) = Classify(Calendario(0, UltimaNoite), d)
<1> DEFINE doDia(cal) == {e \in cal.periodos : e.de <= d /\ d <= e.ate}
           estada == Calendario(de, ate)
           estacao == Calendario(0, UltimaNoite)
<1>1. UltimaNoite \in Int /\ \A e \in periodos : e.de \in Int /\ e.ate \in Int
  BY MotorAssumption DEF TiposMotor
<1>2. doDia(estada) = {e \in periodos : e.de <= d /\ d <= e.ate}
  BY <1>1 DEF Calendario
<1>3. doDia(estacao) = {e \in periodos : e.de <= d /\ d <= e.ate}
  BY <1>1 DEF Calendario
<1>4. d \in estada.feriados <=> d \in estacao.feriados
  BY <1>1 DEF Calendario
<1>5. doDia(estada) = doDia(estacao)
  BY <1>2, <1>3
<1> HIDE DEF estada, estacao
<1>6. Classify(estada, d) = Classify(estacao, d)
  BY <1>4, <1>5, Zenon DEF Classify
<1> QED
  BY <1>6 DEF estada, estacao

\* The counts of a day.
LEMMA Contagens ==
    ASSUME NEW p \in Vendidos
    PROVE  LET c == Composicao(p)
           IN  /\ c.declaradas \in Nat /\ c.ativas \in Nat /\ c.ativas <= c.declaradas
               /\ \A d : Ocupacao(p, d).declaradas = c.declaradas /\ Ocupacao(p, d).ativas = c.ativas
<1> DEFINE m == Membros(p)
           a == Membros(p) \cap ativas
<1>1. IsFiniteSet(m) /\ a \in SUBSET m
  BY MotorAssumption
<1>2. IsFiniteSet(a) /\ Cardinality(a) <= Cardinality(m)
  BY <1>1, FS_Subset
<1>3. Cardinality(m) \in Nat /\ Cardinality(a) \in Nat
  BY <1>1, <1>2, FS_CardinalityType
<1> QED
  BY <1>2, <1>3 DEF Composicao, Ocupacao

\* Why a day is not for sale, against the check a stay makes.
LEMMA MotivoDoDia ==
    ASSUME NEW p \in Vendidos, NEW d, NEW temTarifa \in BOOLEAN
    PROVE  LET v == Vendaveis(p, Ocupacao(p, d), temTarifa)
           IN  /\ ~ConferirComposicao(p) =>
                      v.motivo \in {"COMPOSICAO", "UNIDADE_INATIVA", "SEM_TARIFA"}
               /\ ConferirComposicao(p) => (v.motivo = "SEM_TARIFA" <=> ~temTarifa)
<1> DEFINE v == Vendaveis(p, Ocupacao(p, d), temTarifa)
           c == Composicao(p)
           o == Ocupacao(p, d)
           livres == IF Catalogo[p].consome = "all_members"
                     THEN (IF o.ocupadas = 0 THEN 1 ELSE 0) ELSE o.ativas - o.ocupadas
           falta == Catalogo[p].consome = "all_members" /\ o.ativas < o.declaradas
<1>1. /\ c.declaradas \in Nat /\ c.ativas \in Nat /\ c.ativas <= c.declaradas
      /\ o.declaradas = c.declaradas /\ o.ativas = c.ativas
  BY Contagens
<1>2. ConferirComposicao(p) <=> IF Catalogo[p].consome = "all_members"
                                THEN c.declaradas > 0 /\ c.ativas = c.declaradas
                                ELSE c.ativas > 0
  BY DEF ConferirComposicao
<1>3. v.motivo = IF falta THEN "COMPOSICAO" ELSE IF ~temTarifa THEN "SEM_TARIFA"
                 ELSE IF o.ativas = 0 THEN "UNIDADE_INATIVA"
                 ELSE IF livres <= 0 THEN "OCUPADO" ELSE "NENHUM"
  BY DEF Vendaveis
<1> DEFINE apertado == livres <= 0
           motivo == v.motivo
<1>4. motivo = IF falta THEN "COMPOSICAO" ELSE IF ~temTarifa THEN "SEM_TARIFA"
                 ELSE IF o.ativas = 0 THEN "UNIDADE_INATIVA"
                 ELSE IF apertado THEN "OCUPADO" ELSE "NENHUM"
  BY <1>3
<1> HIDE DEF v, c, o, livres, apertado, motivo
<1>5. ~ConferirComposicao(p) => falta \/ o.ativas = 0
  BY <1>1, <1>2
<1>6. ConferirComposicao(p) => ~falta
  BY <1>1, <1>2
<1> HIDE DEF falta
<1>7. /\ ~ConferirComposicao(p) => motivo \in {"COMPOSICAO", "UNIDADE_INATIVA", "SEM_TARIFA"}
      /\ ConferirComposicao(p) => (motivo = "SEM_TARIFA" <=> ~temTarifa)
  BY <1>4, <1>5, <1>6
<1> QED
  BY <1>7 DEF motivo, v, o

\* The longest of the minimums of the nights.
LEMMA MinimoPassa ==
    ASSUME TiposMotor, NEW p \in Vendidos, NEW N \in Nat \ {0}, NEW a, DOMAIN a = 1..N
    PROVE  N < MinimoDaEstadia(p, a) <=>
              \E i \in 1..N : /\ MinimoDoProduto(p, a[i].tipo) # SemValor
                              /\ MinimoDoProduto(p, a[i].tipo) > N
<1> DEFINE g == [i \in 1..N |-> MinimoDoProduto(p, a[i].tipo)]
           S == {g[i] : i \in 1..N}
           T == {1} \cup (S \ {SemValor})
<1>1. IsFiniteSet(1..N)
  BY FS_Interval
<1>2. IsFiniteSet(S)
  BY <1>1, ImagemFinita
<1>3. \A i \in 1..N : g[i] \in Noites \cup {SemValor}
  <2> SUFFICES ASSUME NEW i \in 1..N PROVE g[i] \in Noites \cup {SemValor}
    OBVIOUS
  <2> DEFINE t == a[i].tipo
  <2>1. g[i] = MinimoDoProduto(p, t)
    OBVIOUS
  <2> HIDE DEF t, g
  <2>2. CASE t \notin Tipos
    BY <2>1, <2>2 DEF MinimoDoProduto
  <2>3. CASE t \in Tipos
    <3>1. regras[p] \in Regras /\ minimos[t] \in Noites \cup {SemValor}
      BY <2>3 DEF TiposMotor
    <3>2. regras[p].minimos[t] \in Noites \cup {SemValor}
      BY <2>3, <3>1, MotorAssumption
    <3> QED
      BY <2>1, <2>3, <3>1, <3>2 DEF MinimoDoProduto
  <2> QED
    BY <2>2, <2>3
<1>4. T \in SUBSET Int
  <2>1. \A x \in S : x \in Noites \cup {SemValor}
    BY <1>3
  <2> HIDE DEF S
  <2>2. S \ {SemValor} \in SUBSET Nat
    BY <2>1, MotorAssumption
  <2> QED
    BY <2>2
<1>5. IsFiniteSet(T)
  <2>1. IsFiniteSet({1})
    BY FS_Singleton
  <2>2. IsFiniteSet(S \ {SemValor})
    BY <1>2, FS_Difference
  <2> QED
    BY <2>1, <2>2, FS_Union
<1>6. {MinimoDoProduto(p, a[i].tipo) : i \in DOMAIN a} = S
  OBVIOUS
<1>7. MinimoDaEstadia(p, a) = Max(T)
  BY <1>6 DEF MinimoDaEstadia
<1>8. \A i \in 1..N : g[i] = MinimoDoProduto(p, a[i].tipo)
  OBVIOUS
<1> HIDE DEF g
<1>9. 1 \in T /\ \A i \in 1..N : g[i] # SemValor => g[i] \in T
  OBVIOUS
<1>10. \A x \in T : x = 1 \/ \E i \in 1..N : x = g[i] /\ g[i] # SemValor
  OBVIOUS
<1> HIDE DEF T, S
<1>11. \E x \in T : \A y \in T : y <= x
  BY <1>4, <1>5, <1>9, TemMaximo
<1>12. Max(T) \in T /\ \A y \in T : y <= Max(T)
  <2>1. Max(T) = CHOOSE x \in T : \A y \in T : x >= y
    BY DEF Max
  <2>2. \E x \in T : \A y \in T : x >= y
    BY <1>4, <1>11
  <2>3. Max(T) \in T /\ \A y \in T : Max(T) >= y
    BY <2>1, <2>2, Zenon
  <2> QED
    BY <1>4, <2>3
<1> DEFINE m == Max(T)
<1>13. m \in Int /\ MinimoDaEstadia(p, a) = m /\ m \in T /\ \A y \in T : y <= m /\ y \in Int
  BY <1>4, <1>7, <1>12
<1> HIDE DEF m
<1>14. N < m => \E i \in 1..N : g[i] # SemValor /\ g[i] > N
  BY <1>10, <1>13
<1>15. ASSUME NEW i \in 1..N, g[i] # SemValor, g[i] > N PROVE N < m
  <2>1. g[i] \in Int /\ g[i] <= m
    BY <1>9, <1>13, <1>15
  <2> QED
    BY <1>13, <1>15, <2>1
<1> QED
  BY <1>8, <1>13, <1>14, <1>15

\* Units and their cells.
LEMMA CelulasConcordam == MapaConcorda
<1> SUFFICES ASSUME NEW p \in Vendidos, NEW d \in 0..(UltimaNoite - 1)
             PROVE  LET c == Ocupacao(p, d)
                    IN  c.ativas - c.ocupadas
                           = Cardinality({u \in Membros(p) \cap ativas :
                                             StatusDaCelula(u, d) \in {"livre", "completed"}})
  BY DEF MapaConcorda
<1> DEFINE A == Membros(p) \cap ativas
           O == {u \in A : BlocosDe(u, d, Bloqueiam) # {}}
           L == {u \in A : StatusDaCelula(u, d) \in {"livre", "completed"}}
<1>1. IsFiniteSet(A)
  <2>1. IsFiniteSet(Membros(p)) /\ A \in SUBSET Membros(p)
    BY MotorAssumption
  <2> QED
    BY <2>1, FS_Subset
<1>2. ASSUME NEW u PROVE StatusDaCelula(u, d) \in {"livre", "completed"}
                            <=> BlocosDe(u, d, Bloqueiam) = {}
  <2> DEFINE bs == BlocosDe(u, d, Visiveis)
             ativos == {b \in bs : b.status # "completed"}
             quais == IF ativos # {} THEN ativos ELSE bs
             b0 == CHOOSE b \in quais : TRUE
  <2>1. ativos = BlocosDe(u, d, Bloqueiam)
    BY DEF BlocosDe, Visiveis, Bloqueiam
  <2>2. \A b \in ativos : b.status \in {"hold", "confirmed"}
    BY DEF BlocosDe, Visiveis, Bloqueiam
  <2>3. StatusDaCelula(u, d) = IF bs = {} THEN "livre" ELSE b0.status
    BY DEF StatusDaCelula
  <2>4. bs # {} => b0 \in quais
    OBVIOUS
  <2>5. ativos # {} => bs # {} /\ b0 \in ativos
    BY <2>4
  <2>6. ativos = {} /\ bs # {} => b0.status = "completed"
    BY <2>4
  <2> HIDE DEF bs, ativos, b0
  <2> QED
    BY <2>1, <2>2, <2>3, <2>5, <2>6
<1>3. L = A \ O /\ A \cap O = O
  BY <1>2
<1>4. Ocupacao(p, d).ativas = Cardinality(A) /\ Ocupacao(p, d).ocupadas = Cardinality(O)
  BY DEF Ocupacao
<1> HIDE DEF A, O, L
<1>5. Cardinality(A \ O) = Cardinality(A) - Cardinality(A \cap O)
  BY <1>1, FS_Difference
<1> QED
  BY <1>3, <1>4, <1>5 DEF L, A

\* A quote that is given, when no package serves: each night costs its own rate.
LEMMA AvulsaSemPacote ==
    ASSUME TiposMotor, NEW p \in Vendidos, NEW N \in Nat, NEW avulsas \in NoitesDe(N),
           \A i \in 1..N : avulsas[i].pacote = 0, NEW desconto, NEW evento
    PROVE  LET n == Quote(p, avulsas, desconto, evento).noites
           IN  /\ DOMAIN n = 1..N
               /\ \A i \in 1..N : n[i].dia = avulsas[i].dia
               /\ \A i \in 1..N : n[i].pacote = 0 => n[i].preco = avulsas[i].preco
<1> DEFINE n == ApplyPackages(avulsas, regras[p].pacotes)
<1>1. regras[p].pacotes \in Seq(Pacote)
  BY MotorAssumption DEF TiposMotor
<1>2. /\ n \in NoitesDe(N)
      /\ \A j \in 1..N : n[j].dia = avulsas[j].dia
      /\ \A j \in 1..N : n[j].pacote = 0 => n[j] = avulsas[j]
  BY <1>1, PacotesAplicados
<1>3. n = [i \in 1..N |-> n[i]]
  BY <1>2 DEF NoitesDe
<1> HIDE DEF n
<1>4. <<>> \o n = n /\ DOMAIN n = 1..N
  BY <1>3, SequenciaDada
<1>5. Quote(p, avulsas, desconto, evento).noites = n
  <2>1. <<>> \o ApplyPackages(avulsas, regras[p].pacotes) = n
    BY <1>4 DEF n
  <2> QED
    BY <2>1 DEF Quote, Totais
<1> QED
  BY <1>2, <1>4, <1>5

\* The days of the season.
Temporada(p) == Lista(UltimaNoite, LAMBDA i : DiaDoProduto(p, i - 1))

LEMMA DiasDaTemporada ==
    ASSUME NEW p PROVE Temporada(p) = <<>> \o [i \in 1..UltimaNoite |-> DiaDoProduto(p, i - 1)]
BY DEF Temporada, Lista

\* What a stay finds in the days of the season, for one stay and its quote.
Promessa(p, dias, N, estes, q) ==
    /\ q.codigo = "COMPOSITION_INCOMPLETE" =>
           \A i \in estes : dias[i].motivo \in {"COMPOSICAO", "UNIDADE_INATIVA", "SEM_TARIFA"}
    /\ q.codigo = "RATE_NOT_FOUND" <=>
           ConferirComposicao(p) /\ \E i \in estes : dias[i].motivo = "SEM_TARIFA"
    /\ q.codigo = "MIN_STAY_NOT_MET" <=>
           /\ q.codigo \in {"OK", "MIN_STAY_NOT_MET"}
           /\ \E i \in estes : dias[i].minimo # SemValor /\ dias[i].minimo > N
    /\ q.codigo = "OK" =>
           /\ \A i \in estes : dias[i].preco # SemValor
           /\ (\A i \in DOMAIN q.noites : q.noites[i].pacote = 0) =>
                  \A i \in DOMAIN q.noites : q.noites[i].preco = dias[q.noites[i].dia + 1].preco

\* The calendar of the season and the quote of a stay are of the same nights.
LEMMA EstadiaPrometida ==
    ASSUME TiposMotor, NEW p \in Vendidos, NEW de \in Nat, NEW ate \in Nat, NEW evento \in BOOLEAN,
           de < ate, ate <= UltimaNoite
    PROVE  Promessa(p, Temporada(p), ate - de, (de + 1)..ate,
                    Orcar(p, de, ate, 1, 0, evento))
<1> DEFINE N == ate - de
           dias == Temporada(p)
           estes == (de + 1)..ate
           q == Orcar(p, de, ate, 1, 0, evento)
           cal == Calendario(de, ate)
           a == Avulsas(p, cal, de, ate)
           t(d) == Classify(Calendario(0, UltimaNoite), d)
<1>1. /\ UltimaNoite \in Nat /\ de \in Nat /\ ate \in Nat /\ de < ate /\ ate <= UltimaNoite
      /\ N \in Nat \ {0}
  BY MotorAssumption
\* The days.
<1>2. \A i \in 1..UltimaNoite : dias[i] = DiaDoProduto(p, i - 1)
  <2> DEFINE f == [i \in 1..UltimaNoite |-> DiaDoProduto(p, i - 1)]
  <2>1. f = [i \in 1..UltimaNoite |-> f[i]]
    OBVIOUS
  <2>2. dias = <<>> \o f
    BY DiasDaTemporada
  <2>3. \A i \in 1..UltimaNoite : f[i] = DiaDoProduto(p, i - 1)
    OBVIOUS
  <2> HIDE DEF f
  <2>4. <<>> \o f = f
    BY <1>1, <2>1, SequenciaDada
  <2> QED
    BY <2>2, <2>3, <2>4
<1> HIDE DEF dias
<1>3. ASSUME NEW d \in 0..(UltimaNoite - 1)
      PROVE  /\ dias[d + 1].preco = Tarifa(p, t(d)) /\ dias[d + 1].minimo = MinimoDoProduto(p, t(d))
             /\ ~ConferirComposicao(p) =>
                    dias[d + 1].motivo \in {"COMPOSICAO", "UNIDADE_INATIVA", "SEM_TARIFA"}
             /\ ConferirComposicao(p) =>
                    (dias[d + 1].motivo = "SEM_TARIFA" <=> Tarifa(p, t(d)) = SemValor)
  <2> DEFINE x == t(d)
             v == Vendaveis(p, Ocupacao(p, d), Tarifa(p, x) # SemValor)
  <2>1. d + 1 \in 1..UltimaNoite /\ (d + 1) - 1 = d
    BY <1>1
  <2>2. dias[d + 1] = DiaDoProduto(p, d)
    BY <1>2, <2>1
  <2>3. DiaDoProduto(p, d) = [livres |-> v.livres, motivo |-> v.motivo, preco |-> Tarifa(p, x),
                              minimo |-> MinimoDoProduto(p, x)]
    BY DEF DiaDoProduto
  <2> HIDE DEF x
  <2>4. /\ ~ConferirComposicao(p) => v.motivo \in {"COMPOSICAO", "UNIDADE_INATIVA", "SEM_TARIFA"}
        /\ ConferirComposicao(p) => (v.motivo = "SEM_TARIFA" <=> Tarifa(p, x) = SemValor)
    <3>1. (Tarifa(p, x) # SemValor) \in BOOLEAN
      OBVIOUS
    <3> QED
      BY <3>1, MotivoDoDia
  <2> HIDE DEF v
  <2>5. /\ dias[d + 1].preco = Tarifa(p, x) /\ dias[d + 1].minimo = MinimoDoProduto(p, x)
        /\ dias[d + 1].motivo = v.motivo
    BY <2>2, <2>3
  <2> QED
    BY <2>4, <2>5 DEF x
<1>4. ASSUME NEW d \in de..(ate - 1) PROVE d \in 0..(UltimaNoite - 1)
  BY <1>1
\* The nights.
<1>5. /\ a = [i \in 1..N |-> [dia |-> de + i - 1, tipo |-> Classify(cal, de + i - 1),
                     preco |-> Tarifa(p, Classify(cal, de + i - 1)), pacote |-> 0]]
      /\ DOMAIN a = 1..N
  BY <1>1, AvulsasSao
<1>6. ASSUME NEW i \in 1..N
      PROVE  /\ de + i - 1 \in de..(ate - 1) /\ a[i].dia = de + i - 1 /\ a[i].tipo = t(de + i - 1)
             /\ a[i].preco = Tarifa(p, t(de + i - 1)) /\ a[i].pacote = 0
  <2> DEFINE d == de + i - 1
  <2>1. d \in de..(ate - 1) /\ d \in Int
    BY <1>1
  <2>2. Classify(cal, d) = t(d)
    BY <1>1, <2>1, MesmoTipo
  <2>3. a[i] = [dia |-> d, tipo |-> Classify(cal, d), preco |-> Tarifa(p, Classify(cal, d)),
                pacote |-> 0]
    BY <1>5
  <2> HIDE DEF d, a, cal, t
  <2>4. /\ a[i].dia = d /\ a[i].tipo = Classify(cal, d) /\ a[i].pacote = 0
        /\ a[i].preco = Tarifa(p, Classify(cal, d))
    BY <2>3
  <2>5. /\ d \in de..(ate - 1) /\ a[i].dia = d /\ a[i].tipo = t(d)
        /\ a[i].preco = Tarifa(p, t(d)) /\ a[i].pacote = 0
    BY <2>1, <2>2, <2>4
  <2> QED
    BY <2>5 DEF d
<1> HIDE DEF a, t
<1>7. ASSUME NEW d \in de..(ate - 1) PROVE d - de + 1 \in 1..N /\ de + (d - de + 1) - 1 = d
  BY <1>1
<1>8. \A i \in estes : i - 1 \in de..(ate - 1) /\ (i - 1) + 1 = i
  BY <1>1
<1>9. \A d \in de..(ate - 1) : d + 1 \in estes
  BY <1>1
<1> HIDE DEF estes
<1> DEFINE semTarifa == \E d \in de..(ate - 1) : Tarifa(p, t(d)) = SemValor
           curta == \E d \in de..(ate - 1) : /\ MinimoDoProduto(p, t(d)) # SemValor
                                             /\ MinimoDoProduto(p, t(d)) > N
<1>10. (\E i \in DOMAIN a : a[i].preco = SemValor) <=> semTarifa
  <2>1. ASSUME NEW i \in 1..N, a[i].preco = SemValor PROVE semTarifa
    BY <1>6, <2>1
  <2>2. ASSUME NEW d \in de..(ate - 1), Tarifa(p, t(d)) = SemValor
        PROVE  \E i \in 1..N : a[i].preco = SemValor
    <3> DEFINE i == d - de + 1
    <3>1. i \in 1..N /\ de + i - 1 = d
      BY <1>7
    <3>2. a[i].preco = Tarifa(p, t(de + i - 1))
      BY <1>6, <3>1
    <3> HIDE DEF i
    <3> QED
      BY <2>2, <3>1, <3>2
  <2> QED
    BY <1>5, <2>1, <2>2
<1>11. N < MinimoDaEstadia(p, a) <=> curta
  <2>1. N < MinimoDaEstadia(p, a) <=>
              \E i \in 1..N : /\ MinimoDoProduto(p, a[i].tipo) # SemValor
                              /\ MinimoDoProduto(p, a[i].tipo) > N
    BY <1>1, <1>5, MinimoPassa
  <2>2. ASSUME NEW i \in 1..N, MinimoDoProduto(p, a[i].tipo) # SemValor,
               MinimoDoProduto(p, a[i].tipo) > N
        PROVE  curta
    BY <1>6, <2>2
  <2>3. ASSUME NEW d \in de..(ate - 1), MinimoDoProduto(p, t(d)) # SemValor,
               MinimoDoProduto(p, t(d)) > N
        PROVE  \E i \in 1..N : /\ MinimoDoProduto(p, a[i].tipo) # SemValor
                               /\ MinimoDoProduto(p, a[i].tipo) > N
    <3> DEFINE i == d - de + 1
    <3>1. i \in 1..N /\ de + i - 1 = d
      BY <1>7
    <3>2. a[i].tipo = t(de + i - 1)
      BY <1>6, <3>1
    <3> HIDE DEF i
    <3> QED
      BY <2>3, <3>1, <3>2
  <2> QED
    BY <2>1, <2>2, <2>3
<1>13. ConferirComposicao(p) => ((\E i \in estes : dias[i].motivo = "SEM_TARIFA") <=> semTarifa)
  BY <1>3, <1>4, <1>8, <1>9
<1>14. (\E i \in estes : dias[i].minimo # SemValor /\ dias[i].minimo > N) <=> curta
  BY <1>3, <1>4, <1>8, <1>9
<1>15. (\A i \in estes : dias[i].preco # SemValor) <=> ~semTarifa
  BY <1>3, <1>4, <1>8, <1>9
\* The answer.
<1>16. Authority(0) # "negado"
  <2>1. 0 <= Politica.auto
    BY MotorAssumption
  <2> QED
    BY <2>1 DEF Authority
<1> DEFINE b == Build(p, cal, de, ate, 1, 0, evento)
<1>17. /\ ~ConferirComposicao(p) => q.codigo = "COMPOSITION_INCOMPLETE"
       /\ ConferirComposicao(p) => q = b
  BY DEF Orcar
<1> HIDE DEF q
<1>18. /\ semTarifa => b.codigo = "RATE_NOT_FOUND"
       /\ ~semTarifa /\ curta => b.codigo = "MIN_STAY_NOT_MET"
       /\ ~semTarifa /\ ~curta => b.codigo = "OK" /\ b = Quote(p, a, 0, evento)
  <2> DEFINE falta == \E i \in DOMAIN a : a[i].preco = SemValor
             pouca == ate - de < MinimoDaEstadia(p, a)
  <2>1. /\ falta => b.codigo = "RATE_NOT_FOUND"
        /\ ~falta /\ pouca => b.codigo = "MIN_STAY_NOT_MET"
        /\ ~falta /\ ~pouca /\ Authority(0) # "negado"
               => b.codigo = "OK" /\ b = Quote(p, a, 0, evento)
    BY <1>1, BuildResponde DEF a
  <2> QED
    BY <1>10, <1>11, <1>16, <2>1
<1> HIDE DEF b
<1>19. ASSUME ~semTarifa, \A i \in DOMAIN Quote(p, a, 0, evento).noites :
                             Quote(p, a, 0, evento).noites[i].pacote = 0,
              NEW i \in DOMAIN Quote(p, a, 0, evento).noites
       PROVE  Quote(p, a, 0, evento).noites[i].preco
                 = dias[Quote(p, a, 0, evento).noites[i].dia + 1].preco
  <2> DEFINE n == Quote(p, a, 0, evento).noites
  <2>1. \A k \in DOMAIN a : a[k].preco # SemValor
    BY <1>10, <1>19
  <2>2. a \in NoitesDe(N) /\ \A k \in 1..N : a[k].pacote = 0
    BY <1>1, <2>1, AvulsasTipadas DEF a
  <2>3. /\ DOMAIN n = 1..N
        /\ \A k \in 1..N : n[k].dia = a[k].dia
        /\ \A k \in 1..N : n[k].pacote = 0 => n[k].preco = a[k].preco
    BY <1>1, <2>2, AvulsaSemPacote
  <2>4. i \in 1..N /\ n[i].pacote = 0
    BY <1>19, <2>3
  <2> HIDE DEF n
  <2> DEFINE d == de + i - 1
  <2>5. d \in de..(ate - 1) /\ n[i].dia = d /\ n[i].preco = Tarifa(p, t(d))
    BY <1>6, <2>3, <2>4
  <2> HIDE DEF d
  <2>6. dias[d + 1].preco = Tarifa(p, t(d))
    BY <1>3, <1>4, <2>5
  <2>7. n[i].preco = dias[n[i].dia + 1].preco
    BY <2>5, <2>6
  <2> QED
    BY <2>7 DEF n
<1> HIDE DEF semTarifa, curta
<1>20. q.codigo = "COMPOSITION_INCOMPLETE" =>
           \A i \in estes : dias[i].motivo \in {"COMPOSICAO", "UNIDADE_INATIVA", "SEM_TARIFA"}
  <2>1. q.codigo = "COMPOSITION_INCOMPLETE" => ~ConferirComposicao(p)
    BY <1>17, <1>18
  <2> QED
    BY <1>3, <1>4, <1>8, <2>1
<1>21. q.codigo = "RATE_NOT_FOUND" <=>
           ConferirComposicao(p) /\ \E i \in estes : dias[i].motivo = "SEM_TARIFA"
  BY <1>13, <1>17, <1>18
<1>22. q.codigo = "MIN_STAY_NOT_MET" <=>
           /\ q.codigo \in {"OK", "MIN_STAY_NOT_MET"}
           /\ \E i \in estes : dias[i].minimo # SemValor /\ dias[i].minimo > N
  BY <1>14, <1>17, <1>18
<1>23. q.codigo = "OK" => ~semTarifa /\ q = Quote(p, a, 0, evento)
  BY <1>17, <1>18
<1>24. q.codigo = "OK" =>
           /\ \A i \in estes : dias[i].preco # SemValor
           /\ (\A i \in DOMAIN q.noites : q.noites[i].pacote = 0) =>
                  \A i \in DOMAIN q.noites : q.noites[i].preco = dias[q.noites[i].dia + 1].preco
  BY <1>15, <1>19, <1>23
<1>25. Promessa(p, dias, N, estes, q)
  BY <1>20, <1>21, <1>22, <1>24, Zenon DEF Promessa
<1> QED
  BY <1>25, Zenon DEF dias, estes, q

\* The same of every stay.
LEMMA CalendarioPromete ==
    ASSUME TiposMotor PROVE OfertaConcorda
<1> SUFFICES ASSUME NEW p \in Vendidos, NEW dias \in {Temporada(p)}, NEW e \in Estadias,
                    NEW q \in {Orcar(p, e[1], e[2], 1, 0, FALSE)}
             PROVE  Promessa(p, dias, e[2] - e[1], (e[1] + 1)..e[2], q)
  BY Zenon DEF OfertaConcorda, Temporada, Promessa
<1>1. e[1] \in Nat /\ e[2] \in Nat /\ e[1] < e[2] /\ e[2] <= UltimaNoite
  BY MotorAssumption DEF Estadias
<1>2. ASSUME NEW evento \in BOOLEAN
      PROVE  Promessa(p, Temporada(p), e[2] - e[1], (e[1] + 1)..e[2],
                      Orcar(p, e[1], e[2], 1, 0, evento))
  BY <1>1, EstadiaPrometida
<1>3. dias = Temporada(p) /\ q = Orcar(p, e[1], e[2], 1, 0, FALSE) /\ FALSE \in BOOLEAN
  OBVIOUS
<1> QED
  BY <1>2, <1>3, Zenon

\* The calendar promises what a quote honours, and the map and the counts agree
\* (disponibilidade/service.go PorProduto, vendaveis, Orcar; repository.go Ocupacao, Mapa).
THEOREM ConsultasSempreConcordam == SpecMotor => []ConsultasConcordam
<1>1. TiposMotor => ConsultasConcordam
  BY CalendarioPromete, CelulasConcordam DEF ConsultasConcordam
<1> QED
  BY <1>1, MotorTipado, PTL
=============================================================================
