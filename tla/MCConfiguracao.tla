----------------------------- MODULE MCConfiguracao -----------------------------
(***************************************************************************)
(* Small instances of what the house sets in the panel: what a sale is     *)
(* priced by (the policies, the rate tables, the grid of one of them, and  *)
(* the engine over all of it), and who may set it (the users and roles).   *)
(* The parts share no row, so a behaviour is of the one `parte' names and  *)
(* the others stand still.                                                 *)
(***************************************************************************)
EXTENDS Politicas, Administradores, Tabelas, Grade, Motor, TLC

CONSTANTS p1, p2, i1, i2, i3, t1, t2, u1, u2, secretaria, suporte

VARIABLE parte

----------------------------------------------------------------------------

MCChaves == {<<"A", "normal">>, <<"B", "normal">>}

Faixa(min, max, pct) == [min |-> min, max |-> max, pct |-> pct]
Intervalos == {Faixa(2, -1, 100), Faixa(0, 1, 50), Faixa(1, -1, 50), Faixa(0, -1, 50)}

\* Tiers in any order, some that overlap, some that leave a day out.
MCFaixas ==
    UNION {[1..n -> Intervalos] : n \in 1..2} \cup
    {<<Faixa(2, -1, 100), Faixa(1, 1, 50), Faixa(-1, 0, 0)>>,
     <<Faixa(-1, 0, 0), Faixa(1, 1, 50), Faixa(1, -1, 100)>>}

----------------------------------------------------------------------------
(* The season of the engine: four nights, the third a weekend; a house of  *)
(* two units and one of its rooms; three packages, two of one length for   *)
(* different kinds of night.                                               *)

MCCatalogo ==
    [casa   |-> [consome |-> "all_members", membros |-> {u1, u2}, limpeza |-> 3],
     quarto |-> [consome |-> "one_member", membros |-> {u2}, limpeza |-> 0]]

MCEspeciais ==
    {[nome |-> 1, tipo |-> "alta", de |-> 0, ate |-> 2],
     [nome |-> 2, tipo |-> "evento", de |-> 1, ate |-> 1],
     [nome |-> 3, tipo |-> "reveillon", de |-> 3, ate |-> 3]}

SemMinimo == [t \in Tipos |-> SemValor]
MCRegras ==
    {[minimos |-> SemMinimo, pacotes |-> <<>>],
     [minimos |-> [SemMinimo EXCEPT !["normal"] = 2],
      pacotes |-> <<[noites |-> 2, tipos |-> {"normal"}, total |-> 11],
                    [noites |-> 3, tipos |-> {"normal", "fds"}, total |-> 16],
                    [noites |-> 2, tipos |-> {"fds", "alta", "normal"}, total |-> 9]>>]}

MCEditadas == {<<"casa", "normal">>, <<"quarto", "alta">>}

MCMapas ==
    {{},
     {[unidade |-> u1, de |-> 0, ate |-> 2, status |-> "completed"],
      [unidade |-> u1, de |-> 1, ate |-> 3, status |-> "hold"]},
     {[unidade |-> u2, de |-> 2, ate |-> 4, status |-> "confirmed"]}}

MCPolitica == [sinal |-> 50, auto |-> 10, aprovacao |-> 20, caucao |-> 7]

----------------------------------------------------------------------------

SemPolitica ==
    /\ dia = 0 /\ versoes = [s \in Series |-> <<>>]
    /\ trava = [s \in Series |-> Nada] /\ pedido = [p \in Pedidos |-> Livre]
SemTabela ==
    /\ hoje = 0 /\ tabela = [i \in Quadros |-> Vazio]
    /\ requer = [p \in Requisicoes |-> SemRequisicao]
SemGrade ==
    /\ celula = [i \in IdsDaGrade |-> Ausente] /\ edicao = [p \in Edicoes |-> SemEdicao]
SemMotor ==
    /\ feriados = {} /\ periodos = {} /\ ativas = {} /\ blocos = {}
    /\ tarifas = [p \in Vendidos |-> SemMinimo] /\ minimos = SemMinimo
    /\ regras = [p \in Vendidos |-> [minimos |-> SemMinimo, pacotes |-> <<>>]]
SemEquipe ==
    /\ usuarios = [u \in Usuarios |-> [papel |-> Ninguem, ativo |-> FALSE]]
    /\ matriz = [r \in Papeis |-> {}] /\ papeis = {Raiz}
    /\ travaAdm = Ninguem /\ mudancas = [p \in Mudancas |-> SemMudanca]

MCInit ==
    /\ parte \in {"tabelas", "grade", "motor", "equipe"} \cup Series
    /\ IF parte \in Series THEN Init ELSE SemPolitica
    /\ IF parte = "tabelas" THEN InitTabelas ELSE SemTabela
    /\ IF parte = "grade" THEN InitGrade ELSE SemGrade
    /\ IF parte = "motor" THEN InitMotor ELSE SemMotor
    /\ IF parte = "equipe" THEN InitEquipe ELSE SemEquipe

\* A behaviour of the policies is of one series; tiers are published one at a time, twice.
UmaSerie ==
    /\ \A p \in Pedidos : pedido'[p] = Livre \/ pedido'[p].serie = parte
    /\ parte = "cancelamento" =>
          /\ \A p, r \in Pedidos : pedido'[p] = Livre \/ pedido'[r] = Livre \/ p = r
          /\ Len(versoes'["cancelamento"]) <= 2

\* A PATCH carries a role or an active flag, not both, and an ordinary role is granted
\* both bits or neither.
UmaMudanca ==
    \A p \in Mudancas :
      /\ mudancas'[p].papel = Ninguem \/ mudancas'[p].ativo = "mantem"
      /\ mudancas'[p].nova \in {{}, Celulas}

MCNext ==
    /\ UNCHANGED parte
    /\ parte \notin Series => UNCHANGED vars
    /\ parte # "tabelas" => UNCHANGED varsTabelas
    /\ parte # "grade" => UNCHANGED varsGrade
    /\ parte # "motor" => UNCHANGED varsMotor
    /\ parte # "equipe" => UNCHANGED varsEquipe
    /\ \/ parte \in Series /\ Next /\ UmaSerie
       \/ parte = "tabelas" /\ NextTabelas
       \/ parte = "grade" /\ NextGrade
       \/ parte = "motor" /\ NextMotor
       \/ parte = "equipe" /\ NextEquipe /\ UmaMudanca

MCSpec == MCInit /\ [][MCNext]_<<parte, vars, varsTabelas, varsGrade, varsMotor, varsEquipe>>

----------------------------------------------------------------------------

\* No part has both tables and roles: one exchange serves the two.
Simetria ==
    Permutations(Pedidos) \cup Permutations({i1, i2, i3}) \cup
    {t1 :> t2 @@ t2 :> t1 @@ secretaria :> suporte @@ suporte :> secretaria}
===============================================================================
