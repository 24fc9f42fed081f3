----------------------------- MODULE MCManutencao -----------------------------
(***************************************************************************)
(* Small instance of the maintenance orders of one unit.                   *)
(*                                                                         *)
(* Bounds: two orders, one damage report, two blocks, two days and two     *)
(* requests at a time.                                                     *)
(***************************************************************************)
EXTENDS Manutencao, TLC

DoisPeriodos == {[de |-> 0, ate |-> 2], [de |-> 1, ate |-> 2]}

\* Bounds: one block is a sale, one order comes from no damage report, and only that one
\* asks for its period when it is opened (the other, later).
Limites ==
    /\ \A p \in Pedidos : pedido'[p].op = "criar" /\ pedido'[p].avaria # Nenhum =>
          pedido'[p].periodo = Nenhum
    /\ Cardinality({b \in Blocos : bloco'[b].origem = "sale"}) <= 1
    /\ Cardinality({o \in Ordens : ordem'[o].estado # "ausente" /\ ordem'[o].avaria = Nenhum}) <= 1

MCNext == Next /\ Limites

MCSpec == Init /\ [][MCNext]_vars

Simetria == Permutations(Ordens) \cup Permutations(Blocos) \cup Permutations(Pedidos)
=============================================================================
