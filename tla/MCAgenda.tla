------------------------------ MODULE MCAgenda ------------------------------
(* The agenda of a house with two units, small instance. *)
EXTENDS Agenda, TLC

CONSTANTS r1, r2, m1, m2, u1, u2, h1, h2, p1, p2

UmaNoite == [r \in Estadias |-> [de |-> 0, ate |-> 1]]

Simetria == Permutations(Manuais) \cup Permutations(Unidades) \cup Permutations(Pedidos)
            \cup Permutations(Estadias) \cup Permutations(Horarios)
=============================================================================
