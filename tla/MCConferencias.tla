---------------------------- MODULE MCConferencias ----------------------------
(***************************************************************************)
(* Small instance of the counts of the goods of one unit.                  *)
(*                                                                         *)
(* Bounds: two goods, one count, two damage reports and two requests at a  *)
(* time; people place two of a good, a copy brings any quantity.           *)
(***************************************************************************)
EXTENDS Conferencias, TLC

ZeroOuDois == {0, 2}
SemCotacaoOuUm == {Nenhum, 1}

Limites ==
    \A b \in Bens : colocacao'[b] # Nenhum => colocacao'[b].via = "copia" \/ colocacao'[b].qtd = 2

MCNext == Next /\ Limites

MCSpec == Init /\ [][MCNext]_vars

Simetria == Permutations(Bens) \cup Permutations(Avarias) \cup Permutations(Pedidos)
=============================================================================
